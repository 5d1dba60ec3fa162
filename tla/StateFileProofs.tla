-------------------------- MODULE StateFileProofs --------------------------
(***************************************************************************)
(* The state file implements one register, for every number of threads,    *)
(* saves, crashes and damages and every cut of a write: first with any     *)
(* encoding under which a whole file loads back exactly, then with the     *)
(* encoding of Codec, of which that is proved here for states of any size. *)
(*                                                                         *)
(* Codec's decoders are functions of the cells that are left.  Two facts   *)
(* are proved of each, from a number up to a state: it DELIMITS what it    *)
(* accepts (cells behind it change nothing and are left unread), and it    *)
(* READS BACK what was written exactly if every bound on it is kept.       *)
(***************************************************************************)
EXTENDS StateFile, Codec, SequenceTheorems, WellFoundedInduction, TLAPS

-----------------------------------------------------------------------------
(* The file, its temporaries and the threads that save.                   *)

\* Each save under way has a temporary of its own, numbered below the counter.
Savers ==
    /\ saver \in [Threads -> {NoDoc} \cup [doc : Docs, tmp : Nat]]
    /\ \A t \in Threads : saver[t] # NoDoc =>
          saver[t].doc \in Docs /\ saver[t].tmp \in DOMAIN temp \cap 0..g_tmp_seq - 1
    /\ \A t, u \in Threads : t # u /\ saver[t] # NoDoc /\ saver[u] # NoDoc =>
          saver[t].tmp # saver[u].tmp

\* The bounds of the behaviour are kept.
Counters ==
    /\ setup \in Setups
    /\ g_tmp_seq \in 0..setup.saves /\ DOMAIN temp \subseteq 0..setup.saves - 1
    /\ crashes \in 0..setup.crashes /\ damages \in 0..setup.damages /\ intact \in BOOLEAN

\* A checksum is that of a state that was saved, or matches nothing.
FileIsSummed ==
    file # NoDoc => /\ file \in Files
                    /\ file.sum \in {NoSum} \cup {serialize(d) : d \in Docs}

FileInv == Savers /\ Counters /\ FileIsSummed

-----------------------------------------------------------------------------
\* A save that opens its temporary shares it with nobody.
LEMMA OpenKeeps ==
    ASSUME NEW t \in Threads, NEW d \in setup.docs, save_open(t, d), FileInv
    PROVE  FileInv'
  <1> USE DEF FileInv, save_open
  <1>0. d \in Docs /\ g_tmp_seq \in Nat /\ setup.saves \in Nat /\ g_tmp_seq < setup.saves
    BY SetupsAssumption DEF Counters
  <1>1. FileIsSummed'
    BY DEF FileIsSummed
  <1>2. CASE UNCHANGED <<saver, temp>>
    BY <1>0, <1>1, <1>2 DEF Savers, Counters
  <1>3. CASE /\ saver' = [saver EXCEPT ![t] = [doc |-> d, tmp |-> tmp_name]]
             /\ temp' = Put(temp, tmp_name, Cut(Saved[d], 0))
    <2>1. DOMAIN temp' = DOMAIN temp \cup {g_tmp_seq}
      BY <1>3 DEF Put, tmp_name
    <2>2. /\ saver' \in [Threads -> {NoDoc} \cup [doc : Docs, tmp : Nat]]
          /\ saver'[t] = [doc |-> d, tmp |-> g_tmp_seq]
          /\ \A u \in Threads : u # t => saver'[u] = saver[u]
      BY <1>0, <1>3 DEF tmp_name, Savers
    <2>3. Savers'
      BY <1>0, <2>1, <2>2 DEF Savers
    <2>4. Counters'
      BY <1>0, <2>1 DEF Counters
    <2> QED
      BY <1>1, <2>3, <2>4
  <1> QED
    BY <1>1, <1>2, <1>3

\* Renaming away one temporary leaves those of the other threads.
LEMMA RenameKeeps ==
    ASSUME NEW t \in Threads, save_rename(t), FileInv
    PROVE  /\ FileInv'
           /\ \E d \in Docs : file' = Saved[d]
  <1> USE DEF FileInv, save_rename
  <1>0. saver[t].doc \in Docs /\ setup' = setup /\ setup.saves \in Nat
    BY SetupsAssumption DEF Savers, Counters
  <1>1. file' = Saved[saver[t].doc]
    BY DEF flushed
  <1>2. /\ Saved[saver[t].doc] \in Files
        /\ Saved[saver[t].doc].sum = serialize(saver[t].doc)
    BY <1>0, CellsAssumption DEF Saved, Files
  <1>3. FileIsSummed'
    BY <1>0, <1>1, <1>2 DEF FileIsSummed
  <1>4. DOMAIN temp' = DOMAIN temp \ {saver[t].tmp}
    BY DEF Drop
  <1>5. /\ saver' \in [Threads -> {NoDoc} \cup [doc : Docs, tmp : Nat]]
        /\ saver'[t] = NoDoc
        /\ \A u \in Threads : u # t => saver'[u] = saver[u]
    BY DEF Savers
  <1>6. Savers'
    BY <1>4, <1>5 DEF Savers
  <1>7. Counters'
    BY <1>4 DEF Counters
  <1> QED
    BY <1>0, <1>1, <1>3, <1>6, <1>7

\* What damage leaves is a file, which no checksum but an old one can match.
LEMMA DamageKeeps ==
    ASSUME Damage, FileInv
    PROVE  FileInv' /\ file' \in Files
  <1> USE DEF FileInv, Damage
  <1>0. file \in Files /\ file.sum \in {NoSum} \cup {serialize(d) : d \in Docs}
    BY DEF FileIsSummed
  <1>1. file.body \in Seq(Int) /\ file.sum \in Seq(Int) \cup {NoSum} /\ Len(file.body) \in Nat
        /\ file = [body |-> file.body, sum |-> file.sum]
    BY <1>0 DEF Files
  <1>2. file' \in Files /\ file'.sum \in {NoSum, file.sum}
    <2>1. CASE \E i \in 1..Len(file.body), n \in Noise :
                  file.body[i] # n /\ file' = [file EXCEPT !.body[i] = n]
      <3>1. PICK i \in 1..Len(file.body), n \in Noise : file' = [file EXCEPT !.body[i] = n]
        BY <2>1
      <3>2. [file.body EXCEPT ![i] = n] \in Seq(Int)
        BY <1>1, SetupsAssumption
      <3>3. file' = [body |-> [file.body EXCEPT ![i] = n], sum |-> file.sum]
        BY <1>1, <3>1
      <3> QED
        BY <1>1, <3>2, <3>3 DEF Files
    <2>2. CASE \E n \in 0..Len(file.body) : file' = Cut(file, n)
      <3>1. PICK n \in 0..Len(file.body) : file' = [body |-> SubSeq(file.body, 1, n), sum |-> NoSum]
        BY <2>2 DEF Cut
      <3>2. SubSeq(file.body, 1, n) \in Seq(Int)
        BY <1>1
      <3> QED
        BY <3>1, <3>2 DEF Files
    <2>3. CASE \E n \in Noise : file' = [body |-> Append(file.body, n), sum |-> NoSum]
      <3>1. PICK n \in Noise : file' = [body |-> Append(file.body, n), sum |-> NoSum]
        BY <2>3
      <3>2. Append(file.body, n) \in Seq(Int)
        BY <1>1, SetupsAssumption
      <3> QED
        BY <3>1, <3>2 DEF Files
    <2> QED
      BY <2>1, <2>2, <2>3
  <1>3. FileIsSummed'
    BY <1>0, <1>2 DEF FileIsSummed
  <1>4. /\ UNCHANGED <<setup, temp, g_tmp_seq, saver, crashes>> /\ intact' = FALSE
        /\ damages' = damages + 1 /\ damages < setup.damages
    OBVIOUS
  <1> HIDE DEF Damage
  <1>5. Savers'
    BY <1>4 DEF Savers
  <1>6. setup.damages \in Nat /\ damages \in 0..setup.damages
    BY SetupsAssumption DEF Counters
  <1>7. Counters'
    <2>1. intact' \in BOOLEAN
      BY <1>4
    <2>2. damages' \in 0..setup.damages
      BY <1>4, <1>6
    <2> QED
      BY <1>4, <2>1, <2>2 DEF Counters
  <1> QED
    BY <1>2, <1>3, <1>5, <1>7

\* The remaining steps leave the file and the temporaries' names alone.
LEMMA OthersKeep ==
    ASSUME \/ \E t \in Threads : save_write(t) \/ save_fails(t)
           \/ load \/ crash \/ UNCHANGED vars,
           FileInv
    PROVE  FileInv'
  <1> USE DEF FileInv
  <1>1. ASSUME NEW t \in Threads, save_write(t) PROVE FileInv'
    <2>1. DOMAIN temp' = DOMAIN temp
      BY <1>1 DEF save_write
    <2> QED
      BY <1>1, <2>1 DEF save_write, Savers, Counters, FileIsSummed
  <1>2. ASSUME NEW t \in Threads, save_fails(t) PROVE FileInv'
    BY <1>2 DEF save_fails, Savers, Counters, FileIsSummed
  <1>3. CASE load
    BY <1>3 DEF load, Savers, Counters, FileIsSummed
  <1>4. CASE crash
    BY <1>4, SetupsAssumption DEF crash, Savers, Counters, FileIsSummed
  <1>5. CASE UNCHANGED vars
    BY <1>5 DEF vars, Savers, Counters, FileIsSummed
  <1> QED
    BY <1>1, <1>2, <1>3, <1>4, <1>5

\* The invariant holds in every state.
LEMMA FileInvariant == Spec => []FileInv
  <1>1. Init => FileInv
    <2> SUFFICES ASSUME Init PROVE FileInv
      OBVIOUS
    <2> USE DEF Init
    <2>1. DOMAIN temp = {}
      OBVIOUS
    <2>2. Counters
      BY <2>1, SetupsAssumption DEF Counters
    <2> QED
      BY <2>2 DEF FileInv, Savers, FileIsSummed
  <1>2. FileInv /\ [Next]_vars => FileInv'
    BY OpenKeeps, RenameKeeps, DamageKeeps, OthersKeep DEF Next
  <1> QED
    BY <1>1, <1>2, PTL DEF Spec

(* persistence.cpp:343-370: however the saves of several threads overlap,   *)
(* fail and are cut short by crashes, each save under way still has the    *)
(* temporary file it opened, since no other save has its name.             *)
THEOREM SavesOwnTheirTemporaries == Spec => []TypeOK
  <1>1. FileInv => TypeOK
    BY DEF FileInv, Savers, Counters, TypeOK
  <1> QED
    BY <1>1, FileInvariant, PTL
-----------------------------------------------------------------------------
(* The refinement.                                                         *)

\* What the register holds is no state when there is no file, and otherwise
\* the state whose file this is, or Spoilt.
LEMMA HeldCases ==
    /\ file = NoDoc => Held = NoDoc
    /\ file # NoDoc /\ (\E d \in Docs : file = Saved[d]) => Held \in Docs /\ file = Saved[Held]
    /\ file # NoDoc /\ ~(\E d \in Docs : file = Saved[d]) => Held = Spoilt
  BY DEF Held

\* A step that leaves the file alone leaves the register alone.
LEMMA HeldKept ==
    ASSUME file' = file
    PROVE  Held' = Held
  BY DEF Held

\* load_state answers as the register does.
LEMMA LoadAnswers ==
    ASSUME load, FileInv, LoadsBackExactly
    PROVE  Register!Load
  <1>1. Held' = Held
    BY HeldKept DEF load
  <1>2. CASE file = NoDoc
    BY <1>1, <1>2, HeldCases, MarkersAssumption DEF load, Register!Load, Register!Answer
  <1>3. CASE file # NoDoc /\ \E d \in Docs : file = Saved[d]
    <2>1. Held \in Docs /\ file = Saved[Held] /\ Held # NoDoc
      BY <1>3, HeldCases, MarkersAssumption
    <2>2. load_state(file) = IF Loadable(Held) THEN [status |-> "ok", doc |-> Held]
                             ELSE [status |-> "corrupt", doc |-> NoDoc]
      BY <2>1 DEF LoadsBackExactly
    <2>3. result' = load_state(file)
      BY <1>3 DEF load
    <2> QED
      BY <1>1, <2>1, <2>2, <2>3 DEF Register!Load, Register!Answer
  <1>4. CASE file # NoDoc /\ ~ \E d \in Docs : file = Saved[d]
    <2>1. Held = Spoilt
      BY <1>4, HeldCases
    <2>2. file.sum # file.body
      <3> SUFFICES ASSUME file.sum = file.body PROVE FALSE
        OBVIOUS
      <3>1. /\ file \in Files
            /\ file.sum \in {NoSum} \cup {serialize(d) : d \in Docs}
        BY <1>4 DEF FileInv, FileIsSummed
      <3>2. file.body \in Seq(Int) /\ file = [body |-> file.body, sum |-> file.sum]
        BY <3>1 DEF Files
      <3>3. PICK d \in Docs : file.sum = serialize(d)
        BY <3>1, <3>2, MarkersAssumption
      <3>4. file = Saved[d]
        BY <3>2, <3>3 DEF Saved
      <3> QED
        BY <1>4, <3>4
    <2>3. result' = [status |-> "corrupt", doc |-> NoDoc]
      BY <1>4, <2>2 DEF load, load_state
    <2> QED
      BY <1>1, <2>1, <2>3, MarkersAssumption DEF Register!Load, Register!Answer
  <1> QED
    BY <1>2, <1>3, <1>4

\* A finished save replaces what the register holds by the whole of a state.
LEMMA RenameSaves ==
    ASSUME NEW t \in Threads, save_rename(t), FileInv
    PROVE  Register!Save
  <1>1. PICK d \in Docs : file' = Saved[d]
    BY RenameKeeps
  <1>2. Saved[d] \in Files
    BY CellsAssumption DEF Saved, Files
  <1>3. file' # NoDoc
    BY <1>1, <1>2, MarkersAssumption
  <1>4. Held' \in Docs
    BY <1>1, <1>3 DEF Held
  <1> QED
    BY <1>4 DEF Register!Save, save_rename

\* Damage spoils the register, unless it undoes earlier damage.
LEMMA DamageSpoils ==
    ASSUME Damage, FileInv
    PROVE  Register!Spoil \/ Register!Save
  <1>1. file # NoDoc /\ result' = result
    BY DEF Damage
  <1>2. file' # NoDoc
    BY DamageKeeps, MarkersAssumption
  <1>3. Held # NoDoc
    BY <1>1, HeldCases, MarkersAssumption
  <1>4. Held' \in Docs \/ Held' = Spoilt
    BY <1>2 DEF Held
  <1> QED
    BY <1>1, <1>3, <1>4 DEF Register!Spoil, Register!Save

(* persistence.cpp:344-346: "The final path is always replaced with a       *)
(* complete, verified file (last writer wins, never a torn state)".  If    *)
(* whole files load back exactly, save_state and load_state behave as one  *)
(* register: no interleaving of saves, no cut write, leftover temporary or *)
(* damage makes a load return anything but the state of the last save, or  *)
(* an error.                                                               *)
THEOREM FileImplementsRegister == Spec /\ []LoadsBackExactly => ImplementsRegister
  <1>1. Init => Register!Init
    BY DEF Init, Register!Init, Held
  <1>2. FileInv /\ LoadsBackExactly /\ [Next]_vars
            => [Register!Save \/ Register!Spoil \/ Register!Load]_<<Held, result>>
    <2> SUFFICES ASSUME FileInv, LoadsBackExactly, [Next]_vars
                 PROVE  \/ Register!Save \/ Register!Spoil \/ Register!Load
                        \/ UNCHANGED <<Held, result>>
      OBVIOUS
    <2>1. ASSUME NEW t \in Threads, NEW d \in setup.docs, save_open(t, d)
          PROVE  UNCHANGED <<Held, result>>
      BY <2>1, HeldKept DEF save_open
    <2>2. ASSUME NEW t \in Threads, save_write(t) \/ save_fails(t)
          PROVE  UNCHANGED <<Held, result>>
      BY <2>2, HeldKept DEF save_write, save_fails
    <2>3. ASSUME NEW t \in Threads, save_rename(t) PROVE Register!Save
      BY <2>3, RenameSaves
    <2>4. CASE load
      BY <2>4, LoadAnswers
    <2>5. CASE crash
      BY <2>5, HeldKept DEF crash
    <2>6. CASE Damage
      BY <2>6, DamageSpoils
    <2>7. CASE UNCHANGED vars
      BY <2>7, HeldKept DEF vars
    <2> QED
      BY <2>1, <2>2, <2>3, <2>4, <2>5, <2>6, <2>7 DEF Next
  <1> QED
    BY <1>1, <1>2, FileInvariant, PTL DEF Spec, ImplementsRegister, Register!Spec

-----------------------------------------------------------------------------
(* Functions defined by recursion, and the sequences that encode.          *)

\* A set of numbers that is not empty has a least one.
LEMMA Least ==
    ASSUME NEW T, T \subseteq Nat, T # {}
    PROVE  \E x \in T : \A y \in T : x <= y
<1> DEFINE R == OpToRel(<, Nat)
<1>1. IsWellFoundedOn(R, Nat)
    BY NatLessThanWellFounded
<1>2. R = {ss \in Nat \X Nat : ss[1] < ss[2]}
    BY DEF OpToRel
<1> HIDE DEF R
<1>3. PICK x \in T : \A y \in T : ~ (<<y, x>> \in R)
    BY <1>1, WFMin
<1>4. ASSUME NEW y \in T
      PROVE  x <= y
    <2>1. x \in Nat /\ y \in Nat /\ <<y, x>> \notin R
        BY <1>3
    <2>2. y < x => <<y, x>> \in R
        BY <1>2, <2>1
    <2> QED BY <2>1, <2>2
<1> QED BY <1>4

\* Induction over 0..L, for a set in the place of a predicate.
LEMMA Induction ==
    ASSUME NEW L \in Nat, NEW G, 0 \in G,
           \A n \in 1..L : n - 1 \in G => n \in G
    PROVE  \A n \in 0..L : n \in G
<1> DEFINE T == {n \in 0..L : n \notin G}
<1>1. SUFFICES ASSUME T # {} PROVE FALSE
    OBVIOUS
<1>2. T \subseteq Nat
    OBVIOUS
<1>3. PICK m \in T : \A y \in T : m <= y
    <2> HIDE DEF T
    <2> QED BY <1>1, <1>2, Least
<1>4. m \in 0..L /\ m \notin G /\ m # 0
    BY <1>3
<1>5. m - 1 \in 0..L /\ m \in 1..L /\ ~ (m <= m - 1)
    BY <1>4
<1>6. m - 1 \in G
    BY <1>3, <1>5
<1> QED BY <1>4, <1>5, <1>6

\* The function a recursion over 1..L defines from a with the steps F.
Steps(F, L, S) == F \in [1..L -> [S -> S]]
Solves(f, F, a, L, S) == f \in [0..L -> S] /\ f[0] = a /\ \A n \in 1..L : f[n] = F[n][f[n - 1]]

\* There is such a function.
LEMMA Recursion ==
    ASSUME NEW L \in Nat, NEW S, NEW a \in S, NEW F, Steps(F, L, S)
    PROVE  \E f : Solves(f, F, a, L, S)
<1> USE DEF Steps, Solves
<1> DEFINE Good(k, f) == f \in [0..k -> S] /\ f[0] = a /\ \A n \in 1..k : f[n] = F[n][f[n - 1]]
           G == {k \in 0..L : \E f : Good(k, f)}
<1>1. 0 \in G
    <2> DEFINE f == [n \in 0..0 |-> a]
    <2>1. Good(0, f)
        OBVIOUS
    <2> HIDE DEF Good, f
    <2> QED BY <2>1
<1>2. ASSUME NEW k \in 0..L, k < L, k \in G
      PROVE  k + 1 \in G
    <2>1. PICK f : Good(k, f)
        BY <1>2
    <2> DEFINE g == [n \in 0..(k + 1) |-> IF n = k + 1 THEN F[k + 1][f[k]] ELSE f[n]]
    <2>2. k + 1 \in 1..L /\ f[k] \in S /\ F[k + 1] \in [S -> S]
        BY <1>2, <2>1
    <2>3. g \in [0..(k + 1) -> S]
        BY <2>1, <2>2
    <2>4. g[0] = a
        BY <2>1
    <2>5. \A n \in 1..(k + 1) : g[n] = F[n][g[n - 1]]
        BY <2>1
    <2>6. Good(k + 1, g)
        BY <2>3, <2>4, <2>5
    <2> HIDE DEF Good, g
    <2> QED BY <2>2, <2>6
<1> HIDE DEF G
<1>3. L \in G
    <2>1. ASSUME NEW n \in 1..L, n - 1 \in G
          PROVE  n \in G
        <3>1. n - 1 \in 0..L /\ n - 1 < L /\ n - 1 + 1 = n
            OBVIOUS
        <3> QED BY <1>2, <2>1, <3>1
    <2>2. \A n \in 0..L : n \in G
        BY <1>1, <2>1, Induction
    <2> QED BY <2>2
<1>4. PICK f : Good(L, f)
    BY <1>3 DEF G
<1> QED BY <1>4

\* Joined encodings are encodings.
LEMMA CellsJoin ==
    /\ << >> \in Cells
    /\ \A x, y \in Cells : x \o y \in Cells
BY DEF Cells

\* What Concatenated computes, from the last item to the first.
LEMMA ConcatenatedIs ==
    ASSUME NEW L \in Nat, NEW items \in [1..L -> Cells]
    PROVE  \E last \in [0..L -> Cells] :
              /\ last[0] = << >>
              /\ \A k \in 1..L : last[k] = items[L - k + 1] \o last[k - 1]
              /\ Concatenated(items) = last[L]
<1> DEFINE eq(g) == g = [k \in 0..L |-> IF k = 0 THEN << >> ELSE items[L - k + 1] \o g[k - 1]]
           last == CHOOSE g : eq(g)
<1>0. Len(items) = L
    OBVIOUS
<1>1. \E g : eq(g)
    <2> DEFINE F == [k \in 1..L |-> [x \in Cells |-> items[L - k + 1] \o x]]
    <2>0. ASSUME NEW k \in 1..L
          PROVE  items[L - k + 1] \in Cells
        OBVIOUS
    <2>1. F \in [1..L -> [Cells -> Cells]]
        BY <2>0, CellsJoin
    <2>2. PICK f \in [0..L -> Cells] : f[0] = << >> /\ \A n \in 1..L : f[n] = F[n][f[n - 1]]
        <3> DEFINE a == << >>
        <3>1. a \in Cells
            BY CellsJoin
        <3> HIDE DEF F, a
        <3>2. Steps(F, L, Cells)
            BY <2>1 DEF Steps
        <3>3. \E f : Solves(f, F, a, L, Cells)
            BY <3>1, <3>2, Recursion
        <3> QED BY <3>3 DEF a, Solves
    <2>3. ASSUME NEW n \in 1..L
          PROVE  f[n] = items[L - n + 1] \o f[n - 1]
        <3>1. f[n] = F[n][f[n - 1]] /\ f[n - 1] \in Cells
            <4> HIDE DEF F
            <4> QED BY <2>2
        <3>2. F[n] = [x \in Cells |-> items[L - n + 1] \o x]
            OBVIOUS
        <3> HIDE DEF F
        <3> QED BY <3>1, <3>2
    <2>4. eq(f)
        <3> HIDE DEF F
        <3>1. f = [k \in 0..L |-> f[k]]
            BY <2>2
        <3>2. ASSUME NEW k \in 0..L
              PROVE  f[k] = IF k = 0 THEN << >> ELSE items[L - k + 1] \o f[k - 1]
            <4>1. k # 0 => k \in 1..L
                OBVIOUS
            <4> QED BY <2>2, <2>3, <4>1
        <3> QED BY <3>1, <3>2
    <2> QED BY <2>4
<1>2. eq(last)
    BY <1>1
<1>3. Concatenated(items) = last[L]
    BY <1>0 DEF Concatenated
<1> HIDE DEF last
<1>4. last[0] = << >> /\ \A k \in 1..L : last[k] = items[L - k + 1] \o last[k - 1]
    BY <1>2
<1>5. last \in [0..L -> Cells]
    <2> DEFINE G == {k \in 0..L : last[k] \in Cells}
    <2>1. 0 \in G
        BY <1>4, CellsJoin
    <2>2. ASSUME NEW n \in 1..L, n - 1 \in G
          PROVE  n \in G
        <3>1. items[L - n + 1] \in Cells /\ last[n - 1] \in Cells
            BY <2>2
        <3>2. last[n] \in Cells
            BY <1>4, <3>1, CellsJoin
        <3> QED BY <3>2
    <2>3. \A n \in 0..L : n \in G
        <3> HIDE DEF G
        <3> QED BY <2>1, <2>2, Induction
    <2> QED BY <1>2, <2>3
<1> QED BY <1>3, <1>4, <1>5

-----------------------------------------------------------------------------
(* Cursors, and decoders one after the other.                              *)

\* The fields of a cursor, and that one that passes has not failed.
LEMMA CursorFields ==
    /\ \A r, v : Passes(r, v).ok /\ Passes(r, v).rest = r /\ Passes(r, v).rec = v
    /\ ~Fails.ok
    /\ \A r, v : Passes(r, v) # Fails
<1>1. \A r, v : Passes(r, v).ok = TRUE /\ Passes(r, v).rest = r /\ Passes(r, v).rec = v
    BY DEF Passes
<1>2. Fails.ok = FALSE
    BY DEF Fails
<1> QED BY <1>1, <1>2, Zenon

\* A decoder fails, or passes with some of the cells left.
Decoder(D) == \A x \in Cells : D[x] = Fails \/ \E r \in Cells : \E v : D[x] = Passes(r, v)

\* What it gives if it does not fail.
LEMMA DecoderGives ==
    ASSUME NEW d, Decoder(d), NEW x \in Cells, d[x] # Fails
    PROVE  \E r, v : r \in Cells /\ d[x] = Passes(r, v)
BY DEF Decoder

\* What a decoder accepts it accepts with any cells behind it, and leaves them.
Delimits(D) ==
    \A x, y, r \in Cells : \A v : D[x] = Passes(r, v) => D[x \o y] = Passes(r \o y, v)

\* One step of read_items: a cursor that has failed stays so, the next
\* value is put behind the ones before it.
LEMMA ReadNext ==
    ASSUME NEW d
    PROVE  /\ read_next(d, Fails) = Fails
           /\ \A r, v : d[r] = Fails => read_next(d, Passes(r, v)) = Fails
           /\ \A r, v, s, w : d[r] = Passes(s, w) => read_next(d, Passes(r, v)) = Passes(s, Append(v, w))
<1>1. read_next(d, Fails) = Fails
    BY CursorFields, Zenon DEF read_next
<1>2. ASSUME NEW r, NEW v, d[r] = Fails
      PROVE  read_next(d, Passes(r, v)) = Fails
    <2>1. ~d[Passes(r, v).rest].ok
        BY <1>2, CursorFields
    <2> QED BY <2>1, Zenon DEF read_next
<1>3. ASSUME NEW r, NEW v, NEW s, NEW w, d[r] = Passes(s, w)
      PROVE  read_next(d, Passes(r, v)) = Passes(s, Append(v, w))
    <2>1. /\ d[Passes(r, v).rest].ok /\ Passes(r, v).ok
          /\ d[Passes(r, v).rest].rest = s /\ d[Passes(r, v).rest].rec = w /\ Passes(r, v).rec = v
        BY <1>3, CursorFields
    <2> QED BY <2>1, Zenon DEF read_next
<1> QED BY <1>1, <1>2, <1>3

\* The cursor after each of the items.
Afters(after, D, x, L) ==
    /\ after[0] = Passes(x, << >>)
    /\ \A n \in 1..L : after[n] = read_next(D[n], after[n - 1])
    /\ read_items(D, x) = after[L]

\* read_items goes through one cursor for each of its items.
LEMMA ItemsAre ==
    ASSUME NEW L \in Nat, NEW D, Len(D) = L, NEW x \in Cells,
           \A n \in 1..L : Decoder(D[n])
    PROVE  \E after : Afters(after, D, x, L)
<1> DEFINE eq(g) == g = [n \in 0..L |-> IF n = 0 THEN Passes(x, << >>) ELSE read_next(D[n], g[n - 1])]
           after == CHOOSE g : eq(g)
           V == UNION {{D[i][y].rec : y \in Cells} : i \in 1..L}
           Q == Seq(V)
           S == {Fails} \cup UNION {{Passes(r, v) : r \in Cells} : v \in Q}
           F == [n \in 1..L |-> [c \in S |-> read_next(D[n], c)]]
           a == Passes(x, << >>)
<1>v. ASSUME NEW n \in 1..L, NEW y \in Cells
      PROVE  D[n][y].rec \in V
    <2>1. D[n][y].rec \in {D[n][z].rec : z \in Cells}
        OBVIOUS
    <2> QED BY <2>1, Zenon
<1>q. << >> \in Q /\ \A v \in Q, w \in V : Append(v, w) \in Q
    <2> HIDE DEF V
    <2> QED OBVIOUS
<1> HIDE DEF V, Q
<1>s. ASSUME NEW c
      PROVE  c \in S <=> (c = Fails \/ \E r \in Cells, v \in Q : c = Passes(r, v))
    <2>1. ASSUME NEW v
          PROVE  c \in {Passes(r, v) : r \in Cells} <=> \E r \in Cells : c = Passes(r, v)
        OBVIOUS
    <2>2. c \in UNION {{Passes(r, v) : r \in Cells} : v \in Q}
             <=> \E v \in Q : c \in {Passes(r, v) : r \in Cells}
        BY Zenon
    <2> QED BY <2>1, <2>2, Zenon
<1> HIDE DEF S
<1>1. Steps(F, L, S)
    <2>1. ASSUME NEW n \in 1..L, NEW c \in S
          PROVE  read_next(D[n], c) \in S
        <3>1. CASE c = Fails
            BY <1>s, <3>1, ReadNext
        <3>2. CASE c # Fails
            <4>1. PICK r \in Cells, v \in Q : c = Passes(r, v)
                BY <1>s, <3>2
            <4>2. CASE D[n][r] = Fails
                BY <1>s, <4>1, <4>2, ReadNext
            <4>3. CASE D[n][r] # Fails
                <5>1. PICK s, w : s \in Cells /\ D[n][r] = Passes(s, w)
                    <6>1. Decoder(D[n]) /\ r \in Cells
                        BY <4>1
                    <6> QED BY <4>3, <6>1, DecoderGives
                <5>2. w \in V
                    BY <1>v, <5>1, CursorFields
                <5>3. read_next(D[n], c) = Passes(s, Append(v, w))
                    BY <4>1, <5>1, ReadNext
                <5>4. Append(v, w) \in Q
                    BY <1>q, <4>1, <5>2
                <5> QED BY <1>s, <5>1, <5>3, <5>4
            <4> QED BY <4>2, <4>3
        <3> QED BY <3>1, <3>2
    <2> QED BY <2>1 DEF Steps
<1>2. a \in S
    BY <1>q, <1>s, Zenon
<1>3. PICK f : Solves(f, F, a, L, S)
    <2> HIDE DEF F, a
    <2> QED BY <1>1, <1>2, Recursion
<1>4. ASSUME NEW n \in 1..L
      PROVE  f[n] = read_next(D[n], f[n - 1])
    <2>1. f[n] = F[n][f[n - 1]] /\ f[n - 1] \in S
        <3> HIDE DEF F, a
        <3> QED BY <1>3 DEF Solves
    <2>2. F[n] = [c \in S |-> read_next(D[n], c)]
        OBVIOUS
    <2> HIDE DEF F
    <2> QED BY <2>1, <2>2
<1>5. eq(f)
    <2> HIDE DEF F
    <2> QED BY <1>3, <1>4 DEF Solves
<1>6. eq(after)
    <2> HIDE DEF F, a
    <2> QED BY <1>5
<1>7. read_items(D, x) = after[L]
    BY DEF read_items
<1> HIDE DEF F, a, after
<1>8. after[0] = Passes(x, << >>) /\ \A n \in 1..L : after[n] = read_next(D[n], after[n - 1])
    BY <1>6
<1>9. Afters(after, D, x, L)
    BY <1>7, <1>8 DEF Afters
<1> QED BY <1>9

\* Joining encodings is associative.
LEMMA CellsAssociate ==
    ASSUME NEW x \in Cells, NEW y \in Cells, NEW z \in Cells
    PROVE  (x \o y) \o z = x \o (y \o z) /\ << >> \o x = x /\ x \o << >> = x
<1>1. (x \o y) \o z = x \o (y \o z)
    BY ConcatAssociative, SMTT(60) DEF Cells
<1>2. << >> \o x = x /\ x \o << >> = x
    BY ConcatEmptySeq, Zenon DEF Cells
<1> QED BY <1>1, <1>2

\* One value more behind the first n - 1.
LEMMA AppendNext ==
    ASSUME NEW n \in Nat \ {0}, NEW v, NEW w
    PROVE  Append([i \in 1..(n - 1) |-> v[i]], w) = [i \in 1..n |-> IF i = n THEN w ELSE v[i]]
<1> DEFINE s == [i \in 1..(n - 1) |-> v[i]]
<1>1. Len(s) = n - 1
    OBVIOUS
<1>2. Append(s, w) = [i \in 1..(Len(s) + 1) |-> IF i \in 1..Len(s) THEN s[i] ELSE w]
    OBVIOUS
<1>3. Len(s) + 1 = n
    BY <1>1
<1>4. \A i \in 1..n : (IF i \in 1..Len(s) THEN s[i] ELSE w) = (IF i = n THEN w ELSE v[i])
    BY <1>1
<1> HIDE DEF s
<1> QED BY <1>2, <1>3, <1>4

\* The decoder of each item reads its encoding back as v[n], if it is good.
EachRead(D, E, v, G, L) ==
    \A n \in 1..L : /\ Decoder(D[n]) /\ E[n] \in Cells
                   /\ \A r \in Cells : D[n][E[n] \o r] = IF n \in G THEN Passes(r, v[n]) ELSE Fails

\* Items written one after the other are read back as they are if each of
\* them is good, and are rejected otherwise.
LEMMA ItemsRead ==
    ASSUME NEW L \in Nat, NEW D, Len(D) = L, NEW E \in [1..L -> Cells], NEW v, NEW G,
           EachRead(D, E, v, G, L), NEW rest \in Cells
    PROVE  read_items(D, Concatenated(E) \o rest) =
              IF \A n \in 1..L : n \in G THEN Passes(rest, [i \in 1..L |-> v[i]]) ELSE Fails
<1>0. \A n \in 1..L : Decoder(D[n])
    BY DEF EachRead
<1>1. PICK last \in [0..L -> Cells] :
              /\ last[0] = << >>
              /\ \A k \in 1..L : last[k] = E[L - k + 1] \o last[k - 1]
              /\ Concatenated(E) = last[L]
    BY ConcatenatedIs
<1> DEFINE x == Concatenated(E) \o rest
           good(n) == \A i \in 1..n : i \in G
           vs(n) == [i \in 1..n |-> v[i]]
<1>2. last[L] \in Cells /\ x \in Cells
    BY <1>1, CellsJoin
<1>3. PICK after : Afters(after, D, x, L)
    <2> HIDE DEF x
    <2> QED BY <1>0, <1>2, ItemsAre
<1> DEFINE H == {n \in 0..L : after[n] = IF good(n) THEN Passes(last[L - n] \o rest, vs(n)) ELSE Fails}
<1>4. 0 \in H
    <2>1. after[0] = Passes(x, << >>)
        BY <1>3 DEF Afters
    <2>2. vs(0) = << >> /\ good(0) /\ L - 0 = L
        OBVIOUS
    <2> HIDE DEF vs, good
    <2> QED BY <1>1, <2>1, <2>2
<1>5. ASSUME NEW n \in 1..L, n - 1 \in H
      PROVE  n \in H
    <2>1. after[n] = read_next(D[n], after[n - 1])
        BY <1>3 DEF Afters
    <2>2. good(n) <=> good(n - 1) /\ n \in G
        OBVIOUS
    <2>3. after[n - 1] = IF good(n - 1) THEN Passes(last[L - (n - 1)] \o rest, vs(n - 1)) ELSE Fails
        BY <1>5
    <2>4. vs(n) = Append(vs(n - 1), v[n])
        <3>1. Append(vs(n - 1), v[n]) = [i \in 1..n |-> IF i = n THEN v[n] ELSE v[i]]
            BY AppendNext
        <3>2. [i \in 1..n |-> IF i = n THEN v[n] ELSE v[i]] = vs(n)
            OBVIOUS
        <3> QED BY <3>1, <3>2
    <2> DEFINE k == L - (n - 1)
               left == last[L - n] \o rest
    <2>5. k \in 1..L /\ k - 1 = L - n /\ L - k + 1 = n /\ L - n \in 0..L
        OBVIOUS
    <2>6. last[k] = E[n] \o last[L - n]
        BY <1>1, <2>5
    <2>7. E[n] \in Cells /\ last[L - n] \in Cells /\ left \in Cells
        BY <2>5, CellsJoin
    <2>8. last[k] \o rest = E[n] \o left
        <3>1. (E[n] \o last[L - n]) \o rest = E[n] \o (last[L - n] \o rest)
            <4> DEFINE a == E[n]
                       b == last[L - n]
            <4>1. a \in Cells /\ b \in Cells
                BY <2>7
            <4> HIDE DEF a, b
            <4>2. (a \o b) \o rest = a \o (b \o rest)
                BY <4>1, CellsAssociate, ZenonT(60)
            <4> QED BY <4>2 DEF a, b
        <3> QED BY <2>6, <3>1
    <2> HIDE DEF k, left, good, vs
    <2>9. D[n][E[n] \o left] = IF n \in G THEN Passes(left, v[n]) ELSE Fails
        BY <2>7 DEF EachRead
    <2>10. after[n] = IF good(n) THEN Passes(left, vs(n)) ELSE Fails
        <3>1. CASE good(n - 1) /\ n \in G
            <4>1. after[n - 1] = Passes(E[n] \o left, vs(n - 1)) /\ D[n][E[n] \o left] = Passes(left, v[n])
                BY <2>3, <2>8, <2>9, <3>1 DEF k
            <4>2. after[n] = Passes(left, Append(vs(n - 1), v[n]))
                BY <2>1, <4>1, ReadNext
            <4> QED BY <2>2, <2>4, <3>1, <4>2
        <3>2. CASE good(n - 1) /\ n \notin G
            <4>1. after[n - 1] = Passes(E[n] \o left, vs(n - 1)) /\ D[n][E[n] \o left] = Fails
                BY <2>3, <2>8, <2>9, <3>2 DEF k
            <4>2. after[n] = Fails
                BY <2>1, <4>1, ReadNext
            <4> QED BY <2>2, <3>2, <4>2
        <3>3. CASE ~good(n - 1)
            <4>1. after[n] = Fails
                BY <2>1, <2>3, <3>3, ReadNext
            <4> QED BY <2>2, <3>3, <4>1
        <3> QED BY <3>1, <3>2, <3>3
    <2> QED BY <2>10 DEF left
<1>6. \A n \in 0..L : n \in H
    <2> HIDE DEF H
    <2> QED BY <1>4, <1>5, Induction
<1>7. after[L] = IF good(L) THEN Passes(last[0] \o rest, vs(L)) ELSE Fails
    <2>1. L \in H /\ L - L = 0
        <3> HIDE DEF H
        <3> QED BY <1>6
    <2> HIDE DEF vs, good
    <2> QED BY <2>1
<1>8. last[0] \o rest = rest
    BY <1>1, CellsAssociate
<1> QED BY <1>3, <1>7, <1>8 DEF Afters

\* Cells behind a sequence of items do not change what is read of it.
LEMMA ItemsDelimit ==
    ASSUME NEW L \in Nat, NEW D, Len(D) = L, \A n \in 1..L : Decoder(D[n]) /\ Delimits(D[n]),
           NEW x \in Cells, NEW y \in Cells
    PROVE  \/ read_items(D, x) = Fails
           \/ \E r \in Cells : \E w : /\ read_items(D, x) = Passes(r, w)
                                      /\ read_items(D, x \o y) = Passes(r \o y, w)
<1>1. PICK after : Afters(after, D, x, L)
    BY ItemsAre
<1>2. x \o y \in Cells
    BY CellsJoin
<1>3. PICK longer : Afters(longer, D, x \o y, L)
    BY <1>2, ItemsAre
<1> DEFINE H == {n \in 0..L : \/ after[n] = Fails
                              \/ \E r \in Cells : \E w : /\ after[n] = Passes(r, w)
                                                         /\ longer[n] = Passes(r \o y, w)}
<1>4. 0 \in H
    BY <1>1, <1>3 DEF Afters
<1>5. ASSUME NEW n \in 1..L, n - 1 \in H
      PROVE  n \in H
    <2>1. after[n] = read_next(D[n], after[n - 1]) /\ longer[n] = read_next(D[n], longer[n - 1])
        BY <1>1, <1>3 DEF Afters
    <2>2. CASE after[n - 1] = Fails
        <3>1. after[n] = Fails
            BY <2>1, <2>2, ReadNext
        <3> QED BY <3>1
    <2>3. CASE after[n - 1] # Fails
        <3>1. PICK r, w : r \in Cells /\ after[n - 1] = Passes(r, w) /\ longer[n - 1] = Passes(r \o y, w)
            BY <1>5, <2>3
        <3>2. CASE D[n][r] = Fails
            <4>1. after[n] = Fails
                BY <2>1, <3>1, <3>2, ReadNext
            <4> QED BY <4>1
        <3>3. CASE D[n][r] # Fails
            <4>0. Decoder(D[n]) /\ Delimits(D[n]) /\ r \in Cells
                BY <3>1
            <4>1. PICK s, u : s \in Cells /\ D[n][r] = Passes(s, u)
                BY <3>3, <4>0, DecoderGives
            <4>2. D[n][r \o y] = Passes(s \o y, u)
                BY <4>0, <4>1 DEF Delimits
            <4>3. after[n] = Passes(s, Append(w, u))
                BY <2>1, <3>1, <4>1, ReadNext
            <4>4. longer[n] = Passes(s \o y, Append(w, u))
                BY <2>1, <3>1, <4>2, ReadNext
            <4> QED BY <4>1, <4>3, <4>4
        <3> QED BY <3>2, <3>3
    <2> QED BY <2>2, <2>3
<1>6. \A n \in 0..L : n \in H
    <2> HIDE DEF H
    <2> QED BY <1>4, <1>5, Induction
<1>7. L \in H
    <2> HIDE DEF H
    <2> QED BY <1>6
<1> QED BY <1>1, <1>3, <1>7 DEF Afters

\* What read_items accepts are values its decoders gave.
LEMMA ItemsGiven ==
    ASSUME NEW L \in Nat, NEW D, Len(D) = L, \A n \in 1..L : Decoder(D[n]), NEW x \in Cells
    PROVE  \/ read_items(D, x) = Fails
           \/ \E r \in Cells : \E w :
                 /\ read_items(D, x) = Passes(r, w)
                 /\ w = [i \in 1..L |-> w[i]]
                 /\ \A i \in 1..L : \E c, s \in Cells : D[i][c] = Passes(s, w[i])
<1>1. PICK after : Afters(after, D, x, L)
    BY ItemsAre
<1> DEFINE given(n, w) == /\ w = [i \in 1..n |-> w[i]]
                          /\ \A i \in 1..n : \E c, s \in Cells : D[i][c] = Passes(s, w[i])
           H == {n \in 0..L : \/ after[n] = Fails
                              \/ \E r \in Cells : \E w : after[n] = Passes(r, w) /\ given(n, w)}
<1>2. 0 \in H
    <2>1. given(0, << >>)
        OBVIOUS
    <2> HIDE DEF given
    <2> QED BY <1>1, <2>1 DEF Afters
<1>3. ASSUME NEW n \in 1..L, n - 1 \in H
      PROVE  n \in H
    <2>1. after[n] = read_next(D[n], after[n - 1])
        BY <1>1 DEF Afters
    <2>2. CASE after[n - 1] = Fails
        <3>1. after[n] = Fails
            BY <2>1, <2>2, ReadNext
        <3> QED BY <3>1
    <2>3. CASE after[n - 1] # Fails
        <3>1. PICK r, w : r \in Cells /\ after[n - 1] = Passes(r, w) /\ given(n - 1, w)
            BY <1>3, <2>3
        <3>2. CASE D[n][r] = Fails
            <4>1. after[n] = Fails
                BY <2>1, <3>1, <3>2, ReadNext
            <4> QED BY <4>1
        <3>3. CASE D[n][r] # Fails
            <4>0. Decoder(D[n]) /\ r \in Cells
                BY <3>1
            <4>1. PICK s, u : s \in Cells /\ D[n][r] = Passes(s, u)
                BY <3>3, <4>0, DecoderGives
            <4> DEFINE more == [i \in 1..n |-> IF i = n THEN u ELSE w[i]]
            <4>2. after[n] = Passes(s, Append(w, u))
                BY <2>1, <3>1, <4>1, ReadNext
            <4>3. Append(w, u) = more
                <5>1. w = [i \in 1..(n - 1) |-> w[i]]
                    BY <3>1
                <5> QED BY <5>1, AppendNext
            <4>4. given(n, more)
                <5>1. ASSUME NEW i \in 1..n
                      PROVE  \E c, z \in Cells : D[i][c] = Passes(z, more[i])
                    <6>1. CASE i = n
                        <7>1. more[i] = u
                            BY <6>1
                        <7> HIDE DEF more
                        <7> QED BY <4>0, <4>1, <6>1, <7>1
                    <6>2. CASE i # n
                        <7>1. i \in 1..(n - 1) /\ more[i] = w[i]
                            BY <6>2
                        <7> QED BY <3>1, <7>1
                    <6> QED BY <6>1, <6>2
                <5>2. more = [i \in 1..n |-> more[i]]
                    OBVIOUS
                <5> QED BY <5>1, <5>2
            <4> HIDE DEF more, given
            <4> QED BY <4>1, <4>2, <4>3, <4>4
        <3> QED BY <3>2, <3>3
    <2> QED BY <2>2, <2>3
<1>4. \A n \in 0..L : n \in H
    <2> HIDE DEF H
    <2> QED BY <1>2, <1>3, Induction
<1>5. L \in H
    <2> HIDE DEF H
    <2> QED BY <1>4
<1> HIDE DEF given
<1>6. \/ read_items(D, x) = Fails
      \/ \E r \in Cells : \E w : read_items(D, x) = Passes(r, w) /\ given(L, w)
    BY <1>1, <1>5 DEF Afters
<1> QED BY <1>6 DEF given

-----------------------------------------------------------------------------
(* The cells behind the first ones.                                        *)

\* A cursor determines what is left and what was read.
LEMMA PassesOnce ==
    ASSUME NEW r, NEW v, NEW s, NEW w, Passes(r, v) = Passes(s, w)
    PROVE  r = s /\ v = w
BY CursorFields

\* The part behind a joined encoding.
LEMMA BehindJoin ==
    ASSUME NEW e \in Cells, NEW r \in Cells
    PROVE  /\ Behind(e \o r, Len(e)) = r
           /\ Len(e \o r) = Len(e) + Len(r)
           /\ \A i \in 1..Len(e) : (e \o r)[i] = e[i]
           /\ SubSeq(e \o r, 1, Len(e)) = e
<1> USE DEF Cells, Behind
<1>1. Len(e \o r) = Len(e) + Len(r) /\ Len(e) \in Nat /\ Len(r) \in Nat
    OBVIOUS
<1>2. Behind(e \o r, Len(e)) = r
    <2> DEFINE b == SubSeq(e \o r, Len(e) + 1, Len(e \o r))
    <2>1. b \in Seq(Int) /\ Len(b) = Len(r)
        BY <1>1
    <2>2. \A i \in 1..Len(r) : b[i] = r[i]
        BY <1>1
    <2> HIDE DEF b
    <2>3. b = r
        BY <2>1, <2>2, SeqEqual
    <2> QED BY <2>3 DEF b
<1>3. SubSeq(e \o r, 1, Len(e)) = e
    <2> DEFINE b == SubSeq(e \o r, 1, Len(e))
    <2>1. b \in Seq(Int) /\ Len(b) = Len(e)
        BY <1>1
    <2>2. \A i \in 1..Len(e) : b[i] = e[i]
        BY <1>1
    <2> HIDE DEF b
    <2>3. b = e
        BY <2>1, <2>2, SeqEqual
    <2> QED BY <2>3 DEF b
<1> QED BY <1>1, <1>2, <1>3

\* The cells behind the first n.
LEMMA BehindIs ==
    ASSUME NEW x \in Cells, NEW n \in 0..Len(x)
    PROVE  /\ Behind(x, n) \in Cells /\ Len(Behind(x, n)) = Len(x) - n
           /\ \A i \in 1..(Len(x) - n) : Behind(x, n)[i] = x[n + i]
BY DEF Cells, Behind

\* The cells of what is joined.
LEMMA CellsKept ==
    ASSUME NEW x \in Cells, NEW y \in Cells
    PROVE  /\ x \o y \in Cells
           /\ Len(x \o y) = Len(x) + Len(y) /\ Len(x) \in Nat /\ Len(y) \in Nat
           /\ \A i \in 1..Len(x) : (x \o y)[i] = x[i] /\ x[i] \in Int
           /\ \A i \in 1..(Len(x) + Len(y)) : i > Len(x) => (x \o y)[i] = y[i - Len(x)]
BY DEF Cells

\* More cells at the end are more cells behind the first n.
LEMMA BehindMore ==
    ASSUME NEW x \in Cells, NEW y \in Cells, NEW n \in 0..Len(x)
    PROVE  Behind(x \o y, n) = Behind(x, n) \o y
<1> DEFINE z == x \o y
           a == Behind(x, n)
           b == Behind(z, n)
           c == a \o y
<1>1. /\ z \in Cells /\ Len(z) = Len(x) + Len(y) /\ Len(x) \in Nat /\ Len(y) \in Nat
      /\ \A i \in 1..Len(x) : z[i] = x[i]
      /\ \A i \in 1..Len(z) : i > Len(x) => z[i] = y[i - Len(x)]
    <2>1. /\ z \in Cells /\ Len(z) = Len(x) + Len(y) /\ Len(x) \in Nat /\ Len(y) \in Nat
          /\ \A i \in 1..Len(x) : z[i] = x[i] /\ x[i] \in Int
          /\ \A i \in 1..(Len(x) + Len(y)) : i > Len(x) => z[i] = y[i - Len(x)]
        BY CellsKept, Zenon
    <2> HIDE DEF z
    <2> QED BY <2>1
<1>2. a \in Cells /\ Len(a) = Len(x) - n /\ \A i \in 1..(Len(x) - n) : a[i] = x[n + i]
    BY BehindIs
<1> HIDE DEF z, a
<1>3. b \in Cells /\ Len(b) = Len(z) - n /\ \A i \in 1..(Len(z) - n) : b[i] = z[n + i]
    <2>1. n \in 0..Len(z)
        BY <1>1
    <2> QED BY <1>1, <2>1, BehindIs
<1>4. /\ c \in Cells /\ Len(c) = Len(a) + Len(y)
      /\ \A i \in 1..Len(a) : c[i] = a[i]
      /\ \A i \in 1..(Len(a) + Len(y)) : i > Len(a) => c[i] = y[i - Len(a)]
    BY <1>2, CellsKept, ZenonT(60)
<1> HIDE DEF b, c
<1>5. Len(b) = Len(c)
    BY <1>1, <1>2, <1>3, <1>4
<1>6. ASSUME NEW i \in 1..Len(b)
      PROVE  b[i] = c[i]
    <2>1. b[i] = z[n + i]
        BY <1>1, <1>3
    <2>2. CASE i <= Len(a)
        <3>1. c[i] = x[n + i]
            BY <1>1, <1>2, <1>4, <2>2
        <3>2. n + i \in 1..Len(x)
            BY <1>1, <1>2, <2>2
        <3> QED BY <1>1, <2>1, <3>1, <3>2
    <2>3. CASE i > Len(a)
        <3>1. c[i] = y[i - Len(a)]
            BY <1>1, <1>2, <1>4, <1>5, <2>3
        <3>2. n + i \in 1..Len(z) /\ n + i > Len(x) /\ n + i - Len(x) = i - Len(a)
            BY <1>1, <1>2, <1>3, <2>3
        <3> QED BY <1>1, <2>1, <3>1, <3>2
    <2> QED BY <1>1, <1>2, <2>2, <2>3
<1>7. b = c
    BY <1>3, <1>4, <1>5, <1>6, SeqEqual DEF Cells
<1> QED BY <1>7 DEF a, b, c, z

-----------------------------------------------------------------------------
(* The decoders of one field.                                              *)

\* A decoder that looks at the first N[x] cells only delimits what it accepts.
LooksAt(d, A, N, V) ==
    /\ \A x \in Cells : d[x] = IF x \in A THEN Passes(Behind(x, N[x]), V[x]) ELSE Fails
    /\ \A x \in Cells : x \in A => N[x] \in 0..Len(x)
    /\ \A x, y \in Cells : x \in A => x \o y \in A /\ N[x \o y] = N[x] /\ V[x \o y] = V[x]

\* Such a decoder delimits what it accepts.
LEMMA LooksAhead ==
    ASSUME NEW d, NEW A, NEW N, NEW V, LooksAt(d, A, N, V)
    PROVE  Decoder(d) /\ Delimits(d)
<1> USE DEF LooksAt
<1>1. ASSUME NEW x \in Cells
      PROVE  d[x] = Fails \/ \E r \in Cells : \E v : d[x] = Passes(r, v)
    <2>1. CASE x \in A
        <3>1. Behind(x, N[x]) \in Cells
            BY <2>1, BehindIs
        <3>2. d[x] = Passes(Behind(x, N[x]), V[x])
            BY <2>1
        <3> QED BY <3>1, <3>2
    <2> QED BY <2>1
<1>2. ASSUME NEW x \in Cells, NEW y \in Cells, NEW r \in Cells, NEW v, d[x] = Passes(r, v)
      PROVE  d[x \o y] = Passes(r \o y, v)
    <2>1. x \in A
        BY <1>2, CursorFields
    <2>2. r = Behind(x, N[x]) /\ v = V[x]
        BY <1>2, <2>1, PassesOnce
    <2> DEFINE z == x \o y
    <2>3. z \in Cells /\ z \in A /\ N[z] = N[x] /\ V[z] = V[x]
        BY <2>1, CellsJoin
    <2>4. Behind(z, N[x]) = Behind(x, N[x]) \o y
        <3> DEFINE n == N[x]
        <3>1. n \in 0..Len(x)
            BY <2>1
        <3> HIDE DEF n
        <3>2. Behind(x \o y, n) = Behind(x, n) \o y
            BY <3>1, BehindMore
        <3> QED BY <3>2 DEF n
    <2> HIDE DEF z
    <2>5. d[z] = Passes(Behind(z, N[z]), V[z])
        BY <2>3
    <2>6. d[z] = Passes(r \o y, v)
        BY <2>2, <2>3, <2>4, <2>5
    <2> QED BY <2>6 DEF z
<1> QED BY <1>1, <1>2 DEF Decoder, Delimits

\* A number read is one of its set.
LEMMA NumDecodes ==
    ASSUME NEW set
    PROVE  /\ Decoder(read_num(set)) /\ Delimits(read_num(set))
           /\ \A x, r \in Cells : \A v : read_num(set)[x] = Passes(r, v) => v \in set
<1> DEFINE A == {x \in Cells : Len(x) >= 1 /\ x[1] \in set}
           N == [x \in Cells |-> 1]
           V == [x \in Cells |-> x[1]]
<1>1. ASSUME NEW x \in Cells
      PROVE  read_num(set)[x] = IF x \in A THEN Passes(Behind(x, N[x]), V[x]) ELSE Fails
    BY DEF read_num
<1>2. ASSUME NEW x \in Cells, x \in A
      PROVE  N[x] \in 0..Len(x)
    BY <1>2, CellsKept
<1>3. ASSUME NEW x \in Cells, NEW y \in Cells, x \in A
      PROVE  x \o y \in A /\ N[x \o y] = N[x] /\ V[x \o y] = V[x]
    <2>0. Len(x) \in Nat /\ 1 \in 1..Len(x)
        BY <1>3, CellsKept
    <2>1. x \o y \in Cells /\ Len(x \o y) >= 1 /\ (x \o y)[1] = x[1]
        BY <2>0, CellsKept
    <2> QED BY <1>3, <2>1
<1>4. ASSUME NEW x \in Cells, NEW r \in Cells, NEW v, read_num(set)[x] = Passes(r, v)
      PROVE  v \in set
    <2>1. x \in A
        BY <1>1, <1>4, CursorFields
    <2>2. read_num(set)[x] = Passes(Behind(x, 1), x[1])
        BY <1>1, <2>1
    <2>3. v = x[1]
        <3> DEFINE w == x[1]
        <3>1. Passes(r, v) = Passes(Behind(x, 1), w)
            BY <1>4, <2>2
        <3> HIDE DEF w
        <3>2. v = w
            BY <3>1, PassesOnce
        <3> QED BY <3>2 DEF w
    <2> QED BY <2>1, <2>3
<1> HIDE DEF A, N, V
<1>5. LooksAt(read_num(set), A, N, V)
    BY <1>1, <1>2, <1>3 DEF LooksAt
<1>6. Decoder(read_num(set)) /\ Delimits(read_num(set))
    BY <1>5, LooksAhead
<1> QED BY <1>4, <1>6

\* A number is read back if it is one of its set.
LEMMA NumReads ==
    ASSUME NEW set, NEW v \in Int, NEW r \in Cells
    PROVE  read_num(set)[<<v>> \o r] = IF v \in set THEN Passes(r, v) ELSE Fails
<1> DEFINE e == <<v>>
           z == e \o r
<1>1. e \in Cells /\ Len(e) = 1 /\ e[1] = v
    BY DEF Cells
<1> HIDE DEF e
<1>2. z \in Cells /\ Len(z) >= 1 /\ z[1] = v /\ Behind(z, 1) = r
    <2>1. z \in Cells /\ Len(z) = Len(e) + Len(r) /\ Len(r) \in Nat
        BY <1>1, CellsKept, Zenon
    <2>2. Behind(z, Len(e)) = r /\ \A i \in 1..Len(e) : z[i] = e[i]
        BY <1>1, BehindJoin, Zenon
    <2> HIDE DEF z
    <2> QED BY <1>1, <2>1, <2>2
<1> HIDE DEF z
<1>3. read_num(set)[z] = IF v \in set THEN Passes(r, v) ELSE Fails
    BY <1>2 DEF read_num
<1> QED BY <1>3 DEF z, e

\* A value read is a valid one.
LEMMA ValueDecodes ==
    /\ Decoder(read_value) /\ Delimits(read_value)
    /\ \A x, r \in Cells : \A v : read_value[x] = Passes(r, v) => valid_value(v.tag, v.n)
<1> DEFINE A == {x \in Cells : Len(x) >= 2 /\ valid_value(x[1], x[2])}
           N == [x \in Cells |-> 2]
           V == [x \in Cells |-> [tag |-> x[1], n |-> x[2]]]
<1>1. ASSUME NEW x \in Cells
      PROVE  read_value[x] = IF x \in A THEN Passes(Behind(x, N[x]), V[x]) ELSE Fails
    BY DEF read_value
<1>2. ASSUME NEW x \in Cells, x \in A
      PROVE  N[x] \in 0..Len(x)
    BY <1>2, CellsKept
<1>3. ASSUME NEW x \in Cells, NEW y \in Cells, x \in A
      PROVE  x \o y \in A /\ N[x \o y] = N[x] /\ V[x \o y] = V[x]
    <2>0. Len(x) \in Nat /\ Len(x) >= 2 /\ 1 \in 1..Len(x) /\ 2 \in 1..Len(x)
        BY <1>3, CellsKept
    <2>1. x \o y \in Cells /\ Len(x \o y) >= 2 /\ (x \o y)[1] = x[1] /\ (x \o y)[2] = x[2]
        BY <2>0, CellsKept
    <2> QED BY <1>3, <2>1
<1>4. ASSUME NEW x \in Cells, NEW r \in Cells, NEW v, read_value[x] = Passes(r, v)
      PROVE  valid_value(v.tag, v.n)
    <2>1. x \in A
        BY <1>1, <1>4, CursorFields
    <2>2. read_value[x] = Passes(Behind(x, 2), [tag |-> x[1], n |-> x[2]])
        BY <1>1, <2>1
    <2>3. v = [tag |-> x[1], n |-> x[2]]
        <3> DEFINE w == [tag |-> x[1], n |-> x[2]]
        <3>1. Passes(r, v) = Passes(Behind(x, 2), w)
            BY <1>4, <2>2
        <3> HIDE DEF w
        <3>2. v = w
            BY <3>1, PassesOnce
        <3> QED BY <3>2 DEF w
    <2> QED BY <2>1, <2>3
<1> HIDE DEF A, N, V
<1>5. LooksAt(read_value, A, N, V)
    BY <1>1, <1>2, <1>3 DEF LooksAt
<1>6. Decoder(read_value) /\ Delimits(read_value)
    BY <1>5, LooksAhead
<1> QED BY <1>4, <1>6

\* A value is read back if it is valid.
LEMMA ValueReads ==
    ASSUME NEW v \in [tag : Int, n : Int], NEW r \in Cells
    PROVE  /\ write_value(v) \in Cells
           /\ read_value[write_value(v) \o r] = IF valid_value(v.tag, v.n) THEN Passes(r, v) ELSE Fails
<1> DEFINE e == write_value(v)
           z == e \o r
<1>1. e \in Cells /\ Len(e) = 2 /\ e[1] = v.tag /\ e[2] = v.n
    BY DEF Cells, write_value
<1> HIDE DEF e
<1>2. z \in Cells /\ Len(z) >= 2 /\ z[1] = v.tag /\ z[2] = v.n /\ Behind(z, 2) = r
    <2>1. z \in Cells /\ Len(z) = Len(e) + Len(r) /\ Len(r) \in Nat
        BY <1>1, CellsKept, Zenon
    <2>2. Behind(z, Len(e)) = r /\ \A i \in 1..Len(e) : z[i] = e[i]
        BY <1>1, BehindJoin, Zenon
    <2> HIDE DEF z
    <2> QED BY <1>1, <2>1, <2>2
<1> HIDE DEF z
<1>3. v = [tag |-> v.tag, n |-> v.n]
    OBVIOUS
<1>4. read_value[z] = IF valid_value(v.tag, v.n) THEN Passes(r, v) ELSE Fails
    BY <1>2, <1>3 DEF read_value
<1> QED BY <1>1, <1>4 DEF z, e

\* A string read is no longer than the cap.
LEMMA StringDecodes ==
    /\ Decoder(read_string) /\ Delimits(read_string)
    /\ \A x, r \in Cells : \A v : read_string[x] = Passes(r, v) => v \in Cells /\ Len(v) <= MaxString
<1> DEFINE A == {x \in Cells : Len(x) >= 1 /\ x[1] \in 0..MaxString /\ Len(x) - 1 >= x[1]}
           N == [x \in Cells |-> 1 + x[1]]
           V == [x \in Cells |-> SubSeq(x, 2, 1 + x[1])]
<1>1. ASSUME NEW x \in Cells
      PROVE  read_string[x] = IF x \in A THEN Passes(Behind(x, N[x]), V[x]) ELSE Fails
    BY DEF read_string
<1>a. ASSUME NEW x \in Cells, x \in A
      PROVE  /\ Len(x) \in Nat /\ x[1] \in Nat /\ x[1] <= MaxString /\ 1 + x[1] <= Len(x) /\ Len(x) >= 1
             /\ N[x] = 1 + x[1] /\ V[x] = SubSeq(x, 2, 1 + x[1])
    <2>1. Len(x) \in Nat /\ Len(x) >= 1 /\ x[1] \in 0..MaxString /\ Len(x) - 1 >= x[1]
        BY <1>a DEF Cells
    <2>2. N[x] = 1 + x[1] /\ V[x] = SubSeq(x, 2, 1 + x[1])
        OBVIOUS
    <2> QED BY <2>1, <2>2, CodecAssumption
<1>2. ASSUME NEW x \in Cells, x \in A
      PROVE  N[x] \in 0..Len(x)
    BY <1>2, <1>a
<1>3. ASSUME NEW x \in Cells, NEW y \in Cells, x \in A
      PROVE  x \o y \in A /\ N[x \o y] = N[x] /\ V[x \o y] = V[x]
    <2> DEFINE z == x \o y
    <2>1. z \in Cells /\ Len(z) = Len(x) + Len(y) /\ Len(y) \in Nat /\ \A i \in 1..Len(x) : z[i] = x[i]
        BY CellsKept, Zenon
    <2> HIDE DEF z
    <2>2. z[1] = x[1] /\ Len(z) >= Len(x)
        BY <1>3, <1>a, <2>1
    <2>3. z \in A
        BY <1>3, <1>a, <2>1, <2>2
    <2>4. N[z] = N[x]
        BY <2>1, <2>2
    <2>5. SubSeq(z, 2, 1 + x[1]) = SubSeq(x, 2, 1 + x[1])
        <3> DEFINE n == x[1]
        <3>1. n \in Nat /\ 1 + n <= Len(x) /\ Len(x) \in Nat
            BY <1>3, <1>a
        <3> HIDE DEF n
        <3>2. SubSeq(x, 2, 1 + n) = [i \in 1..n |-> x[i + 1]]
            BY <3>1 DEF Cells
        <3>3. SubSeq(z, 2, 1 + n) = [i \in 1..n |-> z[i + 1]]
            BY <2>1, <3>1 DEF Cells
        <3>4. \A i \in 1..n : z[i + 1] = x[i + 1]
            BY <2>1, <3>1
        <3> QED BY <3>2, <3>3, <3>4 DEF n
    <2> QED BY <2>1, <2>2, <2>3, <2>4, <2>5 DEF z
<1>4. ASSUME NEW x \in Cells, NEW r \in Cells, NEW v, read_string[x] = Passes(r, v)
      PROVE  v \in Cells /\ Len(v) <= MaxString
    <2>1. x \in A
        BY <1>1, <1>4, CursorFields
    <2>2. Passes(r, v) = Passes(Behind(x, N[x]), V[x])
        BY <1>1, <1>4, <2>1
    <2>3. v = V[x]
        <3> DEFINE w == V[x]
                   b == Behind(x, N[x])
        <3>1. Passes(r, v) = Passes(b, w)
            BY <2>2
        <3> HIDE DEF b, w
        <3>2. v = w
            BY <3>1, PassesOnce
        <3> QED BY <3>2 DEF w
    <2>4. v = SubSeq(x, 2, 1 + x[1])
        BY <2>1, <2>3, <1>a
    <2>5. v \in Cells /\ Len(v) = x[1]
        <3> DEFINE n == x[1]
        <3>1. n \in Nat /\ 1 + n <= Len(x) /\ Len(x) \in Nat
            BY <1>a, <2>1
        <3> HIDE DEF n
        <3>2. SubSeq(x, 2, 1 + n) \in Seq(Int) /\ Len(SubSeq(x, 2, 1 + n)) = n
            BY <3>1 DEF Cells
        <3> QED BY <2>4, <3>2 DEF Cells, n
    <2> QED BY <1>a, <2>1, <2>5
<1> HIDE DEF A, N, V
<1>5. LooksAt(read_string, A, N, V)
    BY <1>1, <1>2, <1>3 DEF LooksAt
<1>6. Decoder(read_string) /\ Delimits(read_string)
    BY <1>5, LooksAhead
<1> QED BY <1>4, <1>6

\* A string is read back if it is no longer than the cap.
LEMMA StringReads ==
    ASSUME NEW v \in Cells, NEW r \in Cells
    PROVE  /\ write_string(v) \in Cells
           /\ read_string[write_string(v) \o r] = IF Len(v) <= MaxString THEN Passes(r, v) ELSE Fails
<1> DEFINE h == <<Len(v)>>
           e == h \o v
           z == e \o r
<1>0. Len(v) \in Nat
    BY DEF Cells
<1>1. h \in Cells /\ Len(h) = 1 /\ h[1] = Len(v)
    BY <1>0 DEF Cells
<1> HIDE DEF h
<1>2. e \in Cells /\ Len(e) = Len(h) + Len(v) /\ (\A i \in 1..Len(h) : e[i] = h[i]) /\ Behind(e, Len(h)) = v
    BY <1>1, CellsKept, BehindJoin, Zenon
<1> HIDE DEF e
<1>3. /\ z \in Cells /\ Len(z) = Len(e) + Len(r) /\ Len(r) \in Nat /\ \A i \in 1..Len(e) : z[i] = e[i]
      /\ Behind(z, Len(e)) = r
    BY <1>2, CellsKept, BehindJoin, Zenon
<1> HIDE DEF z
<1>4. z[1] = Len(v) /\ Len(z) >= 1 /\ Len(e) = 1 + Len(v) /\ Len(z) - 1 >= Len(v)
    BY <1>0, <1>1, <1>2, <1>3
<1>5. SubSeq(z, 2, 1 + Len(v)) = v
    <2>1. SubSeq(z, 2, 1 + Len(v)) = [i \in 1..Len(v) |-> z[i + 1]]
        BY <1>0, <1>3, <1>4 DEF Cells
    <2>2. v = [i \in 1..Len(v) |-> v[i]]
        BY DEF Cells
    <2>3. ASSUME NEW i \in 1..Len(v)
          PROVE  z[i + 1] = v[i]
        <3>1. z[i + 1] = e[i + 1]
            BY <1>0, <1>3, <1>4
        <3>2. Behind(e, 1)[i] = e[1 + i]
            <4>1. 1 \in 0..Len(e) /\ Len(e) - 1 = Len(v) /\ e \in Cells
                BY <1>0, <1>2, <1>4
            <4>2. \A j \in 1..(Len(e) - 1) : Behind(e, 1)[j] = e[1 + j]
                BY <4>1, BehindIs, Zenon
            <4> QED BY <4>1, <4>2
        <3>3. Behind(e, 1) = v /\ 1 + i = i + 1
            BY <1>1, <1>2
        <3> QED BY <3>1, <3>2, <3>3
    <2> QED BY <2>1, <2>2, <2>3
<1>6. read_string[z] = IF Len(z) >= 1 /\ z[1] \in 0..MaxString /\ Len(z) - 1 >= z[1]
                       THEN Passes(Behind(z, 1 + z[1]), SubSeq(z, 2, 1 + z[1])) ELSE Fails
    BY <1>3 DEF read_string
<1>7. read_string[z] = IF Len(v) \in 0..MaxString THEN Passes(r, v) ELSE Fails
    BY <1>3, <1>4, <1>5, <1>6
<1>8. Len(v) \in 0..MaxString <=> Len(v) <= MaxString
    BY <1>0, CodecAssumption
<1> QED BY <1>2, <1>7, <1>8 DEF z, e, h, write_string

\* An optional value read is none, or one its decoder gave.
LEMMA OptionalDecodes ==
    ASSUME NEW d, Decoder(d), Delimits(d)
    PROVE  /\ Decoder(read_optional(d)) /\ Delimits(read_optional(d))
           /\ \A x, r \in Cells : \A v : read_optional(d)[x] = Passes(r, v) =>
                 v = << >> \/ \E c, s \in Cells : \E w : d[c] = Passes(s, w) /\ v = <<w>>
<1> DEFINE o == read_optional(d)
           none == << >>
           some(w) == <<w>>
<1>1. ASSUME NEW x \in Cells
      PROVE  /\ Len(x) = 0 => o[x] = Fails
             /\ Len(x) # 0 /\ x[1] = 0 => o[x] = Passes(Behind(x, 1), none)
             /\ Len(x) # 0 /\ x[1] # 0 /\ d[Behind(x, 1)] = Fails => o[x] = Fails
             /\ \A s, w : Len(x) # 0 /\ x[1] # 0 /\ d[Behind(x, 1)] = Passes(s, w) => o[x] = Passes(s, some(w))
    <2>1. o[x] = IF Len(x) = 0 THEN Fails
                 ELSE IF x[1] = 0 THEN Passes(Behind(x, 1), none)
                 ELSE IF d[Behind(x, 1)].ok THEN Passes(d[Behind(x, 1)].rest, some(d[Behind(x, 1)].rec)) ELSE Fails
        BY DEF read_optional
    <2> HIDE DEF o, none, some
    <2>2. ASSUME d[Behind(x, 1)] = Fails
          PROVE  ~d[Behind(x, 1)].ok
        BY <2>2, CursorFields
    <2>3. ASSUME NEW s, NEW w, d[Behind(x, 1)] = Passes(s, w)
          PROVE  d[Behind(x, 1)].ok /\ d[Behind(x, 1)].rest = s /\ d[Behind(x, 1)].rec = w
        BY <2>3, CursorFields
    <2> QED BY <2>1, <2>2, <2>3, Zenon
<1> HIDE DEF o, none, some
<1>2. ASSUME NEW x \in Cells, Len(x) # 0
      PROVE  /\ Behind(x, 1) \in Cells /\ 1 \in 1..Len(x) /\ 1 \in 0..Len(x)
             /\ \A y \in Cells : /\ x \o y \in Cells /\ Len(x \o y) # 0 /\ (x \o y)[1] = x[1]
                                 /\ Behind(x \o y, 1) = Behind(x, 1) \o y
    <2>1. Len(x) \in Nat /\ 1 \in 1..Len(x) /\ 1 \in 0..Len(x)
        BY <1>2 DEF Cells
    <2>2. ASSUME NEW y \in Cells
          PROVE  x \o y \in Cells /\ Len(x \o y) = Len(x) + Len(y) /\ Len(y) \in Nat /\ (x \o y)[1] = x[1]
        BY <2>1, CellsKept, Zenon
    <2>3. ASSUME NEW y \in Cells
          PROVE  Behind(x \o y, 1) = Behind(x, 1) \o y
        BY <2>1, BehindMore
    <2>4. ASSUME NEW n, NEW y \in Cells, n = Len(x) + Len(y)
          PROVE  n # 0
        BY <2>1, <2>2, <2>4
    <2> QED BY <2>1, <2>2, <2>3, <2>4, BehindIs
<1>3. ASSUME NEW x \in Cells
      PROVE  \/ o[x] = Fails
             \/ Len(x) # 0 /\ x[1] = 0 /\ o[x] = Passes(Behind(x, 1), none)
             \/ \E s \in Cells : \E w : Len(x) # 0 /\ x[1] # 0 /\ d[Behind(x, 1)] = Passes(s, w) /\ o[x] = Passes(s, some(w))
    <2>1. CASE Len(x) = 0 \/ x[1] = 0
        BY <1>1, <2>1
    <2>2. CASE Len(x) # 0 /\ x[1] # 0
        <3>1. Behind(x, 1) \in Cells
            BY <1>2, <2>2
        <3>2. d[Behind(x, 1)] = Fails \/ \E s \in Cells : \E w : d[Behind(x, 1)] = Passes(s, w)
            BY <3>1, Zenon DEF Decoder
        <3>3. CASE d[Behind(x, 1)] = Fails
            BY <1>1, <2>2, <3>3
        <3>4. CASE \E s \in Cells : \E w : d[Behind(x, 1)] = Passes(s, w)
            <4>1. PICK s, w : s \in Cells /\ d[Behind(x, 1)] = Passes(s, w)
                BY <3>4
            <4>2. o[x] = Passes(s, some(w))
                BY <1>1, <2>2, <4>1
            <4> QED BY <2>2, <4>1, <4>2
        <3> QED BY <3>2, <3>3, <3>4
    <2> QED BY <2>1, <2>2
<1>4. Decoder(o)
    <2>1. \A x \in Cells : Len(x) # 0 => Behind(x, 1) \in Cells
        BY <1>2
    <2>2. ASSUME NEW x \in Cells, o[x] # Fails
          PROVE  \E r \in Cells : \E v : o[x] = Passes(r, v)
        BY <1>3, <2>1, <2>2
    <2> QED BY <2>2, Zenon DEF Decoder
<1>5. ASSUME NEW x \in Cells, NEW y \in Cells, NEW r \in Cells, NEW v, o[x] = Passes(r, v)
      PROVE  o[x \o y] = Passes(r \o y, v)
    <2>1. o[x] # Fails
        BY <1>5, CursorFields
    <2>2. CASE Len(x) # 0 /\ x[1] = 0 /\ o[x] = Passes(Behind(x, 1), none)
        <3>0. Passes(r, v) = Passes(Behind(x, 1), none)
            BY <1>5, <2>2
        <3>1. r = Behind(x, 1) /\ v = none
            BY <3>0, PassesOnce
        <3>2. x \o y \in Cells /\ Len(x \o y) # 0 /\ (x \o y)[1] = 0 /\ Behind(x \o y, 1) = r \o y
            BY <1>2, <2>2, <3>1
        <3> QED BY <1>1, <3>1, <3>2
    <2>3. CASE \E s \in Cells : \E w : Len(x) # 0 /\ x[1] # 0 /\ d[Behind(x, 1)] = Passes(s, w) /\ o[x] = Passes(s, some(w))
        <3>1. PICK s, w : s \in Cells /\ Len(x) # 0 /\ x[1] # 0 /\ d[Behind(x, 1)] = Passes(s, w) /\ o[x] = Passes(s, some(w))
            BY <2>3
        <3>2. r = s /\ v = some(w)
            BY <1>5, <3>1, PassesOnce
        <3>3. /\ x \o y \in Cells /\ Len(x \o y) # 0 /\ (x \o y)[1] # 0
              /\ Behind(x \o y, 1) = Behind(x, 1) \o y /\ Behind(x, 1) \in Cells
            BY <1>2, <3>1
        <3>4. d[Behind(x, 1) \o y] = Passes(s \o y, w)
            BY <3>1, <3>3 DEF Delimits
        <3>5. o[x \o y] = Passes(s \o y, some(w))
            <4> DEFINE z == x \o y
            <4>1. z \in Cells /\ Len(z) # 0 /\ z[1] # 0 /\ d[Behind(z, 1)] = Passes(s \o y, w)
                BY <3>3, <3>4
            <4> HIDE DEF z
            <4>2. o[z] = Passes(s \o y, some(w))
                BY <1>1, <4>1
            <4> QED BY <4>2 DEF z
        <3> QED BY <3>2, <3>5
    <2> QED BY <1>3, <2>1, <2>2, <2>3
<1>6. Delimits(o)
    BY <1>5 DEF Delimits
<1>7. ASSUME NEW x \in Cells, NEW r \in Cells, NEW v, o[x] = Passes(r, v)
      PROVE  v = none \/ \E c, s \in Cells : \E w : d[c] = Passes(s, w) /\ v = some(w)
    <2>1. o[x] # Fails
        BY <1>7, CursorFields
    <2>2. CASE Len(x) # 0 /\ x[1] = 0 /\ o[x] = Passes(Behind(x, 1), none)
        <3>1. Passes(r, v) = Passes(Behind(x, 1), none)
            BY <1>7, <2>2
        <3> QED BY <3>1, PassesOnce
    <2>3. CASE \E s \in Cells : \E w : Len(x) # 0 /\ x[1] # 0 /\ d[Behind(x, 1)] = Passes(s, w) /\ o[x] = Passes(s, some(w))
        <3>1. PICK s, w : s \in Cells /\ Len(x) # 0 /\ d[Behind(x, 1)] = Passes(s, w) /\ o[x] = Passes(s, some(w))
            BY <2>3
        <3>2. v = some(w) /\ Behind(x, 1) \in Cells
            <4>1. Passes(r, v) = Passes(s, some(w))
                BY <1>7, <3>1
            <4>2. v = some(w)
                BY <4>1, PassesOnce
            <4> QED BY <1>2, <3>1, <4>2
        <3> QED BY <3>1, <3>2
    <2> QED BY <1>3, <2>1, <2>2, <2>3
<1> QED BY <1>4, <1>6, <1>7 DEF o, none, some

\* An optional value by its flag.
LEMMA OptionalReads ==
    ASSUME NEW d, NEW n \in Int, NEW q \in Cells
    PROVE  /\ n = 0 => read_optional(d)[<<n>> \o q] = Passes(q, << >>)
           /\ n # 0 /\ d[q] = Fails => read_optional(d)[<<n>> \o q] = Fails
           /\ \A s, w : n # 0 /\ d[q] = Passes(s, w) => read_optional(d)[<<n>> \o q] = Passes(s, <<w>>)
<1> DEFINE h == <<n>>
           x == h \o q
           some(w) == <<w>>
<1>1. h \in Cells /\ Len(h) = 1 /\ h[1] = n
    BY DEF Cells
<1> HIDE DEF h
<1>2. /\ x \in Cells /\ Len(x) = Len(h) + Len(q) /\ Len(q) \in Nat /\ \A i \in 1..Len(h) : x[i] = h[i]
      /\ Behind(x, Len(h)) = q
    BY <1>1, CellsKept, BehindJoin, Zenon
<1> HIDE DEF x
<1>3. Len(x) # 0 /\ x[1] = n /\ Behind(x, 1) = q
    BY <1>1, <1>2
<1>4. read_optional(d)[x] = IF Len(x) = 0 THEN Fails
                 ELSE IF x[1] = 0 THEN Passes(Behind(x, 1), << >>)
                 ELSE IF d[Behind(x, 1)].ok THEN Passes(d[Behind(x, 1)].rest, some(d[Behind(x, 1)].rec)) ELSE Fails
    BY <1>2 DEF read_optional
<1>5. read_optional(d)[x] = IF n = 0 THEN Passes(q, << >>)
                 ELSE IF d[q].ok THEN Passes(d[q].rest, some(d[q].rec)) ELSE Fails
    BY <1>3, <1>4
<1>6. n = 0 => read_optional(d)[x] = Passes(q, << >>)
    BY <1>5
<1>7. n # 0 /\ d[q] = Fails => read_optional(d)[x] = Fails
    <2>1. d[q] = Fails => ~d[q].ok
        BY CursorFields
    <2> HIDE DEF some
    <2> QED BY <1>5, <2>1, Zenon
<1>8. ASSUME NEW s, NEW w, n # 0, d[q] = Passes(s, w)
      PROVE  read_optional(d)[x] = Passes(s, some(w))
    <2>1. d[q].ok /\ d[q].rest = s /\ d[q].rec = w
        BY <1>8, CursorFields
    <2> HIDE DEF some
    <2> QED BY <1>5, <1>8, <2>1, Zenon
<1> QED BY <1>6, <1>7, <1>8 DEF x, h, some

\* An optional value that is there.
LEMMA OneItem ==
    ASSUME NEW S, NEW v \in Seq(S), Len(v) <= 1, v # << >>
    PROVE  v[1] \in S /\ v = <<v[1]>>
<1>1. Len(v) \in Nat /\ v \in [1..Len(v) -> S]
    OBVIOUS
<1>2. Len(v) # 0
    BY EmptySeq
<1>3. Len(v) = 1
    BY <1>1, <1>2
<1>4. v[1] \in S
    BY <1>1, <1>3
<1>5. <<v[1]>> \in Seq(S) /\ Len(<<v[1]>>) = 1 /\ <<v[1]>>[1] = v[1]
    BY <1>4
<1>6. v = <<v[1]>>
    BY <1>3, <1>5, SeqEqual
<1> QED BY <1>4, <1>6

\* The types of fields there are.
FieldType(t) ==
    t[1] = "num" \/ t[1] \in {"str", "value", "optional value", "optional number"}

\* A field read keeps the bound of its type.
LEMMA FieldDecodes ==
    ASSUME NEW t, FieldType(t)
    PROVE  /\ Decoder(read_field(t)) /\ Delimits(read_field(t))
           /\ \A x, r \in Cells : \A v : read_field(t)[x] = Passes(r, v) => Fits(t, v)
<1>1. CASE t[1] = "num"
    <2>1. read_field(t) = read_num(t[2]) /\ \A v : Fits(t, v) <=> v \in t[2]
        BY <1>1 DEF read_field, Fits
    <2> QED BY <2>1, NumDecodes
<1>2. CASE t[1] = "str"
    <2>1. read_field(t) = read_string /\ \A v : Fits(t, v) <=> Len(v) <= MaxString
        BY <1>2 DEF read_field, Fits
    <2> QED BY <2>1, StringDecodes
<1>3. CASE t[1] = "value"
    <2>1. read_field(t) = read_value /\ \A v : Fits(t, v) <=> valid_value(v.tag, v.n)
        BY <1>3 DEF read_field, Fits
    <2> QED BY <2>1, ValueDecodes
<1>4. CASE t[1] = "optional value"
    <2>1. read_field(t) = read_optional(read_value)
        BY <1>4 DEF read_field
    <2>2. \A v : Fits(t, v) <=> (v # <<>> => valid_value(v[1].tag, v[1].n))
        BY <1>4 DEF Fits
    <2>3. Decoder(read_field(t)) /\ Delimits(read_field(t))
        BY <2>1, ValueDecodes, OptionalDecodes
    <2>4. ASSUME NEW x \in Cells, NEW r \in Cells, NEW v, read_field(t)[x] = Passes(r, v)
          PROVE  Fits(t, v)
        <3>1. v = << >> \/ \E c, s \in Cells : \E w : read_value[c] = Passes(s, w) /\ v = <<w>>
            BY <2>1, <2>4, ValueDecodes, OptionalDecodes
        <3>2. CASE \E c, s \in Cells : \E w : read_value[c] = Passes(s, w) /\ v = <<w>>
            <4>1. PICK c, s, w : c \in Cells /\ s \in Cells /\ read_value[c] = Passes(s, w) /\ v = <<w>>
                BY <3>2
            <4>2. valid_value(w.tag, w.n)
                BY <4>1, ValueDecodes
            <4>3. v[1] = w
                BY <4>1
            <4> QED BY <2>2, <4>2, <4>3
        <3> QED BY <2>2, <3>1, <3>2
    <2> QED BY <2>3, <2>4
<1>5. CASE t[1] = "optional number"
    <2>1. read_field(t) = read_optional(read_num(Int)) /\ \A v : Fits(t, v)
        BY <1>5 DEF read_field, Fits
    <2> QED BY <2>1, NumDecodes, OptionalDecodes
<1> QED BY <1>1, <1>2, <1>3, <1>4, <1>5 DEF FieldType

\* A field is read back if it keeps the bound of its type.
LEMMA FieldReads ==
    ASSUME NEW t, FieldType(t), NEW v, IsValue(t, v)
    PROVE  /\ write_field(t, v) \in Cells
           /\ \A r \in Cells :
                 read_field(t)[write_field(t, v) \o r] = IF Fits(t, v) THEN Passes(r, v) ELSE Fails
<1>1. CASE t[1] = "num"
    <2>1. /\ read_field(t) = read_num(t[2]) /\ (Fits(t, v) <=> v \in t[2]) /\ v \in Int
          /\ write_field(t, v) = <<v>>
        BY <1>1 DEF read_field, Fits, IsValue, write_field
    <2>2. <<v>> \in Cells
        BY <2>1 DEF Cells
    <2> QED BY <2>1, <2>2, NumReads
<1>2. CASE t[1] = "str"
    <2>1. /\ read_field(t) = read_string /\ (Fits(t, v) <=> Len(v) <= MaxString) /\ v \in Cells
          /\ write_field(t, v) = write_string(v)
        BY <1>2 DEF read_field, Fits, IsValue, write_field
    <2> QED BY <2>1, StringReads, CellsJoin
<1>3. CASE t[1] = "value"
    <2>1. /\ read_field(t) = read_value /\ (Fits(t, v) <=> valid_value(v.tag, v.n))
          /\ v \in [tag : Int, n : Int] /\ write_field(t, v) = write_value(v)
        BY <1>3 DEF read_field, Fits, IsValue, write_field
    <2> QED BY <2>1, ValueReads, CellsJoin
<1>4. CASE t[1] = "optional value"
    <2>1. read_field(t) = read_optional(read_value) /\ v \in Seq([tag : Int, n : Int]) /\ Len(v) <= 1
        BY <1>4 DEF read_field, IsValue
    <2>2. Fits(t, v) <=> (v # <<>> => valid_value(v[1].tag, v[1].n))
        BY <1>4 DEF Fits
    <2>3. write_field(t, v) = IF v = <<>> THEN <<0>> ELSE <<1>> \o write_value(v[1])
        BY <1>4 DEF write_field
    <2>4. CASE v = <<>>
        <3>1. write_field(t, v) = <<0>> /\ <<0>> \in Cells /\ Fits(t, v)
            BY <2>2, <2>3, <2>4 DEF Cells
        <3> QED BY <2>1, <2>4, <3>1, OptionalReads
    <2>5. CASE v # <<>>
        <3> DEFINE w == v[1]
                   e == write_value(w)
                   h == <<1>>
        <3>1. w \in [tag : Int, n : Int] /\ v = <<w>>
            BY <2>1, <2>5, OneItem
        <3> HIDE DEF w
        <3>2. e \in Cells /\ h \in Cells
            <4>1. h \in Cells
                BY DEF Cells
            <4>2. e \in Cells
                <5> HIDE DEF e
                <5> QED BY <3>1, ValueReads, CellsJoin DEF e
            <4> QED BY <4>1, <4>2
        <3>3. write_field(t, v) = h \o e /\ h \o e \in Cells
            BY <2>3, <2>5, <3>2, CellsJoin DEF w
        <3>4. ASSUME NEW r \in Cells
              PROVE  read_field(t)[(h \o e) \o r] = IF Fits(t, v) THEN Passes(r, v) ELSE Fails
            <4>1. read_value[e \o r] = IF valid_value(w.tag, w.n) THEN Passes(r, w) ELSE Fails
                BY <3>1, ValueReads
            <4>2. Fits(t, v) <=> valid_value(w.tag, w.n)
                BY <2>2, <2>5 DEF w
            <4> HIDE DEF e, h
            <4>3. (h \o e) \o r = h \o (e \o r) /\ e \o r \in Cells
                BY <3>2, CellsAssociate, CellsJoin, ZenonT(60)
            <4>4. read_optional(read_value)[h \o (e \o r)] = IF Fits(t, v) THEN Passes(r, v) ELSE Fails
                <5> DEFINE q == e \o r
                <5> HIDE DEF q
                <5>1. CASE Fits(t, v)
                    <6>1. read_value[q] = Passes(r, w)
                        BY <4>1, <4>2, <5>1 DEF q
                    <6>2. read_optional(read_value)[<<1>> \o q] = Passes(r, <<w>>)
                        BY <4>3, <6>1, OptionalReads DEF q
                    <6> QED BY <3>1, <5>1, <6>2 DEF q, h
                <5>2. CASE ~Fits(t, v)
                    <6>1. read_value[q] = Fails
                        BY <4>1, <4>2, <5>2 DEF q
                    <6>2. read_optional(read_value)[<<1>> \o q] = Fails
                        BY <4>3, <6>1, OptionalReads DEF q
                    <6> QED BY <5>2, <6>2 DEF q, h
                <5> QED BY <5>1, <5>2
            <4> QED BY <2>1, <4>3, <4>4
        <3> HIDE DEF e, h
        <3> QED BY <3>3, <3>4
    <2> QED BY <2>4, <2>5
<1>5. CASE t[1] = "optional number"
    <2>1. read_field(t) = read_optional(read_num(Int)) /\ v \in Seq(Int) /\ Len(v) <= 1 /\ Fits(t, v)
        BY <1>5 DEF read_field, IsValue, Fits, Cells
    <2>2. write_field(t, v) = IF v = <<>> THEN <<0>> ELSE <<1, v[1]>>
        BY <1>5 DEF write_field
    <2>3. CASE v = <<>>
        <3>1. write_field(t, v) = <<0>> /\ <<0>> \in Cells
            BY <2>2, <2>3 DEF Cells
        <3> QED BY <2>1, <2>3, <3>1, OptionalReads
    <2>4. CASE v # <<>>
        <3> DEFINE w == v[1]
                   e == <<w>>
                   h == <<1>>
        <3>1. w \in Int /\ v = <<w>>
            BY <2>1, <2>4, OneItem
        <3> HIDE DEF w
        <3>2. e \in Cells /\ h \in Cells /\ <<1, w>> = h \o e
            BY <3>1 DEF Cells
        <3>3. write_field(t, v) = h \o e /\ h \o e \in Cells
            BY <2>2, <2>4, <3>2, CellsJoin DEF w
        <3>4. ASSUME NEW r \in Cells
              PROVE  read_field(t)[(h \o e) \o r] = Passes(r, v)
            <4>1. read_num(Int)[e \o r] = Passes(r, w)
                BY <3>1, NumReads
            <4> HIDE DEF e, h
            <4>2. (h \o e) \o r = h \o (e \o r) /\ e \o r \in Cells
                BY <3>2, CellsAssociate, CellsJoin
            <4>3. read_optional(read_num(Int))[<<1>> \o (e \o r)] = Passes(r, <<w>>)
                BY <4>1, <4>2, OptionalReads
            <4> QED BY <2>1, <3>1, <4>2, <4>3 DEF h
        <3> HIDE DEF e, h
        <3> QED BY <2>1, <3>3, <3>4
    <2> QED BY <2>3, <2>4
<1> QED BY <1>1, <1>2, <1>3, <1>4, <1>5 DEF FieldType

-----------------------------------------------------------------------------
(* Records, by their schema.                                               *)

\* The items one after the other are an encoding.
LEMMA ConcatenatedCells ==
    ASSUME NEW L \in Nat, NEW E \in [1..L -> Cells]
    PROVE  Concatenated(E) \in Cells
<1>1. PICK last \in [0..L -> Cells] : Concatenated(E) = last[L]
    BY ConcatenatedIs
<1> QED BY <1>1

\* A schema has finitely many fields, each of a type there is.
Schema(s) == Len(s) \in Nat /\ \A i \in 1..Len(s) : FieldType(s[i][2])
\* No two of them have one name.
Distinct(s) == \A i, j \in 1..Len(s) : s[i][1] = s[j][1] => i = j

\* The outcome of a record from that of its fields.
LEMMA RecordIs ==
    ASSUME NEW s, NEW x \in Cells, NEW D, D = [i \in 1..Len(s) |-> read_field(s[i][2])]
    PROVE  /\ read_items(D, x) = Fails => read_record(s)[x] = Fails
           /\ \A r, w : read_items(D, x) = Passes(r, w) => read_record(s)[x] = Passes(r, by_name(s, w))
<1>1. read_record(s)[x] = IF read_items(D, x).ok
                          THEN Passes(read_items(D, x).rest, by_name(s, read_items(D, x).rec)) ELSE Fails
    BY DEF read_record
<1>2. read_items(D, x) = Fails => ~read_items(D, x).ok
    BY CursorFields
<1>3. ASSUME NEW r, NEW w, read_items(D, x) = Passes(r, w)
      PROVE  read_items(D, x).ok /\ read_items(D, x).rest = r /\ read_items(D, x).rec = w
    BY <1>3, CursorFields
<1> QED BY <1>1, <1>2, <1>3, Zenon

\* A record read keeps the bounds of its schema.
LEMMA RecordDecodes ==
    ASSUME NEW s, Schema(s)
    PROVE  /\ Decoder(read_record(s)) /\ Delimits(read_record(s))
           /\ Distinct(s) =>
                 \A x, r \in Cells : \A v : read_record(s)[x] = Passes(r, v) => FieldsFit(s, v)
<1> DEFINE L == Len(s)
           D == [i \in 1..L |-> read_field(s[i][2])]
<1>1. L \in Nat /\ Len(D) = L
    BY DEF Schema
<1>2. ASSUME NEW n \in 1..L
      PROVE  /\ D[n] = read_field(s[n][2]) /\ Decoder(D[n]) /\ Delimits(D[n])
             /\ \A x, r \in Cells : \A v : D[n][x] = Passes(r, v) => Fits(s[n][2], v)
    <2>1. D[n] = read_field(s[n][2]) /\ FieldType(s[n][2])
        BY DEF Schema
    <2> HIDE DEF D
    <2> QED BY <2>1, FieldDecodes
<1>3. ASSUME NEW x \in Cells
      PROVE  /\ read_items(D, x) = Fails => read_record(s)[x] = Fails
             /\ \A r, w : read_items(D, x) = Passes(r, w) => read_record(s)[x] = Passes(r, by_name(s, w))
    BY RecordIs
<1> HIDE DEF D, L
<1>4. ASSUME NEW x \in Cells, NEW y \in Cells
      PROVE  \/ read_record(s)[x] = Fails
             \/ \E r \in Cells : \E w : /\ read_record(s)[x] = Passes(r, w)
                                        /\ read_record(s)[x \o y] = Passes(r \o y, w)
    <2>1. CASE read_items(D, x) = Fails
        BY <1>3, <2>1
    <2>2. CASE \E r \in Cells : \E w : /\ read_items(D, x) = Passes(r, w)
                                       /\ read_items(D, x \o y) = Passes(r \o y, w)
        <3>1. PICK r, w : r \in Cells /\ read_items(D, x) = Passes(r, w) /\ read_items(D, x \o y) = Passes(r \o y, w)
            BY <2>2
        <3>2. x \o y \in Cells
            BY CellsJoin
        <3>3. read_record(s)[x] = Passes(r, by_name(s, w)) /\ read_record(s)[x \o y] = Passes(r \o y, by_name(s, w))
            BY <1>3, <3>1, <3>2
        <3> QED BY <3>1, <3>3
    <2> QED BY <1>1, <1>2, <2>1, <2>2, ItemsDelimit
<1>5. Decoder(read_record(s))
    BY <1>4 DEF Decoder
<1>6. ASSUME NEW x \in Cells, NEW y \in Cells, NEW r \in Cells, NEW v, read_record(s)[x] = Passes(r, v)
      PROVE  read_record(s)[x \o y] = Passes(r \o y, v)
    <2>1. read_record(s)[x] # Fails
        BY <1>6, CursorFields
    <2>2. PICK q, w : q \in Cells /\ read_record(s)[x] = Passes(q, w) /\ read_record(s)[x \o y] = Passes(q \o y, w)
        BY <1>4, <2>1
    <2>3. Passes(r, v) = Passes(q, w)
        BY <1>6, <2>2
    <2>4. r = q /\ v = w
        BY <2>3, PassesOnce
    <2> QED BY <2>2, <2>4
<1>7. ASSUME Distinct(s), NEW x \in Cells, NEW r \in Cells, NEW v, read_record(s)[x] = Passes(r, v)
      PROVE  FieldsFit(s, v)
    <2>1. read_items(D, x) # Fails
        BY <1>3, <1>7, CursorFields
    <2>2. PICK q, w :
              /\ q \in Cells
              /\ read_items(D, x) = Passes(q, w)
              /\ \A i \in 1..L : \E c, z \in Cells : D[i][c] = Passes(z, w[i])
        BY <1>1, <1>2, <2>1, ItemsGiven
    <2>3. Passes(r, v) = Passes(q, by_name(s, w))
        BY <1>3, <1>7, <2>2
    <2>4. v = by_name(s, w)
        BY <2>3, PassesOnce
    <2>5. ASSUME NEW i \in 1..L
          PROVE  Fits(s[i][2], v[s[i][1]])
        <3>1. Fits(s[i][2], w[i])
            BY <1>2, <2>2
        <3>2. s[i][1] \in Names(s)
            BY DEF Names, L
        <3>3. v[s[i][1]] = w[CHOOSE j \in 1..L : s[j][1] = s[i][1]]
            BY <2>4, <3>2 DEF by_name, L
        <3>4. (CHOOSE j \in 1..L : s[j][1] = s[i][1]) = i
            BY <1>7 DEF Distinct, L
        <3> QED BY <3>1, <3>3, <3>4
    <2> QED BY <2>5 DEF FieldsFit, L
<1> QED BY <1>5, <1>6, <1>7 DEF Delimits

\* A record is read back if it keeps the bounds of its schema.
LEMMA RecordReads ==
    ASSUME NEW s, Schema(s), NEW c, FieldsAre(s, c)
    PROVE  /\ write_fields(s, c) \in Cells
           /\ \A r \in Cells :
                 read_record(s)[write_fields(s, c) \o r] =
                    IF FieldsFit(s, c) THEN Passes(r, [name \in Names(s) |-> c[name]]) ELSE Fails
<1> DEFINE L == Len(s)
           D == [i \in 1..L |-> read_field(s[i][2])]
           E == [i \in 1..L |-> write_field(s[i][2], c[s[i][1]])]
           v == [i \in 1..L |-> c[s[i][1]]]
           G == {i \in 1..L : Fits(s[i][2], c[s[i][1]])}
<1>1. L \in Nat /\ Len(D) = L
    BY DEF Schema
<1>2. ASSUME NEW n \in 1..L
      PROVE  /\ Decoder(D[n]) /\ E[n] \in Cells
             /\ \A r \in Cells : D[n][E[n] \o r] = IF n \in G THEN Passes(r, v[n]) ELSE Fails
    <2>1. FieldType(s[n][2]) /\ IsValue(s[n][2], c[s[n][1]])
        BY DEF Schema, FieldsAre
    <2>2. D[n] = read_field(s[n][2]) /\ E[n] = write_field(s[n][2], c[s[n][1]]) /\ v[n] = c[s[n][1]]
        OBVIOUS
    <2>3. n \in G <=> Fits(s[n][2], c[s[n][1]])
        OBVIOUS
    <2> HIDE DEF D, E, v, G
    <2>4. Decoder(D[n])
        BY <2>1, <2>2, FieldDecodes
    <2>5. /\ write_field(s[n][2], c[s[n][1]]) \in Cells
          /\ \A r \in Cells : read_field(s[n][2])[write_field(s[n][2], c[s[n][1]]) \o r] =
                IF Fits(s[n][2], c[s[n][1]]) THEN Passes(r, c[s[n][1]]) ELSE Fails
        BY <2>1, FieldReads
    <2> QED BY <2>2, <2>3, <2>4, <2>5
<1>3. E \in [1..L -> Cells]
    <2>1. E = [n \in 1..L |-> E[n]]
        OBVIOUS
    <2> HIDE DEF E
    <2> QED BY <1>2, <2>1
<1>4. write_fields(s, c) = Concatenated(E)
    BY DEF write_fields
<1>5. FieldsFit(s, c) <=> \A n \in 1..L : n \in G
    BY DEF FieldsFit
<1>6. by_name(s, [i \in 1..L |-> v[i]]) = [name \in Names(s) |-> c[name]]
    <2>1. ASSUME NEW name \in Names(s)
          PROVE  [i \in 1..L |-> v[i]][CHOOSE i \in 1..L : s[i][1] = name] = c[name]
        <3> DEFINE k == CHOOSE i \in 1..L : s[i][1] = name
        <3>1. \E i \in 1..L : s[i][1] = name
            BY DEF Names
        <3>2. k \in 1..L /\ s[k][1] = name
            BY <3>1
        <3> HIDE DEF k
        <3>3. [i \in 1..L |-> v[i]][k] = c[name]
            BY <3>2
        <3> QED BY <3>3 DEF k
    <2> DEFINE vs == [i \in 1..L |-> v[i]]
    <2>2. by_name(s, vs) = [name \in Names(s) |-> vs[CHOOSE i \in 1..L : s[i][1] = name]]
        BY DEF by_name
    <2>3. \A name \in Names(s) : vs[CHOOSE i \in 1..L : s[i][1] = name] = c[name]
        BY <2>1
    <2> HIDE DEF vs
    <2>4. by_name(s, vs) = [name \in Names(s) |-> c[name]]
        BY <2>2, <2>3
    <2> QED BY <2>4 DEF vs
<1>7. ASSUME NEW x \in Cells
      PROVE  /\ read_items(D, x) = Fails => read_record(s)[x] = Fails
             /\ \A r, w : read_items(D, x) = Passes(r, w) => read_record(s)[x] = Passes(r, by_name(s, w))
    BY RecordIs
<1> HIDE DEF D, L, E, v, G
<1>8. ASSUME NEW r \in Cells
      PROVE  read_record(s)[write_fields(s, c) \o r] =
                IF FieldsFit(s, c) THEN Passes(r, [name \in Names(s) |-> c[name]]) ELSE Fails
    <2> DEFINE x == Concatenated(E) \o r
               vs == [i \in 1..L |-> v[i]]
    <2>1. x \in Cells
        BY <1>1, <1>3, ConcatenatedCells, CellsJoin
    <2>2. read_items(D, x) = IF \A n \in 1..L : n \in G THEN Passes(r, vs) ELSE Fails
        <3>1. EachRead(D, E, v, G, L)
            BY <1>2 DEF EachRead
        <3> QED BY <1>1, <1>3, <3>1, ItemsRead
    <2> HIDE DEF x, vs
    <2>3. CASE FieldsFit(s, c)
        <3>1. read_items(D, x) = Passes(r, vs)
            BY <1>5, <2>2, <2>3
        <3>2. read_record(s)[x] = Passes(r, by_name(s, vs))
            BY <1>7, <2>1, <3>1
        <3> QED BY <1>4, <1>6, <2>3, <3>2 DEF x, vs
    <2>4. CASE ~FieldsFit(s, c)
        <3>1. read_items(D, x) = Fails
            BY <1>5, <2>2, <2>4
        <3>2. read_record(s)[x] = Fails
            BY <1>7, <2>1, <3>1
        <3> QED BY <1>4, <2>4, <3>2 DEF x
    <2> QED BY <2>3, <2>4
<1>9. write_fields(s, c) \in Cells
    BY <1>1, <1>3, <1>4, ConcatenatedCells
<1> QED BY <1>8, <1>9

\* The types the schemas use.
LEMMA TypesAre ==
    /\ \A S : FieldType(Num(S))
    /\ FieldType(Str) /\ FieldType(Val) /\ FieldType(OptVal) /\ FieldType(OptI64)
    /\ FieldType(U64) /\ FieldType(I64) /\ FieldType(NonNegative) /\ FieldType(Positive)
    /\ FieldType(UnitInterval)
<1>1. ASSUME NEW S PROVE FieldType(Num(S))
    <2>1. Num(S)[1] = "num"
        BY DEF Num
    <2> QED BY <2>1 DEF FieldType
<1>2. Str[1] = "str" /\ Val[1] = "value" /\ OptVal[1] = "optional value" /\ OptI64[1] = "optional number"
    BY DEF Str, Val, OptVal, OptI64
<1>3. FieldType(Str) /\ FieldType(Val) /\ FieldType(OptVal) /\ FieldType(OptI64)
    BY <1>2 DEF FieldType
<1> QED BY <1>1, <1>3 DEF U64, I64, NonNegative, Positive, UnitInterval

\* The seven schemas of the state.
LEMMA ObjectiveSchema == Schema(ObjectiveFields) /\ Distinct(ObjectiveFields)
<1> USE DEF ObjectiveFields
<1>1. Len(ObjectiveFields) = 22 /\ 22 \in Nat
    OBVIOUS
<1>2. \A i \in 1..22 : FieldType(ObjectiveFields[i][2])
    <2>1. /\ FieldType(ObjectiveFields[1][2]) /\ FieldType(ObjectiveFields[2][2]) /\ FieldType(ObjectiveFields[3][2])
          /\ FieldType(ObjectiveFields[4][2]) /\ FieldType(ObjectiveFields[5][2]) /\ FieldType(ObjectiveFields[6][2])
          /\ FieldType(ObjectiveFields[7][2]) /\ FieldType(ObjectiveFields[8][2]) /\ FieldType(ObjectiveFields[9][2])
          /\ FieldType(ObjectiveFields[10][2]) /\ FieldType(ObjectiveFields[11][2]) /\ FieldType(ObjectiveFields[12][2])
          /\ FieldType(ObjectiveFields[13][2]) /\ FieldType(ObjectiveFields[14][2]) /\ FieldType(ObjectiveFields[15][2])
          /\ FieldType(ObjectiveFields[16][2]) /\ FieldType(ObjectiveFields[17][2]) /\ FieldType(ObjectiveFields[18][2])
          /\ FieldType(ObjectiveFields[19][2]) /\ FieldType(ObjectiveFields[20][2]) /\ FieldType(ObjectiveFields[21][2])
          /\ FieldType(ObjectiveFields[22][2])
        BY TypesAre
    <2> HIDE DEF ObjectiveFields
    <2> QED BY <2>1
<1>3. \A i, j \in 1..22 : ObjectiveFields[i][1] = ObjectiveFields[j][1] => i = j
    <2> DEFINE names ==
            <<"id", "gen", "name", "dim", "kind", "comparison", "hard", "enforcement", "target",
              "breach_threshold", "recovery_threshold", "min_evidence", "allowed_uncertainty",
              "freshness_ttl", "grace_period", "window_type", "window_duration", "window_count",
              "priority", "percentile_rank", "availability_mode", "rate_tag">>
    <2>1. /\ ObjectiveFields[1][1] = names[1] /\ ObjectiveFields[2][1] = names[2] /\ ObjectiveFields[3][1] = names[3]
          /\ ObjectiveFields[4][1] = names[4] /\ ObjectiveFields[5][1] = names[5] /\ ObjectiveFields[6][1] = names[6]
          /\ ObjectiveFields[7][1] = names[7] /\ ObjectiveFields[8][1] = names[8] /\ ObjectiveFields[9][1] = names[9]
          /\ ObjectiveFields[10][1] = names[10] /\ ObjectiveFields[11][1] = names[11] /\ ObjectiveFields[12][1] = names[12]
          /\ ObjectiveFields[13][1] = names[13] /\ ObjectiveFields[14][1] = names[14] /\ ObjectiveFields[15][1] = names[15]
          /\ ObjectiveFields[16][1] = names[16] /\ ObjectiveFields[17][1] = names[17] /\ ObjectiveFields[18][1] = names[18]
          /\ ObjectiveFields[19][1] = names[19] /\ ObjectiveFields[20][1] = names[20] /\ ObjectiveFields[21][1] = names[21]
          /\ ObjectiveFields[22][1] = names[22]
        OBVIOUS
    <2>2. \A i, j \in 1..22 : names[i] = names[j] => i = j
        <3> HIDE DEF ObjectiveFields
        <3> QED OBVIOUS
    <2> HIDE DEF ObjectiveFields, names
    <2>3. \A i \in 1..22 : ObjectiveFields[i][1] = names[i]
        BY <2>1
    <2> SUFFICES ASSUME NEW i \in 1..22, NEW j \in 1..22, ObjectiveFields[i][1] = ObjectiveFields[j][1]
                 PROVE  i = j
        OBVIOUS
    <2>4. names[i] = names[j]
        BY <2>3
    <2> QED BY <2>2, <2>4
<1> HIDE DEF ObjectiveFields
<1> QED BY <1>1, <1>2, <1>3, Zenon DEF Schema, Distinct

LEMMA HeadSchema == Schema(ContractHead) /\ Distinct(ContractHead)
<1> USE DEF ContractHead
<1>1. Len(ContractHead) = 5 /\ 5 \in Nat
    OBVIOUS
<1>2. \A i \in 1..5 : FieldType(ContractHead[i][2])
    BY TypesAre
<1>3. \A i, j \in 1..5 : ContractHead[i][1] = ContractHead[j][1] => i = j
    OBVIOUS
<1> HIDE DEF ContractHead
<1> QED BY <1>1, <1>2, <1>3, Zenon DEF Schema, Distinct

LEMMA TailSchema == Schema(ContractTail) /\ Distinct(ContractTail)
<1> USE DEF ContractTail
<1>1. Len(ContractTail) = 8 /\ 8 \in Nat
    OBVIOUS
<1>2. \A i \in 1..8 : FieldType(ContractTail[i][2])
    BY TypesAre
<1>3. \A i, j \in 1..8 : ContractTail[i][1] = ContractTail[j][1] => i = j
    OBVIOUS
<1> HIDE DEF ContractTail
<1> QED BY <1>1, <1>2, <1>3, Zenon DEF Schema, Distinct

LEMMA PolicySchema == Schema(PolicyFields) /\ Distinct(PolicyFields)
<1> USE DEF PolicyFields
<1>1. Len(PolicyFields) = 6 /\ 6 \in Nat
    OBVIOUS
<1>2. \A i \in 1..6 : FieldType(PolicyFields[i][2])
    BY TypesAre
<1>3. \A i, j \in 1..6 : PolicyFields[i][1] = PolicyFields[j][1] => i = j
    OBVIOUS
<1> HIDE DEF PolicyFields
<1> QED BY <1>1, <1>2, <1>3, Zenon DEF Schema, Distinct

LEMMA ReceiptSchema == Schema(ReceiptFields) /\ Distinct(ReceiptFields)
<1> USE DEF ReceiptFields
<1>1. Len(ReceiptFields) = 15 /\ 15 \in Nat
    OBVIOUS
<1>2. \A i \in 1..15 : FieldType(ReceiptFields[i][2])
    BY TypesAre
<1>3. \A i, j \in 1..15 : ReceiptFields[i][1] = ReceiptFields[j][1] => i = j
    OBVIOUS
<1> HIDE DEF ReceiptFields
<1> QED BY <1>1, <1>2, <1>3, Zenon DEF Schema, Distinct

LEMMA ObjectiveStateSchema == Schema(ObjectiveStateFields) /\ Distinct(ObjectiveStateFields)
<1> USE DEF ObjectiveStateFields
<1>1. Len(ObjectiveStateFields) = 9 /\ 9 \in Nat
    OBVIOUS
<1>2. \A i \in 1..9 : FieldType(ObjectiveStateFields[i][2])
    BY TypesAre
<1>3. \A i, j \in 1..9 : ObjectiveStateFields[i][1] = ObjectiveStateFields[j][1] => i = j
    OBVIOUS
<1> HIDE DEF ObjectiveStateFields
<1> QED BY <1>1, <1>2, <1>3, Zenon DEF Schema, Distinct

LEMMA EvaluationSchema == Schema(EvaluationFields) /\ Distinct(EvaluationFields)
<1> USE DEF EvaluationFields
<1>1. Len(EvaluationFields) = 12 /\ 12 \in Nat
    OBVIOUS
<1>2. \A i \in 1..12 : FieldType(EvaluationFields[i][2])
    BY TypesAre
<1>3. \A i, j \in 1..12 : EvaluationFields[i][1] = EvaluationFields[j][1] => i = j
    OBVIOUS
<1> HIDE DEF EvaluationFields
<1> QED BY <1>1, <1>2, <1>3, Zenon DEF Schema, Distinct

\* The objectives of a contract and the two parts around them share no name.
LEMMA ContractNamesApart ==
    /\ "objectives" \notin Names(ContractHead)
    /\ \A name \in Names(ContractTail) : name \notin Names(ContractHead) /\ name # "objectives"
<1>1. Len(ContractHead) = 5 /\ Len(ContractTail) = 8
    BY DEF ContractHead, ContractTail
<1>2. \A i \in 1..5 : ContractHead[i][1] \in {"id", "gen", "service", "workload", "tenant"}
    BY DEF ContractHead
<1>3. \A i \in 1..8 : ContractTail[i][1] \notin {"id", "gen", "service", "workload", "tenant", "objectives"}
    BY DEF ContractTail
<1> QED BY <1>1, <1>2, <1>3 DEF Names

-----------------------------------------------------------------------------
(* Lists.                                                                  *)

\* The outcome of a list from its count and its items.
LEMMA ListIs ==
    ASSUME NEW d, NEW x \in Cells
    PROVE  /\ read_num(0..MaxCollectionItems)[x] = Fails => read_list(d)[x] = Fails
           /\ \A q, n : read_num(0..MaxCollectionItems)[x] = Passes(q, n) =>
                 read_list(d)[x] = read_items([i \in 1..n |-> d], q)
<1> DEFINE count == read_num(0..MaxCollectionItems)[x]
<1>1. read_list(d)[x] = IF count.ok THEN read_items([i \in 1..count.rec |-> d], count.rest) ELSE Fails
    BY DEF read_list
<1> HIDE DEF count
<1>2. count = Fails => ~count.ok
    BY CursorFields
<1>3. ASSUME NEW q, NEW n, count = Passes(q, n)
      PROVE  read_list(d)[x] = read_items([i \in 1..n |-> d], q)
    <2>1. count.ok /\ count.rest = q /\ count.rec = n
        BY <1>3, CursorFields
    <2> QED BY <1>1, <2>1, Zenon
<1>4. count = Fails => read_list(d)[x] = Fails
    BY <1>1, <1>2, Zenon
<1> QED BY <1>3, <1>4 DEF count

\* As many items as the count says, each one its decoder gave.
GivenList(d, w) ==
    \E n \in 0..MaxCollectionItems :
        w = [i \in 1..n |-> w[i]] /\ \A i \in 1..n : \E c, s \in Cells : d[c] = Passes(s, w[i])

\* A list read is no longer than the cap, each item one its decoder gave.
LEMMA ListDecodes ==
    ASSUME NEW d, Decoder(d), Delimits(d)
    PROVE  /\ Decoder(read_list(d)) /\ Delimits(read_list(d))
           /\ \A x, r \in Cells : \A w : read_list(d)[x] = Passes(r, w) => GivenList(d, w)
<1> DEFINE num == read_num(0..MaxCollectionItems)
           items(n) == [i \in 1..n |-> d]
<1>1. Decoder(num) /\ Delimits(num) /\ \A x, r \in Cells : \A v : num[x] = Passes(r, v) => v \in 0..MaxCollectionItems
    BY NumDecodes
<1>2. ASSUME NEW x \in Cells
      PROVE  /\ num[x] = Fails => read_list(d)[x] = Fails
             /\ \A q, n : num[x] = Passes(q, n) => read_list(d)[x] = read_items(items(n), q)
    BY ListIs
<1>3. ASSUME NEW n \in 0..MaxCollectionItems
      PROVE  n \in Nat /\ Len(items(n)) = n /\ \A i \in 1..n : items(n)[i] = d
    BY CodecAssumption
<1> HIDE DEF num, items
<1>4. ASSUME NEW x \in Cells
      PROVE  num[x] = Fails \/ \E q \in Cells, n \in 0..MaxCollectionItems : num[x] = Passes(q, n)
    BY <1>1, Zenon DEF Decoder
<1>5. ASSUME NEW x \in Cells, NEW y \in Cells
      PROVE  \/ read_list(d)[x] = Fails
             \/ \E r \in Cells : \E w : /\ read_list(d)[x] = Passes(r, w)
                                        /\ read_list(d)[x \o y] = Passes(r \o y, w)
    <2>1. CASE num[x] = Fails
        BY <1>2, <2>1
    <2>2. CASE \E q \in Cells, n \in 0..MaxCollectionItems : num[x] = Passes(q, n)
        <3>1. PICK q \in Cells, n \in 0..MaxCollectionItems : num[x] = Passes(q, n)
            BY <2>2
        <3>2. num[x \o y] = Passes(q \o y, n) /\ x \o y \in Cells
            BY <1>1, <3>1, CellsJoin DEF Delimits
        <3>3. read_list(d)[x] = read_items(items(n), q) /\ read_list(d)[x \o y] = read_items(items(n), q \o y)
            BY <1>2, <3>1, <3>2
        <3>4. \/ read_items(items(n), q) = Fails
              \/ \E r \in Cells : \E w : /\ read_items(items(n), q) = Passes(r, w)
                                         /\ read_items(items(n), q \o y) = Passes(r \o y, w)
            BY <1>3, ItemsDelimit
        <3> QED BY <3>3, <3>4
    <2> QED BY <1>4, <2>1, <2>2
<1>6. Decoder(read_list(d))
    BY <1>5 DEF Decoder
<1>7. ASSUME NEW x \in Cells, NEW y \in Cells, NEW r \in Cells, NEW v, read_list(d)[x] = Passes(r, v)
      PROVE  read_list(d)[x \o y] = Passes(r \o y, v)
    <2>1. read_list(d)[x] # Fails
        BY <1>7, CursorFields
    <2>2. PICK q, w : q \in Cells /\ read_list(d)[x] = Passes(q, w) /\ read_list(d)[x \o y] = Passes(q \o y, w)
        BY <1>5, <2>1
    <2>3. Passes(r, v) = Passes(q, w)
        BY <1>7, <2>2
    <2>4. r = q /\ v = w
        BY <2>3, PassesOnce
    <2> QED BY <2>2, <2>4
<1>8. ASSUME NEW x \in Cells, NEW r \in Cells, NEW v, read_list(d)[x] = Passes(r, v)
      PROVE  GivenList(d, v)
    <2>1. read_list(d)[x] # Fails
        BY <1>8, CursorFields
    <2>2. PICK q \in Cells, n \in 0..MaxCollectionItems : num[x] = Passes(q, n)
        BY <1>2, <1>4, <2>1
    <2>3. read_items(items(n), q) = Passes(r, v)
        BY <1>2, <1>8, <2>2
    <2>4. read_items(items(n), q) # Fails
        BY <2>3, CursorFields
    <2>5. PICK z, w :
              /\ z \in Cells
              /\ read_items(items(n), q) = Passes(z, w)
              /\ w = [i \in 1..n |-> w[i]]
              /\ \A i \in 1..n : \E c, s \in Cells : items(n)[i][c] = Passes(s, w[i])
        BY <1>3, <2>4, ItemsGiven
    <2>6. Passes(r, v) = Passes(z, w)
        BY <2>3, <2>5
    <2>7. v = w
        BY <2>6, PassesOnce
    <2>8. \A i \in 1..n : \E c, s \in Cells : d[c] = Passes(s, w[i])
        BY <1>3, <2>5
    <2> QED BY <2>5, <2>7, <2>8 DEF GivenList
<1> QED BY <1>6, <1>7, <1>8 DEF Delimits

\* One decoder reads the encoding of each item back as v[i], if it is good.
AllRead(d, E, v, G, L) ==
    \A i \in 1..L : /\ E[i] \in Cells
                   /\ \A r \in Cells : d[E[i] \o r] = IF i \in G THEN Passes(r, v[i]) ELSE Fails

\* Then the list of them is read back as it is, if it is not too long.
ListRead(d, E, v, G, L) ==
    /\ write_list(E) \in Cells
    /\ \A r \in Cells : read_list(d)[write_list(E) \o r] =
          IF L <= MaxCollectionItems /\ \A i \in 1..L : i \in G
          THEN Passes(r, [i \in 1..L |-> v[i]]) ELSE Fails

\* A list is read back if it is not too long and each item is good.
LEMMA ListReads ==
    ASSUME NEW d, Decoder(d), NEW L \in Nat, NEW E \in [1..L -> Cells], NEW v, NEW G,
           AllRead(d, E, v, G, L)
    PROVE  ListRead(d, E, v, G, L)
<1> DEFINE h == <<L>>
           body == Concatenated(E)
           D == [i \in 1..L |-> d]
           vs == [i \in 1..L |-> v[i]]
<1>1. h \in Cells /\ body \in Cells
    BY ConcatenatedCells DEF Cells
<1>2. write_list(E) = h \o body
    BY DEF write_list
<1>3. Len(D) = L /\ EachRead(D, E, v, G, L)
    BY DEF EachRead, AllRead
<1> HIDE DEF D, body
<1>4. ASSUME NEW r \in Cells
      PROVE  read_items(D, body \o r) = IF \A i \in 1..L : i \in G THEN Passes(r, vs) ELSE Fails
    BY <1>3, ItemsRead DEF body
<1> HIDE DEF vs
<1>5. ASSUME NEW r \in Cells
      PROVE  read_list(d)[(h \o body) \o r] =
                 IF L <= MaxCollectionItems /\ \A i \in 1..L : i \in G THEN Passes(r, vs) ELSE Fails
    <2> DEFINE q == body \o r
               x == h \o q
    <2>1. q \in Cells
        BY <1>1, CellsJoin
    <2>2. x \in Cells /\ (h \o body) \o r = x
        <3> HIDE DEF h
        <3>1. (h \o body) \o r = h \o (body \o r)
            BY <1>1, CellsAssociate, ZenonT(60)
        <3>2. x \in Cells
            <4> HIDE DEF q
            <4> QED BY <1>1, <2>1, CellsJoin
        <3> QED BY <3>1, <3>2
    <2> HIDE DEF q
    <2>3. read_num(0..MaxCollectionItems)[x] = IF L \in 0..MaxCollectionItems THEN Passes(q, L) ELSE Fails
        <3> DEFINE set == 0..MaxCollectionItems
        <3>1. L \in Int
            OBVIOUS
        <3> HIDE DEF set
        <3>2. read_num(set)[<<L>> \o q] = IF L \in set THEN Passes(q, L) ELSE Fails
            BY <2>1, <3>1, NumReads
        <3> QED BY <3>2 DEF set
    <2>4. L \in 0..MaxCollectionItems <=> L <= MaxCollectionItems
        BY CodecAssumption
    <2> HIDE DEF x
    <2>5. CASE L \in 0..MaxCollectionItems
        <3>1. read_num(0..MaxCollectionItems)[x] = Passes(q, L)
            BY <2>3, <2>5
        <3>2. read_list(d)[x] = read_items(D, q)
            BY <2>2, <3>1, ListIs DEF D
        <3> QED BY <1>4, <2>2, <2>4, <2>5, <3>2 DEF q
    <2>6. CASE L \notin 0..MaxCollectionItems
        <3>1. read_num(0..MaxCollectionItems)[x] = Fails
            BY <2>3, <2>6
        <3>2. read_list(d)[x] = Fails
            BY <2>2, <3>1, ListIs
        <3> QED BY <2>2, <2>4, <2>6, <3>2
    <2> QED BY <2>5, <2>6
<1>6. h \o body \in Cells
    <2> HIDE DEF h
    <2> QED BY <1>1, CellsJoin
<1> HIDE DEF h
<1> QED BY <1>2, <1>5, <1>6 DEF vs, ListRead

\* A list is a function on 1..Len.
LEMMA ListIsSeq ==
    ASSUME NEW l, IsSeq(l)
    PROVE  Len(l) \in Nat /\ l = [i \in 1..Len(l) |-> l[i]]
<1> DEFINE S == {l[i] : i \in DOMAIN l}
<1>1. l \in Seq(S)
    BY DEF IsSeq
<1> HIDE DEF S
<1> QED BY <1>1

\* A list of records is read back if it is not too long and each of them fits.
LEMMA RecordListReads ==
    ASSUME NEW s, Schema(s), NEW l, IsListOf(s, l), NEW E, E = [i \in 1..Len(l) |-> write_fields(s, l[i])]
    PROVE  /\ write_list(E) \in Cells
           /\ \A r \in Cells : read_list(read_record(s))[write_list(E) \o r] =
                 IF ListFits(s, l) THEN Passes(r, l) ELSE Fails
<1> DEFINE L == Len(l)
           d == read_record(s)
           G == {i \in 1..L : FieldsFit(s, l[i])}
<1>1. L \in Nat /\ l = [i \in 1..L |-> l[i]]
    BY ListIsSeq DEF IsListOf
<1>2. Decoder(d)
    BY RecordDecodes
<1>3. ASSUME NEW i \in 1..L
      PROVE  /\ E[i] \in Cells
             /\ \A r \in Cells : d[E[i] \o r] = IF i \in G THEN Passes(r, l[i]) ELSE Fails
    <2>1. FieldsAre(s, l[i]) /\ l[i] = [name \in Names(s) |-> l[i][name]]
        BY DEF IsListOf, IsRecord
    <2>2. E[i] = write_fields(s, l[i]) /\ (i \in G <=> FieldsFit(s, l[i]))
        OBVIOUS
    <2> HIDE DEF d, G
    <2>3. /\ write_fields(s, l[i]) \in Cells
          /\ \A r \in Cells : d[write_fields(s, l[i]) \o r] =
                IF FieldsFit(s, l[i]) THEN Passes(r, [name \in Names(s) |-> l[i][name]]) ELSE Fails
        BY <2>1, RecordReads DEF d
    <2> QED BY <2>1, <2>2, <2>3
<1>4. E \in [1..L -> Cells]
    BY <1>3
<1>5. ListFits(s, l) <=> L <= MaxCollectionItems /\ \A i \in 1..L : i \in G
    BY DEF ListFits
<1> HIDE DEF d, G
<1>6. ListRead(d, E, l, G, L)
    <2> HIDE DEF L
    <2>1. AllRead(d, E, l, G, L)
        BY <1>3 DEF AllRead
    <2>2. L \in Nat
        BY <1>1
    <2> QED BY <1>2, <1>4, <2>1, <2>2, ListReads
<1> QED BY <1>1, <1>5, <1>6 DEF d, ListRead

\* A list of records delimits itself, and each of the records fits.
LEMMA RecordListDecodes ==
    ASSUME NEW s, Schema(s), Distinct(s)
    PROVE  /\ Decoder(read_list(read_record(s))) /\ Delimits(read_list(read_record(s)))
           /\ \A x, r \in Cells : \A w : read_list(read_record(s))[x] = Passes(r, w) => ListFits(s, w)
<1> DEFINE d == read_record(s)
<1>1. /\ Decoder(d) /\ Delimits(d)
      /\ \A x, r \in Cells : \A v : d[x] = Passes(r, v) => FieldsFit(s, v)
    BY RecordDecodes
<1> HIDE DEF d
<1>2. /\ Decoder(read_list(d)) /\ Delimits(read_list(d))
      /\ \A x, r \in Cells : \A w : read_list(d)[x] = Passes(r, w) => GivenList(d, w)
    BY <1>1, ListDecodes
<1>3. ASSUME NEW w, GivenList(d, w)
      PROVE  ListFits(s, w)
    <2>1. PICK n \in 0..MaxCollectionItems :
              w = [i \in 1..n |-> w[i]] /\ \A i \in 1..n : \E c, z \in Cells : d[c] = Passes(z, w[i])
        BY <1>3 DEF GivenList
    <2>2. Len(w) = n /\ n <= MaxCollectionItems
        BY <2>1, CodecAssumption
    <2>3. \A i \in 1..n : FieldsFit(s, w[i])
        BY <1>1, <2>1
    <2> QED BY <2>2, <2>3 DEF ListFits
<1> QED BY <1>2, <1>3 DEF d

\* The outcome of an objective from that of its record.
LEMMA ObjectiveIs ==
    ASSUME NEW x \in Cells
    PROVE  /\ read_record(ObjectiveFields)[x] = Fails => decode_objective[x] = Fails
           /\ \A r, o : read_record(ObjectiveFields)[x] = Passes(r, o) =>
                 decode_objective[x] = IF target_unit_matches_dimension(o) THEN Passes(r, o) ELSE Fails
<1> DEFINE c == read_record(ObjectiveFields)[x]
<1>1. decode_objective[x] = IF c.ok /\ target_unit_matches_dimension(c.rec) THEN c ELSE Fails
    BY DEF decode_objective
<1> HIDE DEF c
<1>2. c = Fails => ~c.ok
    BY CursorFields
<1>3. ASSUME NEW r, NEW o, c = Passes(r, o)
      PROVE  decode_objective[x] = IF target_unit_matches_dimension(o) THEN Passes(r, o) ELSE Fails
    <2>1. c.ok /\ c.rec = o
        BY <1>3, CursorFields
    <2> QED BY <1>1, <1>3, <2>1, Zenon
<1>4. c = Fails => decode_objective[x] = Fails
    BY <1>1, <1>2, Zenon
<1> QED BY <1>3, <1>4 DEF c

\* An objective read keeps its bounds and has a target of its unit.
LEMMA ObjectiveDecodes ==
    /\ Decoder(decode_objective) /\ Delimits(decode_objective)
    /\ \A x, r \in Cells : \A o : decode_objective[x] = Passes(r, o) =>
          FieldsFit(ObjectiveFields, o) /\ target_unit_matches_dimension(o)
<1> DEFINE d == read_record(ObjectiveFields)
<1>1. /\ Decoder(d) /\ Delimits(d)
      /\ \A x, r \in Cells : \A v : d[x] = Passes(r, v) => FieldsFit(ObjectiveFields, v)
    BY ObjectiveSchema, RecordDecodes
<1>2. ASSUME NEW x \in Cells
      PROVE  /\ d[x] = Fails => decode_objective[x] = Fails
             /\ \A r, o : d[x] = Passes(r, o) =>
                   decode_objective[x] = IF target_unit_matches_dimension(o) THEN Passes(r, o) ELSE Fails
    BY ObjectiveIs
<1> HIDE DEF d
<1>3. ASSUME NEW x \in Cells
      PROVE  \/ decode_objective[x] = Fails
             \/ \E r \in Cells : \E o : d[x] = Passes(r, o) /\ target_unit_matches_dimension(o)
                                    /\ decode_objective[x] = Passes(r, o)
    <2>1. d[x] = Fails \/ \E r \in Cells : \E o : d[x] = Passes(r, o)
        BY <1>1, Zenon DEF Decoder
    <2>2. CASE d[x] = Fails
        BY <1>2, <2>2
    <2>3. CASE \E r \in Cells : \E o : d[x] = Passes(r, o)
        <3>1. PICK r, o : r \in Cells /\ d[x] = Passes(r, o)
            BY <2>3
        <3>2. decode_objective[x] = IF target_unit_matches_dimension(o) THEN Passes(r, o) ELSE Fails
            BY <1>2, <3>1
        <3> QED BY <3>1, <3>2
    <2> QED BY <2>1, <2>2, <2>3
<1>4. Decoder(decode_objective)
    BY <1>3 DEF Decoder
<1>5. ASSUME NEW x \in Cells, NEW r \in Cells, NEW o, decode_objective[x] = Passes(r, o)
      PROVE  d[x] = Passes(r, o) /\ target_unit_matches_dimension(o)
    <2>1. decode_objective[x] # Fails
        BY <1>5, CursorFields
    <2>2. PICK q, w : q \in Cells /\ d[x] = Passes(q, w) /\ target_unit_matches_dimension(w)
                                /\ decode_objective[x] = Passes(q, w)
        BY <1>3, <2>1
    <2>3. Passes(r, o) = Passes(q, w)
        BY <1>5, <2>2
    <2>4. r = q /\ o = w
        BY <2>3, PassesOnce
    <2> QED BY <2>2, <2>4
<1>6. ASSUME NEW x \in Cells, NEW y \in Cells, NEW r \in Cells, NEW o, decode_objective[x] = Passes(r, o)
      PROVE  decode_objective[x \o y] = Passes(r \o y, o)
    <2>1. d[x] = Passes(r, o) /\ target_unit_matches_dimension(o)
        BY <1>5, <1>6
    <2>2. d[x \o y] = Passes(r \o y, o) /\ x \o y \in Cells
        BY <1>1, <2>1, CellsJoin DEF Delimits
    <2> QED BY <1>2, <2>1, <2>2
<1>7. ASSUME NEW x \in Cells, NEW r \in Cells, NEW o, decode_objective[x] = Passes(r, o)
      PROVE  FieldsFit(ObjectiveFields, o) /\ target_unit_matches_dimension(o)
    BY <1>1, <1>5, <1>7
<1> QED BY <1>4, <1>6, <1>7 DEF Delimits

\* The objectives of a contract.
ObjectivesFit(l) ==
    ListFits(ObjectiveFields, l) /\ \A i \in 1..Len(l) : target_unit_matches_dimension(l[i])

\* Objectives are read back if they fit.
LEMMA ObjectivesRead ==
    ASSUME NEW l, IsListOf(ObjectiveFields, l), NEW E, E = [i \in 1..Len(l) |-> encode_objective(l[i])]
    PROVE  /\ write_list(E) \in Cells
           /\ \A r \in Cells : read_list(decode_objective)[write_list(E) \o r] =
                 IF ObjectivesFit(l) THEN Passes(r, l) ELSE Fails
<1> DEFINE L == Len(l)
           s == ObjectiveFields
           G == {i \in 1..L : FieldsFit(s, l[i]) /\ target_unit_matches_dimension(l[i])}
<1>1. L \in Nat /\ l = [i \in 1..L |-> l[i]]
    BY ListIsSeq DEF IsListOf
<1>2. Decoder(decode_objective)
    BY ObjectiveDecodes
<1>3. ASSUME NEW i \in 1..L
      PROVE  /\ E[i] \in Cells
             /\ \A r \in Cells : decode_objective[E[i] \o r] = IF i \in G THEN Passes(r, l[i]) ELSE Fails
    <2>1. FieldsAre(s, l[i]) /\ l[i] = [name \in Names(s) |-> l[i][name]]
        BY DEF IsListOf, IsRecord
    <2>2. E[i] = write_fields(s, l[i])
        BY DEF encode_objective
    <2>3. i \in G <=> FieldsFit(s, l[i]) /\ target_unit_matches_dimension(l[i])
        OBVIOUS
    <2> HIDE DEF G, s
    <2>4. /\ write_fields(s, l[i]) \in Cells
          /\ \A r \in Cells : read_record(s)[write_fields(s, l[i]) \o r] =
                IF FieldsFit(s, l[i]) THEN Passes(r, [name \in Names(s) |-> l[i][name]]) ELSE Fails
        BY <2>1, ObjectiveSchema, RecordReads DEF s
    <2>5. ASSUME NEW r \in Cells
          PROVE  decode_objective[E[i] \o r] = IF i \in G THEN Passes(r, l[i]) ELSE Fails
        <3> DEFINE x == E[i] \o r
        <3>1. x \in Cells
            BY <2>2, <2>4, CellsJoin
        <3>2. read_record(s)[x] = IF FieldsFit(s, l[i]) THEN Passes(r, l[i]) ELSE Fails
            BY <2>1, <2>2, <2>4
        <3> HIDE DEF x
        <3>3. CASE FieldsFit(s, l[i])
            <4>1. read_record(s)[x] = Passes(r, l[i])
                BY <3>2, <3>3
            <4>2. decode_objective[x] = IF target_unit_matches_dimension(l[i]) THEN Passes(r, l[i]) ELSE Fails
                BY <3>1, <4>1, ObjectiveIs DEF s
            <4> QED BY <2>3, <3>3, <4>2 DEF x
        <3>4. CASE ~FieldsFit(s, l[i])
            <4>1. read_record(s)[x] = Fails
                BY <3>2, <3>4
            <4>2. decode_objective[x] = Fails
                BY <3>1, <4>1, ObjectiveIs DEF s
            <4> QED BY <2>3, <3>4, <4>2 DEF x
        <3> QED BY <3>3, <3>4
    <2> QED BY <2>2, <2>4, <2>5
<1>4. E \in [1..L -> Cells]
    BY <1>3
<1>5. ObjectivesFit(l) <=> L <= MaxCollectionItems /\ \A i \in 1..L : i \in G
    BY DEF ObjectivesFit, ListFits
<1> HIDE DEF G, L
<1>6. ListRead(decode_objective, E, l, G, L)
    <2>1. AllRead(decode_objective, E, l, G, L)
        BY <1>3 DEF AllRead
    <2>2. L \in Nat
        BY <1>1
    <2> QED BY <1>2, <1>4, <2>1, <2>2, ListReads
<1> QED BY <1>1, <1>5, <1>6 DEF ListRead

\* Objectives read fit.
LEMMA ObjectivesDecode ==
    /\ Decoder(read_list(decode_objective)) /\ Delimits(read_list(decode_objective))
    /\ \A x, r \in Cells : \A w : read_list(decode_objective)[x] = Passes(r, w) => ObjectivesFit(w)
<1>1. /\ Decoder(read_list(decode_objective)) /\ Delimits(read_list(decode_objective))
      /\ \A x, r \in Cells : \A w : read_list(decode_objective)[x] = Passes(r, w) => GivenList(decode_objective, w)
    BY ObjectiveDecodes, ListDecodes
<1>2. ASSUME NEW w, GivenList(decode_objective, w)
      PROVE  ObjectivesFit(w)
    <2>1. PICK n \in 0..MaxCollectionItems :
              /\ w = [i \in 1..n |-> w[i]]
              /\ \A i \in 1..n : \E c, z \in Cells : decode_objective[c] = Passes(z, w[i])
        BY <1>2 DEF GivenList
    <2>2. Len(w) = n /\ n <= MaxCollectionItems
        BY <2>1, CodecAssumption
    <2>3. \A i \in 1..n : FieldsFit(ObjectiveFields, w[i]) /\ target_unit_matches_dimension(w[i])
        BY <2>1, ObjectiveDecodes
    <2> QED BY <2>2, <2>3 DEF ObjectivesFit, ListFits
<1> QED BY <1>1, <1>2

-----------------------------------------------------------------------------
(* Contracts.                                                              *)

\* The three parts of a contract.
ContractDecoders ==
    <<read_record(ContractHead), read_list(decode_objective), read_record(ContractTail)>>

\* Each of the three delimits itself.
LEMMA ContractParts ==
    /\ Len(ContractDecoders) = 3
    /\ ContractDecoders[1] = read_record(ContractHead)
    /\ ContractDecoders[2] = read_list(decode_objective)
    /\ ContractDecoders[3] = read_record(ContractTail)
    /\ \A n \in 1..3 : Decoder(ContractDecoders[n]) /\ Delimits(ContractDecoders[n])
<1>1. /\ Len(ContractDecoders) = 3
      /\ ContractDecoders[1] = read_record(ContractHead)
      /\ ContractDecoders[2] = read_list(decode_objective)
      /\ ContractDecoders[3] = read_record(ContractTail)
    BY DEF ContractDecoders
<1>2. Decoder(read_record(ContractHead)) /\ Delimits(read_record(ContractHead))
    BY HeadSchema, RecordDecodes
<1>3. Decoder(read_record(ContractTail)) /\ Delimits(read_record(ContractTail))
    BY TailSchema, RecordDecodes
<1>4. ASSUME NEW n \in 1..3
      PROVE  n = 1 \/ n = 2 \/ n = 3
    OBVIOUS
<1> QED BY <1>1, <1>2, <1>3, <1>4, ObjectivesDecode, Zenon

\* The outcome of a contract from that of its parts.
LEMMA ContractIs ==
    ASSUME NEW x \in Cells
    PROVE  /\ read_items(ContractDecoders, x) = Fails => decode_contract[x] = Fails
           /\ \A r, w : read_items(ContractDecoders, x) = Passes(r, w) =>
                 decode_contract[x] = Passes(r, contract_of(w))
<1> DEFINE c == read_items(ContractDecoders, x)
<1>1. decode_contract[x] = IF c.ok THEN Passes(c.rest, contract_of(c.rec)) ELSE Fails
    BY DEF decode_contract, ContractDecoders
<1> HIDE DEF c
<1>2. c = Fails => ~c.ok
    BY CursorFields
<1>3. ASSUME NEW r, NEW w, c = Passes(r, w)
      PROVE  c.ok /\ c.rest = r /\ c.rec = w
    BY <1>3, CursorFields
<1>4. c = Fails => decode_contract[x] = Fails
    BY <1>1, <1>2, Zenon
<1>5. ASSUME NEW r, NEW w, c = Passes(r, w)
      PROVE  decode_contract[x] = Passes(r, contract_of(w))
    BY <1>1, <1>3, <1>5, Zenon
<1> QED BY <1>4, <1>5 DEF c

\* The fields of a contract are those of its parts.
LEMMA ContractOf ==
    ASSUME NEW w
    PROVE  /\ \A i \in 1..Len(ContractHead) : contract_of(w)[ContractHead[i][1]] = w[1][ContractHead[i][1]]
           /\ \A i \in 1..Len(ContractTail) : contract_of(w)[ContractTail[i][1]] = w[3][ContractTail[i][1]]
           /\ contract_of(w).objectives = w[2]
           /\ contract_of(w) = [name \in ContractNames |-> contract_of(w)[name]]
<1> DEFINE c == contract_of(w)
<1>1. ASSUME NEW name \in Names(ContractHead)
      PROVE  c[name] = w[1][name]
    <2>1. name \in ContractNames
        BY DEF ContractNames
    <2> QED BY <2>1, ContractNamesApart DEF contract_of
<1>2. c["objectives"] = w[2]
    BY ContractNamesApart DEF contract_of, ContractNames
<1>3. ASSUME NEW name \in Names(ContractTail)
      PROVE  c[name] = w[3][name]
    BY <1>3, ContractNamesApart DEF contract_of, ContractNames
<1>4. c = [name \in ContractNames |-> c[name]]
    BY DEF contract_of
<1>5. \A i \in 1..Len(ContractHead) : ContractHead[i][1] \in Names(ContractHead)
    BY DEF Names
<1>6. \A i \in 1..Len(ContractTail) : ContractTail[i][1] \in Names(ContractTail)
    BY DEF Names
<1> HIDE DEF c
<1>7. c.objectives = c["objectives"]
    OBVIOUS
<1> QED BY <1>1, <1>2, <1>3, <1>4, <1>5, <1>6, <1>7 DEF c

\* A contract read fits.
LEMMA ContractDecodes ==
    /\ Decoder(decode_contract) /\ Delimits(decode_contract)
    /\ \A x, r \in Cells : \A v : decode_contract[x] = Passes(r, v) => ContractFits(v)
<1> DEFINE D == ContractDecoders
<1>1. /\ Len(D) = 3 /\ 3 \in Nat /\ \A n \in 1..3 : Decoder(D[n]) /\ Delimits(D[n])
      /\ D[1] = read_record(ContractHead) /\ D[2] = read_list(decode_objective) /\ D[3] = read_record(ContractTail)
    BY ContractParts
<1>2. ASSUME NEW x \in Cells
      PROVE  /\ read_items(D, x) = Fails => decode_contract[x] = Fails
             /\ \A r, w : read_items(D, x) = Passes(r, w) => decode_contract[x] = Passes(r, contract_of(w))
    BY ContractIs
<1> HIDE DEF D
<1>3. ASSUME NEW x \in Cells, NEW y \in Cells
      PROVE  \/ decode_contract[x] = Fails
             \/ \E r \in Cells : \E w : /\ decode_contract[x] = Passes(r, w)
                                        /\ decode_contract[x \o y] = Passes(r \o y, w)
    <2>1. CASE read_items(D, x) = Fails
        BY <1>2, <2>1
    <2>2. CASE \E r \in Cells : \E w : /\ read_items(D, x) = Passes(r, w)
                                       /\ read_items(D, x \o y) = Passes(r \o y, w)
        <3>1. PICK r, w : r \in Cells /\ read_items(D, x) = Passes(r, w) /\ read_items(D, x \o y) = Passes(r \o y, w)
            BY <2>2
        <3>2. x \o y \in Cells
            BY CellsJoin
        <3>3. /\ decode_contract[x] = Passes(r, contract_of(w))
              /\ decode_contract[x \o y] = Passes(r \o y, contract_of(w))
            BY <1>2, <3>1, <3>2
        <3> QED BY <3>1, <3>3
    <2> DEFINE L == 3
    <2>3. L \in Nat /\ Len(D) = L /\ \A n \in 1..L : Decoder(D[n]) /\ Delimits(D[n])
        BY <1>1
    <2> HIDE DEF L
    <2> QED BY <2>1, <2>2, <2>3, ItemsDelimit
<1>4. Decoder(decode_contract)
    BY <1>3 DEF Decoder
<1>5. ASSUME NEW x \in Cells, NEW y \in Cells, NEW r \in Cells, NEW v, decode_contract[x] = Passes(r, v)
      PROVE  decode_contract[x \o y] = Passes(r \o y, v)
    <2>1. decode_contract[x] # Fails
        BY <1>5, CursorFields
    <2>2. PICK q, w : q \in Cells /\ decode_contract[x] = Passes(q, w) /\ decode_contract[x \o y] = Passes(q \o y, w)
        BY <1>3, <2>1
    <2>3. Passes(r, v) = Passes(q, w)
        BY <1>5, <2>2
    <2>4. r = q /\ v = w
        BY <2>3, PassesOnce
    <2> QED BY <2>2, <2>4
<1>6. ASSUME NEW x \in Cells, NEW r \in Cells, NEW v, decode_contract[x] = Passes(r, v)
      PROVE  ContractFits(v)
    <2>1. read_items(D, x) # Fails
        BY <1>2, <1>6, CursorFields
    <2>2. PICK q, w :
              /\ q \in Cells
              /\ read_items(D, x) = Passes(q, w)
              /\ \A i \in 1..3 : \E c, z \in Cells : D[i][c] = Passes(z, w[i])
        <3> DEFINE L == 3
        <3>1. L \in Nat /\ Len(D) = L /\ \A n \in 1..L : Decoder(D[n])
            BY <1>1
        <3> HIDE DEF L
        <3>2. \E q \in Cells : \E w :
                 /\ read_items(D, x) = Passes(q, w)
                 /\ \A i \in 1..L : \E c, z \in Cells : D[i][c] = Passes(z, w[i])
            BY <2>1, <3>1, ItemsGiven
        <3> QED BY <3>2 DEF L
    <2>3. Passes(r, v) = Passes(q, contract_of(w))
        BY <1>2, <1>6, <2>2
    <2>4. v = contract_of(w)
        BY <2>3, PassesOnce
    <2>5. /\ \E c, z \in Cells : read_record(ContractHead)[c] = Passes(z, w[1])
          /\ \E c, z \in Cells : read_list(decode_objective)[c] = Passes(z, w[2])
          /\ \E c, z \in Cells : read_record(ContractTail)[c] = Passes(z, w[3])
        BY <1>1, <2>2
    <2>6. FieldsFit(ContractHead, w[1])
        BY <2>5, HeadSchema, RecordDecodes
    <2>7. FieldsFit(ContractTail, w[3])
        BY <2>5, TailSchema, RecordDecodes
    <2>8. ObjectivesFit(w[2])
        BY <2>5, ObjectivesDecode
    <2>9. FieldsFit(ContractHead, v)
        BY <2>4, <2>6, ContractOf DEF FieldsFit
    <2>10. FieldsFit(ContractTail, v)
        BY <2>4, <2>7, ContractOf DEF FieldsFit
    <2>11. v.objectives = w[2]
        BY <2>4, ContractOf
    <2> QED BY <2>8, <2>9, <2>10, <2>11 DEF ContractFits, ObjectivesFit
<1> QED BY <1>4, <1>5, <1>6 DEF Delimits

\* A contract is read back if it fits.
LEMMA ContractReads ==
    ASSUME NEW c, IsContract(c)
    PROVE  /\ encode_contract(c) \in Cells
           /\ \A r \in Cells : decode_contract[encode_contract(c) \o r] =
                 IF ContractFits(c) THEN Passes(r, c) ELSE Fails
<1> DEFINE os == [i \in 1..Len(c.objectives) |-> encode_objective(c.objectives[i])]
           E == <<write_fields(ContractHead, c), write_list(os), write_fields(ContractTail, c)>>
           v == <<[name \in Names(ContractHead) |-> c[name]], c.objectives,
                  [name \in Names(ContractTail) |-> c[name]]>>
           G == {i \in 1..3 : /\ i = 1 => FieldsFit(ContractHead, c)
                              /\ i = 2 => ObjectivesFit(c.objectives)
                              /\ i = 3 => FieldsFit(ContractTail, c)}
           D == ContractDecoders
<1>1. /\ write_fields(ContractHead, c) \in Cells
      /\ \A r \in Cells : read_record(ContractHead)[write_fields(ContractHead, c) \o r] =
            IF FieldsFit(ContractHead, c) THEN Passes(r, [name \in Names(ContractHead) |-> c[name]]) ELSE Fails
    BY HeadSchema, RecordReads DEF IsContract
<1>2. /\ write_fields(ContractTail, c) \in Cells
      /\ \A r \in Cells : read_record(ContractTail)[write_fields(ContractTail, c) \o r] =
            IF FieldsFit(ContractTail, c) THEN Passes(r, [name \in Names(ContractTail) |-> c[name]]) ELSE Fails
    BY TailSchema, RecordReads DEF IsContract
<1>3. /\ write_list(os) \in Cells
      /\ \A r \in Cells : read_list(decode_objective)[write_list(os) \o r] =
            IF ObjectivesFit(c.objectives) THEN Passes(r, c.objectives) ELSE Fails
    BY ObjectivesRead DEF IsContract
<1>4. encode_contract(c) = Concatenated(E)
    BY DEF encode_contract, Encoded
<1>5. /\ E[1] = write_fields(ContractHead, c) /\ E[2] = write_list(os) /\ E[3] = write_fields(ContractTail, c)
      /\ E = [i \in 1..3 |-> E[i]]
    <2> HIDE DEF os
    <2> QED OBVIOUS
<1>6. /\ v[1] = [name \in Names(ContractHead) |-> c[name]] /\ v[2] = c.objectives
      /\ v[3] = [name \in Names(ContractTail) |-> c[name]] /\ v = [i \in 1..3 |-> v[i]]
    OBVIOUS
<1>7. /\ 1 \in G <=> FieldsFit(ContractHead, c)
      /\ 2 \in G <=> ObjectivesFit(c.objectives)
      /\ 3 \in G <=> FieldsFit(ContractTail, c)
    OBVIOUS
<1>8. /\ Len(D) = 3 /\ 3 \in Nat /\ \A n \in 1..3 : Decoder(D[n])
      /\ D[1] = read_record(ContractHead) /\ D[2] = read_list(decode_objective) /\ D[3] = read_record(ContractTail)
    BY ContractParts
<1> HIDE DEF os, E, v, G, D
<1>9. EachRead(D, E, v, G, 3)
    <2>1. /\ E[1] \in Cells
          /\ \A r \in Cells : D[1][E[1] \o r] = IF 1 \in G THEN Passes(r, v[1]) ELSE Fails
        BY <1>1, <1>5, <1>6, <1>7, <1>8
    <2>2. /\ E[2] \in Cells
          /\ \A r \in Cells : D[2][E[2] \o r] = IF 2 \in G THEN Passes(r, v[2]) ELSE Fails
        BY <1>3, <1>5, <1>6, <1>7, <1>8
    <2>3. /\ E[3] \in Cells
          /\ \A r \in Cells : D[3][E[3] \o r] = IF 3 \in G THEN Passes(r, v[3]) ELSE Fails
        BY <1>2, <1>5, <1>6, <1>7, <1>8
    <2>4. \A n \in 1..3 : n = 1 \/ n = 2 \/ n = 3
        OBVIOUS
    <2> QED BY <1>8, <2>1, <2>2, <2>3, <2>4, Zenon DEF EachRead
<1>10. E \in [1..3 -> Cells]
    <2>1. \A n \in 1..3 : E[n] \in Cells
        BY <1>9 DEF EachRead
    <2> QED BY <1>5, <2>1
<1>11. (\A n \in 1..3 : n \in G) <=> ContractFits(c)
    BY <1>7 DEF ContractFits, ObjectivesFit
<1>12. contract_of(v) = c
    <2> DEFINE u == contract_of(v)
    <2>1. /\ u = [name \in ContractNames |-> u[name]]
          /\ c = [name \in ContractNames |-> c[name]]
        BY ContractOf DEF IsContract
    <2>2. ASSUME NEW name \in ContractNames
          PROVE  u[name] = c[name]
        <3>1. CASE name \in Names(ContractHead)
            BY <1>6, <3>1 DEF contract_of
        <3>2. CASE name \notin Names(ContractHead) /\ name = "objectives"
            BY <1>6, <3>2 DEF contract_of
        <3>3. CASE name \notin Names(ContractHead) /\ name # "objectives"
            <4>1. name \in Names(ContractTail)
                BY <3>3 DEF ContractNames
            <4>2. u[name] = v[3][name]
                BY <3>3 DEF contract_of
            <4> HIDE DEF u
            <4> QED BY <1>6, <4>1, <4>2
        <3> QED BY <3>1, <3>2, <3>3
    <2> HIDE DEF u
    <2>3. u = c
        BY <2>1, <2>2
    <2> QED BY <2>3 DEF u
<1>13. ASSUME NEW r \in Cells
       PROVE  decode_contract[Concatenated(E) \o r] = IF ContractFits(c) THEN Passes(r, c) ELSE Fails
    <2> DEFINE x == Concatenated(E) \o r
    <2>1. x \in Cells
        BY <1>8, <1>10, ConcatenatedCells, CellsJoin
    <2>2. read_items(D, x) = IF \A n \in 1..3 : n \in G THEN Passes(r, [i \in 1..3 |-> v[i]]) ELSE Fails
        <3> DEFINE L == 3
        <3>1. L \in Nat /\ Len(D) = L /\ EachRead(D, E, v, G, L) /\ E \in [1..L -> Cells]
            BY <1>8, <1>9, <1>10
        <3> HIDE DEF L
        <3>2. read_items(D, x) = IF \A n \in 1..L : n \in G THEN Passes(r, [i \in 1..L |-> v[i]]) ELSE Fails
            BY <3>1, ItemsRead
        <3> QED BY <3>2 DEF L
    <2>3. read_items(D, x) = IF ContractFits(c) THEN Passes(r, v) ELSE Fails
        BY <1>6, <1>11, <2>2
    <2> HIDE DEF x
    <2>4. CASE ContractFits(c)
        <3>1. read_items(D, x) = Passes(r, v)
            BY <2>3, <2>4
        <3> QED BY <1>12, <2>1, <2>4, <3>1, ContractIs DEF D, x
    <2>5. CASE ~ContractFits(c)
        <3>1. read_items(D, x) = Fails
            BY <2>3, <2>5
        <3> QED BY <2>1, <2>5, <3>1, ContractIs DEF D, x
    <2> QED BY <2>4, <2>5
<1>14. Concatenated(E) \in Cells
    BY <1>8, <1>10, ConcatenatedCells
<1> QED BY <1>4, <1>13, <1>14

-----------------------------------------------------------------------------
(* States.                                                                 *)

\* The contracts of a state fit.
ContractsFit(l) == Len(l) <= MaxCollectionItems /\ \A i \in 1..Len(l) : ContractFits(l[i])

\* Contracts are read back if they fit.
LEMMA ContractsRead ==
    ASSUME NEW l, IsSeq(l), \A i \in 1..Len(l) : IsContract(l[i]),
           NEW E, E = [i \in 1..Len(l) |-> encode_contract(l[i])]
    PROVE  /\ write_list(E) \in Cells
           /\ \A r \in Cells : read_list(decode_contract)[write_list(E) \o r] =
                 IF ContractsFit(l) THEN Passes(r, l) ELSE Fails
<1> DEFINE L == Len(l)
           G == {i \in 1..L : ContractFits(l[i])}
<1>1. L \in Nat /\ l = [i \in 1..L |-> l[i]]
    BY ListIsSeq
<1>2. Decoder(decode_contract)
    BY ContractDecodes
<1>3. ASSUME NEW i \in 1..L
      PROVE  /\ E[i] \in Cells
             /\ \A r \in Cells : decode_contract[E[i] \o r] = IF i \in G THEN Passes(r, l[i]) ELSE Fails
    <2>1. E[i] = encode_contract(l[i]) /\ (i \in G <=> ContractFits(l[i])) /\ IsContract(l[i])
        OBVIOUS
    <2> HIDE DEF G
    <2> QED BY <2>1, ContractReads
<1>4. E \in [1..L -> Cells]
    BY <1>3
<1>5. ContractsFit(l) <=> L <= MaxCollectionItems /\ \A i \in 1..L : i \in G
    BY DEF ContractsFit
<1> HIDE DEF G, L
<1>6. ListRead(decode_contract, E, l, G, L)
    <2>1. AllRead(decode_contract, E, l, G, L)
        BY <1>3 DEF AllRead
    <2>2. L \in Nat
        BY <1>1
    <2> QED BY <1>2, <1>4, <2>1, <2>2, ListReads
<1> QED BY <1>1, <1>5, <1>6 DEF ListRead

\* Contracts read fit.
LEMMA ContractsDecode ==
    /\ Decoder(read_list(decode_contract)) /\ Delimits(read_list(decode_contract))
    /\ \A x, r \in Cells : \A w : read_list(decode_contract)[x] = Passes(r, w) => ContractsFit(w)
<1>1. /\ Decoder(read_list(decode_contract)) /\ Delimits(read_list(decode_contract))
      /\ \A x, r \in Cells : \A w : read_list(decode_contract)[x] = Passes(r, w) => GivenList(decode_contract, w)
    BY ContractDecodes, ListDecodes
<1>2. ASSUME NEW w, GivenList(decode_contract, w)
      PROVE  ContractsFit(w)
    <2>1. PICK n \in 0..MaxCollectionItems :
              /\ w = [i \in 1..n |-> w[i]]
              /\ \A i \in 1..n : \E c, z \in Cells : decode_contract[c] = Passes(z, w[i])
        BY <1>2 DEF GivenList
    <2>2. Len(w) = n /\ n <= MaxCollectionItems
        BY <2>1, CodecAssumption
    <2>3. \A i \in 1..n : ContractFits(w[i])
        BY <2>1, ContractDecodes
    <2> QED BY <2>2, <2>3 DEF ContractsFit
<1> QED BY <1>1, <1>2

\* The five lists of a state.
StateDecoders ==
    <<read_list(decode_policy), read_list(decode_contract), read_list(decode_objstate),
      read_list(decode_receipt), read_list(decode_eval)>>

\* Their values.
StateValues(st) ==
    <<st.policies, st.contracts, st.objective_states, st.enforcement_history, st.evaluation_history>>

\* The i-th list of a state fits.
PartFits(i, l) ==
    CASE i = 1 -> ListFits(PolicyFields, l)
      [] i = 2 -> ContractsFit(l)
      [] i = 3 -> ListFits(ObjectiveStateFields, l)
      [] i = 4 -> ListFits(ReceiptFields, l)
      [] i = 5 -> ListFits(EvaluationFields, l)

\* The numbers of the five lists.
LEMMA Five == \A n \in 1..5 : n = 1 \/ n = 2 \/ n = 3 \/ n = 4 \/ n = 5
OBVIOUS

\* PartFits, list by list.
LEMMA PartFitsIs ==
    ASSUME NEW l
    PROVE  /\ PartFits(1, l) <=> ListFits(PolicyFields, l)
           /\ PartFits(2, l) <=> ContractsFit(l)
           /\ PartFits(3, l) <=> ListFits(ObjectiveStateFields, l)
           /\ PartFits(4, l) <=> ListFits(ReceiptFields, l)
           /\ PartFits(5, l) <=> ListFits(EvaluationFields, l)
BY DEF PartFits

\* Each of the five lists delimits itself, and one that is read fits.
LEMMA StateParts ==
    /\ Len(StateDecoders) = 5
    /\ StateDecoders[1] = read_list(read_record(PolicyFields))
    /\ StateDecoders[2] = read_list(decode_contract)
    /\ StateDecoders[3] = read_list(read_record(ObjectiveStateFields))
    /\ StateDecoders[4] = read_list(read_record(ReceiptFields))
    /\ StateDecoders[5] = read_list(read_record(EvaluationFields))
    /\ \A n \in 1..5 :
          /\ Decoder(StateDecoders[n]) /\ Delimits(StateDecoders[n])
          /\ \A x, r \in Cells : \A w : StateDecoders[n][x] = Passes(r, w) => PartFits(n, w)
<1>1. /\ Len(StateDecoders) = 5
      /\ StateDecoders[1] = read_list(read_record(PolicyFields))
      /\ StateDecoders[2] = read_list(decode_contract)
      /\ StateDecoders[3] = read_list(read_record(ObjectiveStateFields))
      /\ StateDecoders[4] = read_list(read_record(ReceiptFields))
      /\ StateDecoders[5] = read_list(read_record(EvaluationFields))
    BY DEF StateDecoders, decode_policy, decode_objstate, decode_receipt, decode_eval
<1> DEFINE good(n) == /\ Decoder(StateDecoders[n]) /\ Delimits(StateDecoders[n])
                      /\ \A x, r \in Cells : \A w : StateDecoders[n][x] = Passes(r, w) => PartFits(n, w)
<1>2. good(1)
    BY <1>1, PolicySchema, RecordListDecodes, PartFitsIs
<1>3. good(2)
    BY <1>1, ContractsDecode, PartFitsIs
<1>4. good(3)
    BY <1>1, ObjectiveStateSchema, RecordListDecodes, PartFitsIs
<1>5. good(4)
    BY <1>1, ReceiptSchema, RecordListDecodes, PartFitsIs
<1>6. good(5)
    BY <1>1, EvaluationSchema, RecordListDecodes, PartFitsIs
<1>7. \A n \in 1..5 : good(n)
    <2> HIDE DEF good
    <2> QED BY <1>2, <1>3, <1>4, <1>5, <1>6, Five, Zenon
<1> QED BY <1>1, <1>7

\* A state fits if its five lists do.
LEMMA StateFitsParts ==
    ASSUME NEW st
    PROVE  StateFits(st) <=> \A i \in 1..5 : PartFits(i, StateValues(st)[i])
<1> DEFINE v == StateValues(st)
<1>1. /\ v[1] = st.policies /\ v[2] = st.contracts /\ v[3] = st.objective_states
      /\ v[4] = st.enforcement_history /\ v[5] = st.evaluation_history
    BY DEF StateValues
<1> HIDE DEF v
<1>2. (\A i \in 1..5 : PartFits(i, v[i])) <=>
          PartFits(1, v[1]) /\ PartFits(2, v[2]) /\ PartFits(3, v[3]) /\ PartFits(4, v[4]) /\ PartFits(5, v[5])
    BY Five
<1>3. ContractsFit(st.contracts) <=>
          /\ Len(st.contracts) <= MaxCollectionItems
          /\ \A i \in 1..Len(st.contracts) : ContractFits(st.contracts[i])
    BY DEF ContractsFit
<1>4. (\A i \in 1..5 : PartFits(i, v[i])) <=>
          /\ ListFits(PolicyFields, st.policies) /\ ContractsFit(st.contracts)
          /\ ListFits(ObjectiveStateFields, st.objective_states)
          /\ ListFits(ReceiptFields, st.enforcement_history)
          /\ ListFits(EvaluationFields, st.evaluation_history)
    BY <1>1, <1>2, PartFitsIs
<1> QED BY <1>3, <1>4, Zenon DEF StateFits, v

\* The encodings of the five lists.
StateItems(st) ==
    <<write_list(Encoded(encode_policy, st.policies)), write_list(Encoded(encode_contract, st.contracts)),
      write_list(Encoded(encode_objstate, st.objective_states)),
      write_list(Encoded(encode_receipt, st.enforcement_history)),
      write_list(Encoded(encode_eval, st.evaluation_history))>>

\* The i-th list is read back if it fits.
PartReads(i, e, l) ==
    /\ e \in Cells
    /\ \A r \in Cells : StateDecoders[i][e \o r] = IF PartFits(i, l) THEN Passes(r, l) ELSE Fails

\* Each of the five lists is read back if it fits.
LEMMA PartsRead ==
    ASSUME NEW st, IsState(st)
    PROVE  /\ StateItems(st) = [i \in 1..5 |-> StateItems(st)[i]]
           /\ StateValues(st) = [i \in 1..5 |-> StateValues(st)[i]]
           /\ \A i \in 1..5 : PartReads(i, StateItems(st)[i], StateValues(st)[i])
<1> DEFINE E1 == [i \in 1..Len(st.policies) |-> write_fields(PolicyFields, st.policies[i])]
           E2 == [i \in 1..Len(st.contracts) |-> encode_contract(st.contracts[i])]
           E3 == [i \in 1..Len(st.objective_states) |-> write_fields(ObjectiveStateFields, st.objective_states[i])]
           E4 == [i \in 1..Len(st.enforcement_history) |-> write_fields(ReceiptFields, st.enforcement_history[i])]
           E5 == [i \in 1..Len(st.evaluation_history) |-> write_fields(EvaluationFields, st.evaluation_history[i])]
           E == StateItems(st)
           v == StateValues(st)
<1>1. E = <<write_list(E1), write_list(E2), write_list(E3), write_list(E4), write_list(E5)>>
    BY DEF StateItems, Encoded, encode_policy, encode_objstate, encode_receipt, encode_eval
<1>2. /\ v = [i \in 1..5 |-> v[i]]
      /\ v[1] = st.policies /\ v[2] = st.contracts /\ v[3] = st.objective_states
      /\ v[4] = st.enforcement_history /\ v[5] = st.evaluation_history
    BY DEF StateValues
<1>3. PartReads(1, write_list(E1), st.policies)
    <2>1. IsListOf(PolicyFields, st.policies)
        BY DEF IsState
    <2>2. E1 = [i \in 1..Len(st.policies) |-> write_fields(PolicyFields, st.policies[i])]
        OBVIOUS
    <2> HIDE DEF E1
    <2>3. /\ write_list(E1) \in Cells
          /\ \A r \in Cells : read_list(read_record(PolicyFields))[write_list(E1) \o r] =
                IF ListFits(PolicyFields, st.policies) THEN Passes(r, st.policies) ELSE Fails
        BY <2>1, <2>2, PolicySchema, RecordListReads
    <2> QED BY <2>3, PartFitsIs, StateParts DEF PartReads
<1>4. PartReads(2, write_list(E2), st.contracts)
    <2>1. IsSeq(st.contracts) /\ \A i \in 1..Len(st.contracts) : IsContract(st.contracts[i])
        BY DEF IsState
    <2>2. E2 = [i \in 1..Len(st.contracts) |-> encode_contract(st.contracts[i])]
        OBVIOUS
    <2> HIDE DEF E2
    <2>3. /\ write_list(E2) \in Cells
          /\ \A r \in Cells : read_list(decode_contract)[write_list(E2) \o r] =
                IF ContractsFit(st.contracts) THEN Passes(r, st.contracts) ELSE Fails
        BY <2>1, <2>2, ContractsRead
    <2> QED BY <2>3, PartFitsIs, StateParts DEF PartReads
<1>5. PartReads(3, write_list(E3), st.objective_states)
    <2>1. IsListOf(ObjectiveStateFields, st.objective_states)
        BY DEF IsState
    <2>2. E3 = [i \in 1..Len(st.objective_states) |-> write_fields(ObjectiveStateFields, st.objective_states[i])]
        OBVIOUS
    <2> HIDE DEF E3
    <2>3. /\ write_list(E3) \in Cells
          /\ \A r \in Cells : read_list(read_record(ObjectiveStateFields))[write_list(E3) \o r] =
                IF ListFits(ObjectiveStateFields, st.objective_states) THEN Passes(r, st.objective_states) ELSE Fails
        BY <2>1, <2>2, ObjectiveStateSchema, RecordListReads
    <2> QED BY <2>3, PartFitsIs, StateParts DEF PartReads
<1>6. PartReads(4, write_list(E4), st.enforcement_history)
    <2>1. IsListOf(ReceiptFields, st.enforcement_history)
        BY DEF IsState
    <2>2. E4 = [i \in 1..Len(st.enforcement_history) |-> write_fields(ReceiptFields, st.enforcement_history[i])]
        OBVIOUS
    <2> HIDE DEF E4
    <2>3. /\ write_list(E4) \in Cells
          /\ \A r \in Cells : read_list(read_record(ReceiptFields))[write_list(E4) \o r] =
                IF ListFits(ReceiptFields, st.enforcement_history) THEN Passes(r, st.enforcement_history) ELSE Fails
        BY <2>1, <2>2, ReceiptSchema, RecordListReads
    <2> QED BY <2>3, PartFitsIs, StateParts DEF PartReads
<1>7. PartReads(5, write_list(E5), st.evaluation_history)
    <2>1. IsListOf(EvaluationFields, st.evaluation_history)
        BY DEF IsState
    <2>2. E5 = [i \in 1..Len(st.evaluation_history) |-> write_fields(EvaluationFields, st.evaluation_history[i])]
        OBVIOUS
    <2> HIDE DEF E5
    <2>3. /\ write_list(E5) \in Cells
          /\ \A r \in Cells : read_list(read_record(EvaluationFields))[write_list(E5) \o r] =
                IF ListFits(EvaluationFields, st.evaluation_history) THEN Passes(r, st.evaluation_history) ELSE Fails
        BY <2>1, <2>2, EvaluationSchema, RecordListReads
    <2> QED BY <2>3, PartFitsIs, StateParts DEF PartReads
<1> HIDE DEF E1, E2, E3, E4, E5, E, v
<1>8. /\ E = [i \in 1..5 |-> E[i]]
      /\ E[1] = write_list(E1) /\ E[2] = write_list(E2) /\ E[3] = write_list(E3)
      /\ E[4] = write_list(E4) /\ E[5] = write_list(E5)
    BY <1>1
<1>9. \A i \in 1..5 : PartReads(i, E[i], v[i])
    <2>1. /\ PartReads(1, E[1], v[1]) /\ PartReads(2, E[2], v[2]) /\ PartReads(3, E[3], v[3])
          /\ PartReads(4, E[4], v[4]) /\ PartReads(5, E[5], v[5])
        BY <1>2, <1>3, <1>4, <1>5, <1>6, <1>7, <1>8
    <2> QED BY <2>1, Five, Zenon
<1> QED BY <1>2, <1>8, <1>9 DEF E, v

\* Every list of the state fits.
PartsFit(st) == \A i \in 1..5 : PartFits(i, StateValues(st)[i])

\* The cells behind the header are read back if each of the lists fits.
LEMMA BodyReads ==
    ASSUME NEW st, IsState(st)
    PROVE  /\ Concatenated(StateItems(st)) \in Cells
           /\ \A r \in Cells : read_items(StateDecoders, Concatenated(StateItems(st)) \o r) =
                 IF PartsFit(st) THEN Passes(r, StateValues(st)) ELSE Fails
<1> DEFINE D == StateDecoders
           E == StateItems(st)
           v == StateValues(st)
           G == {i \in 1..5 : PartFits(i, v[i])}
           L == 5
<1>1. E = [i \in 1..L |-> E[i]] /\ v = [i \in 1..L |-> v[i]] /\ \A i \in 1..L : PartReads(i, E[i], v[i])
    BY PartsRead
<1>2. L \in Nat /\ Len(D) = L /\ \A n \in 1..L : Decoder(D[n])
    BY StateParts
<1>3. \A i \in 1..L : i \in G <=> PartFits(i, v[i])
    OBVIOUS
<1>4. PartsFit(st) <=> \A i \in 1..L : i \in G
    BY DEF PartsFit
<1> HIDE DEF E, v, G, L
<1>5. EachRead(D, E, v, G, L)
    BY <1>1, <1>2, <1>3 DEF EachRead, PartReads
<1> HIDE DEF D
<1>6. E \in [1..L -> Cells]
    <2>1. \A i \in 1..L : E[i] \in Cells
        BY <1>1 DEF PartReads
    <2> QED BY <1>1, <2>1
<1>7. Concatenated(E) \in Cells
    BY <1>2, <1>6, ConcatenatedCells
<1>8. ASSUME NEW r \in Cells
      PROVE  read_items(D, Concatenated(E) \o r) = IF PartsFit(st) THEN Passes(r, v) ELSE Fails
    <2>1. read_items(D, Concatenated(E) \o r) =
             IF \A n \in 1..L : n \in G THEN Passes(r, [i \in 1..L |-> v[i]]) ELSE Fails
        BY <1>2, <1>5, <1>6, ItemsRead
    <2> QED BY <1>1, <1>4, <2>1
<1> QED BY <1>7, <1>8 DEF D, E, v

\* What deserialize_state makes of the five lists behind the header.
StateOf(epoch, w) ==
    [epoch |-> epoch, policies |-> w[1], contracts |-> w[2], objective_states |-> w[3],
     enforcement_history |-> w[4], evaluation_history |-> w[5]]

\* A header the decoder accepts.
HeaderFits(x) ==
    Len(x) >= 3 /\ x[1] = PersistenceMagic /\ x[2] = PersistenceVersion

\* The outcome of a state from its header and its lists.
LEMMA StateIs ==
    ASSUME NEW x
    PROVE  /\ ~HeaderFits(x) => deserialize_state(x) = Fails
           /\ read_items(StateDecoders, Behind(x, 3)) = Fails => deserialize_state(x) = Fails
           /\ \A r, w : HeaderFits(x) /\ read_items(StateDecoders, Behind(x, 3)) = Passes(r, w) =>
                 deserialize_state(x) = IF r = << >> THEN Passes(r, StateOf(x[3], w)) ELSE Fails
<1> DEFINE c == read_items(StateDecoders, Behind(x, 3))
<1>1. deserialize_state(x) = IF HeaderFits(x) /\ c.ok /\ c.rest = << >>
                             THEN Passes(c.rest, StateOf(x[3], c.rec)) ELSE Fails
    BY DEF deserialize_state, StateDecoders, exhausted, HeaderFits, StateOf
<1> HIDE DEF c
<1>2. c = Fails => ~c.ok
    BY CursorFields
<1>3. ASSUME NEW r, NEW w, c = Passes(r, w)
      PROVE  c.ok /\ c.rest = r /\ c.rec = w
    BY <1>3, CursorFields
<1>4. ASSUME NEW r, NEW w, HeaderFits(x), c = Passes(r, w)
      PROVE  deserialize_state(x) = IF r = << >> THEN Passes(r, StateOf(x[3], w)) ELSE Fails
    BY <1>1, <1>3, <1>4
<1> QED BY <1>1, <1>2, <1>4 DEF c

\* A header, and any cells behind it.
LEMMA HeaderThen ==
    ASSUME NEW n \in Int, NEW b \in Cells
    PROVE  LET x == <<PersistenceMagic, PersistenceVersion, n>> \o b
           IN  /\ x \in Cells /\ Len(x) = 3 + Len(b) /\ Behind(x, 3) = b /\ x[3] = n
               /\ HeaderFits(x)
<1> DEFINE h == <<PersistenceMagic, PersistenceVersion, n>>
           x == h \o b
<1>1. h \in Cells /\ Len(h) = 3 /\ h[1] = PersistenceMagic /\ h[2] = PersistenceVersion /\ h[3] = n
    BY CodecAssumption DEF Cells
<1> HIDE DEF h
<1>2. /\ x \in Cells /\ Len(x) = 3 + Len(b) /\ Len(b) \in Nat
      /\ x[1] = h[1] /\ x[2] = h[2] /\ x[3] = h[3]
    <2>1. /\ x \in Cells /\ Len(x) = Len(h) + Len(b) /\ Len(b) \in Nat
          /\ \A i \in 1..Len(h) : x[i] = h[i]
        BY <1>1, CellsKept, Zenon
    <2> HIDE DEF x
    <2> QED BY <1>1, <2>1
<1>3. Behind(x, 3) = b
    BY <1>1, BehindJoin
<1> HIDE DEF x
<1>4. HeaderFits(x)
    BY <1>1, <1>2 DEF HeaderFits
<1> QED BY <1>1, <1>2, <1>3, <1>4 DEF x, h

\* A state is the state of its epoch and its lists.
LEMMA StateOfValues ==
    ASSUME NEW st, IsState(st)
    PROVE  StateOf(st.epoch, StateValues(st)) = st
<1>1. st = [epoch |-> st.epoch, policies |-> st.policies, contracts |-> st.contracts,
            objective_states |-> st.objective_states, enforcement_history |-> st.enforcement_history,
            evaluation_history |-> st.evaluation_history]
    BY DEF IsState
<1>2. StateOf(st.epoch, StateValues(st)) =
           [epoch |-> st.epoch, policies |-> st.policies, contracts |-> st.contracts,
            objective_states |-> st.objective_states, enforcement_history |-> st.enforcement_history,
            evaluation_history |-> st.evaluation_history]
    BY DEF StateOf, StateValues
<1> QED BY <1>1, <1>2

\* The encoding of a state, and that with more cells behind it.
LEMMA StateThen ==
    ASSUME NEW st, IsState(st), NEW r \in Cells
    PROVE  /\ serialize_state(st) \in Cells
           /\ deserialize_state(serialize_state(st) \o r) =
                 IF StateFits(st) /\ r = << >> THEN Passes(r, st) ELSE Fails
<1> DEFINE b == Concatenated(StateItems(st))
           h == <<PersistenceMagic, PersistenceVersion, st.epoch>>
           x == h \o (b \o r)
           fits == PartsFit(st)
<1>1. b \in Cells /\ read_items(StateDecoders, b \o r) = IF fits THEN Passes(r, StateValues(st)) ELSE Fails
    BY BodyReads
<1>2. serialize_state(st) = h \o b
    BY DEF serialize_state, StateItems
<1>3. st.epoch \in Int
    BY DEF IsState
<1>4. b \o r \in Cells
    BY <1>1, CellsJoin
<1>5. h \in Cells
    BY <1>3, CodecAssumption DEF Cells
<1>6. StateFits(st) <=> fits
    BY StateFitsParts DEF PartsFit
<1> HIDE DEF b, fits
<1>7. /\ Behind(x, 3) = b \o r /\ x[3] = st.epoch /\ HeaderFits(x)
    BY <1>3, <1>4, HeaderThen
<1>8. (h \o b) \o r = x /\ h \o b \in Cells
    <2> HIDE DEF h
    <2>1. (h \o b) \o r = h \o (b \o r) /\ h \o b \in Cells
        BY <1>1, <1>5, CellsAssociate, CellsJoin, ZenonT(60)
    <2> QED BY <2>1, Zenon DEF x
<1> HIDE DEF x, h
<1>9. deserialize_state(x) = IF StateFits(st) /\ r = << >> THEN Passes(r, st) ELSE Fails
    <2>1. CASE ~fits
        <3>1. deserialize_state(x) = Fails
            BY <1>1, <1>7, <2>1, StateIs
        <3> QED BY <1>6, <2>1, <3>1
    <2>2. CASE fits
        <3>1. deserialize_state(x) = IF r = << >> THEN Passes(r, StateOf(x[3], StateValues(st))) ELSE Fails
            BY <1>1, <1>7, <2>2, StateIs
        <3>2. StateOf(x[3], StateValues(st)) = st
            BY <1>7, StateOfValues
        <3> QED BY <1>6, <2>2, <3>1, <3>2
    <2> QED BY <2>1, <2>2
<1> QED BY <1>2, <1>8, <1>9

\* A state is read back exactly as it was written if it fits, and rejected
\* otherwise.
LEMMA RoundTrip ==
    ASSUME NEW st, IsState(st)
    PROVE  /\ serialize_state(st) \in Cells
           /\ deserialize_state(serialize_state(st)) = IF StateFits(st) THEN Passes(<< >>, st) ELSE Fails
<1>1. << >> \in Cells
    BY DEF Cells
<1> DEFINE e == serialize_state(st)
           none == << >>
<1>2. e \in Cells /\ deserialize_state(e \o none) = IF StateFits(st) THEN Passes(none, st) ELSE Fails
    BY <1>1, StateThen
<1> HIDE DEF e
<1>3. e \o none = e
    BY <1>1, <1>2, CellsAssociate
<1> QED BY <1>2, <1>3 DEF e

\* No cell may be put behind a state.
LEMMA NothingLonger ==
    ASSUME NEW st, IsState(st), NEW n \in Int
    PROVE  ~deserialize_state(Append(serialize_state(st), n)).ok
<1> DEFINE e == serialize_state(st)
           m == <<n>>
<1>1. m \in Cells /\ m # << >>
    BY DEF Cells
<1> HIDE DEF m
<1>2. e \in Cells /\ deserialize_state(e \o m) = Fails
    BY <1>1, StateThen
<1> HIDE DEF e
<1>3. Append(e, n) = e \o <<n>>
    BY <1>2, AppendIsConcat DEF Cells
<1> QED BY <1>2, <1>3, CursorFields DEF e, m

\* No proper prefix of a state is accepted: one that were would leave the
\* same cells unread with the rest of the state behind it.
LEMMA NothingShorter ==
    ASSUME NEW st, IsState(st), NEW n \in 0..(Len(serialize_state(st)) - 1)
    PROVE  ~deserialize_state(SubSeq(serialize_state(st), 1, n)).ok
<1> DEFINE e == serialize_state(st)
           p == SubSeq(e, 1, n)
           b == Behind(e, 3)
           q == Behind(p, 3)
           y == Behind(e, n)
<1>1. e \in Cells /\ Len(e) \in Nat /\ n \in 0..Len(e) /\ n < Len(e)
    BY RoundTrip DEF Cells
<1>2. \A r \in Cells : read_items(StateDecoders, b \o r) = IF PartsFit(st) THEN Passes(r, StateValues(st)) ELSE Fails
    <2>1. st.epoch \in Int
        BY DEF IsState
    <2> DEFINE body == Concatenated(StateItems(st))
    <2>2. e = <<PersistenceMagic, PersistenceVersion, st.epoch>> \o body
        BY DEF serialize_state, StateItems
    <2>3. /\ body \in Cells
          /\ \A r \in Cells : read_items(StateDecoders, body \o r) = IF PartsFit(st) THEN Passes(r, StateValues(st)) ELSE Fails
        BY BodyReads
    <2> HIDE DEF body, e
    <2>4. b = body
        BY <2>1, <2>2, <2>3, HeaderThen
    <2> HIDE DEF b
    <2> QED BY <2>3, <2>4
<1> HIDE DEF e
<1>3. p \in Cells /\ Len(p) = n /\ y \in Cells /\ Len(y) > 0 /\ e = p \o y
    <2>1. p \in Cells /\ Len(p) = n /\ \A i \in 1..n : p[i] = e[i]
        BY <1>1 DEF Cells
    <2>2. y \in Cells /\ Len(y) = Len(e) - n /\ \A i \in 1..(Len(e) - n) : y[i] = e[n + i]
        BY <1>1, BehindIs
    <2> HIDE DEF p, y
    <2> DEFINE z == p \o y
    <2>3. /\ z \in Cells /\ Len(z) = Len(e)
          /\ \A i \in 1..n : z[i] = e[i]
          /\ \A i \in 1..Len(e) : i > n => z[i] = y[i - n]
        <3>1. /\ z \in Cells /\ Len(z) = Len(p) + Len(y)
              /\ \A i \in 1..Len(p) : z[i] = p[i]
              /\ \A i \in 1..(Len(p) + Len(y)) : i > Len(p) => z[i] = y[i - Len(p)]
            BY <2>1, <2>2, CellsKept, Zenon
        <3> HIDE DEF z
        <3>2. Len(p) + Len(y) = Len(e)
            BY <1>1, <2>1, <2>2
        <3> QED BY <2>1, <3>1, <3>2
    <2> HIDE DEF z
    <2>4. \A i \in 1..Len(e) : z[i] = e[i]
        BY <1>1, <2>2, <2>3
    <2>5. z = e
        BY <1>1, <2>3, <2>4, SeqEqual DEF Cells
    <2> QED BY <1>1, <2>1, <2>2, <2>5 DEF z
<1> HIDE DEF p, y
<1>4. CASE n < 3
    <2>1. ~HeaderFits(p)
        BY <1>3, <1>4 DEF HeaderFits
    <2>2. deserialize_state(p) = Fails
        BY <2>1, StateIs
    <2> QED BY <2>2, CursorFields DEF e, p
<1>5. CASE n >= 3
    <2>1. q \in Cells /\ b = q \o y
        <3>1. 3 \in 0..Len(p)
            BY <1>3, <1>5
        <3>2. Behind(p \o y, 3) = Behind(p, 3) \o y /\ Behind(p, 3) \in Cells
            BY <1>3, <3>1, BehindMore, BehindIs
        <3> QED BY <1>3, <3>2
    <2> HIDE DEF b, q
    <2>2. read_items(StateDecoders, b) = Fails \/ read_items(StateDecoders, b) = Passes(<< >>, StateValues(st))
        <3> DEFINE none == << >>
        <3>1. none \in Cells
            BY DEF Cells
        <3>2. b \in Cells
            BY <1>3, <2>1, CellsJoin
        <3> HIDE DEF none
        <3>3. b \o << >> = b
            BY <3>2, CellsAssociate
        <3> QED BY <1>2, <3>1, <3>3 DEF none
    <2>3. CASE read_items(StateDecoders, q) = Fails
        <3>1. deserialize_state(p) = Fails
            BY <2>3, StateIs DEF q
        <3> QED BY <3>1, CursorFields DEF e, p
    <2>4. CASE \E r \in Cells : \E w : /\ read_items(StateDecoders, q) = Passes(r, w)
                                       /\ read_items(StateDecoders, q \o y) = Passes(r \o y, w)
        <3>1. PICK r, w : r \in Cells /\ read_items(StateDecoders, q \o y) = Passes(r \o y, w)
            BY <2>4
        <3> DEFINE z == r \o y
        <3>2. z # << >>
            <4>1. Len(z) = Len(r) + Len(y) /\ Len(r) \in Nat /\ Len(y) \in Nat
                BY <1>3, CellsKept
            <4> HIDE DEF z
            <4> QED BY <1>3, <4>1
        <3> HIDE DEF z
        <3> DEFINE none == << >>
                   v == StateValues(st)
        <3>3. read_items(StateDecoders, b) = Passes(z, w)
            BY <2>1, <3>1 DEF z
        <3>4. read_items(StateDecoders, b) # Fails
            BY <3>3, CursorFields
        <3>5. Passes(z, w) = Passes(none, v)
            BY <2>2, <3>3, <3>4
        <3> HIDE DEF none, v
        <3>6. z = none
            BY <3>5, PassesOnce
        <3> QED BY <3>2, <3>6 DEF none
    <2> DEFINE L == 5
    <2>5. L \in Nat /\ Len(StateDecoders) = L
          /\ \A i \in 1..L : Decoder(StateDecoders[i]) /\ Delimits(StateDecoders[i])
        BY StateParts
    <2> HIDE DEF L
    <2>6. \/ read_items(StateDecoders, q) = Fails
          \/ \E r \in Cells : \E w : /\ read_items(StateDecoders, q) = Passes(r, w)
                                     /\ read_items(StateDecoders, q \o y) = Passes(r \o y, w)
        <3> DEFINE D == StateDecoders
        <3>1. q \in Cells /\ y \in Cells
            BY <1>3, <2>1
        <3>2. L \in Nat /\ Len(D) = L /\ \A i \in 1..L : Decoder(D[i]) /\ Delimits(D[i])
            BY <2>5
        <3> HIDE DEF D
        <3>3. \/ read_items(D, q) = Fails
              \/ \E r \in Cells : \E w : read_items(D, q) = Passes(r, w) /\ read_items(D, q \o y) = Passes(r \o y, w)
            BY <3>1, <3>2, ItemsDelimit
        <3> QED BY <3>3 DEF D
    <2> QED BY <2>3, <2>4, <2>6
<1> QED BY <1>1, <1>4, <1>5

\* A state that is accepted keeps every bound.
LEMMA AcceptedFits ==
    ASSUME NEW x \in Cells, deserialize_state(x).ok
    PROVE  StateFits(deserialize_state(x).rec)
<1> DEFINE b == Behind(x, 3)
           L == 5
<1>1. deserialize_state(x) # Fails
    BY CursorFields
<1>2. HeaderFits(x) /\ read_items(StateDecoders, b) # Fails
    BY <1>1, StateIs
<1>3. b \in Cells
    <2>1. 3 \in 0..Len(x)
        BY <1>2 DEF HeaderFits, Cells
    <2> QED BY <2>1, BehindIs
<1>4. L \in Nat /\ Len(StateDecoders) = L /\ \A i \in 1..L : Decoder(StateDecoders[i])
    BY StateParts
<1>5. PICK r, w :
          /\ r \in Cells
          /\ read_items(StateDecoders, b) = Passes(r, w)
          /\ \A i \in 1..L : \E c, z \in Cells : StateDecoders[i][c] = Passes(z, w[i])
    <2> HIDE DEF L, b
    <2> QED BY <1>2, <1>3, <1>4, ItemsGiven
<1>6. \A i \in 1..5 : PartFits(i, w[i])
    BY <1>5, StateParts
<1> DEFINE st == StateOf(x[3], w)
<1>7. deserialize_state(x) = Passes(r, st)
    BY <1>1, <1>2, <1>5, StateIs
<1>8. deserialize_state(x).rec = st
    BY <1>7, CursorFields
<1>9. \A i \in 1..5 : StateValues(st)[i] = w[i]
    <2>2. /\ st.policies = w[1] /\ st.contracts = w[2] /\ st.objective_states = w[3]
          /\ st.enforcement_history = w[4] /\ st.evaluation_history = w[5]
        BY DEF StateOf
    <2> HIDE DEF st
    <2> DEFINE v == StateValues(st)
    <2>3. v[1] = w[1] /\ v[2] = w[2] /\ v[3] = w[3] /\ v[4] = w[4] /\ v[5] = w[5]
        BY <2>2 DEF StateValues
    <2> HIDE DEF v
    <2>4. \A i \in 1..5 : v[i] = w[i]
        BY <2>3, Five
    <2> QED BY <2>4 DEF v
<1> HIDE DEF st
<1> QED BY <1>6, <1>8, <1>9, StateFitsParts

-----------------------------------------------------------------------------
(* The file with the encoding of Codec.                                    *)

\* save_state and load_state use serialize_state and deserialize_state on
\* states of the declared types, and Loadable says what the bounds on the
\* fields of such a state say.
CodecInUse ==
    /\ \A d \in Docs : IsState(d) /\ serialize(d) = serialize_state(d) /\ (Loadable(d) <=> StateFits(d))
    /\ \A x \in Cells : deserialize(x) = deserialize_state(x)
    /\ \A st : StateFits(st) => Loadable(st)

(* persistence.cpp:312-341, 343-401: a state that keeps the bounds on its   *)
(* fields, strings and collections comes back from its file exactly as it  *)
(* was saved, and load_state rejects the file of every other state: for    *)
(* every state of the declared types, whatever its lists hold.             *)
THEOREM StatesLoadBackExactly ==
    ASSUME CodecInUse
    PROVE  Spec => []LoadsBackExactly
<1>1. LoadsBackExactly
    <2> SUFFICES ASSUME NEW d \in Docs, file = Saved[d]
                 PROVE  load_state(file) = IF Loadable(d) THEN [status |-> "ok", doc |-> d]
                                           ELSE [status |-> "corrupt", doc |-> NoDoc]
        BY DEF LoadsBackExactly
    <2> DEFINE e == serialize_state(d)
    <2>1. IsState(d) /\ serialize(d) = e /\ (Loadable(d) <=> StateFits(d))
        BY DEF CodecInUse
    <2>2. e \in Cells /\ deserialize_state(e) = IF StateFits(d) THEN Passes(<< >>, d) ELSE Fails
        BY <2>1, RoundTrip
    <2> HIDE DEF e
    <2>3. file.body = e /\ file.sum = e
        BY <2>1 DEF Saved
    <2>4. deserialize(file.body) = IF Loadable(d) THEN Passes(<< >>, d) ELSE Fails
        BY <2>1, <2>2, <2>3 DEF CodecInUse
    <2>5. CASE Loadable(d)
        <3>1. deserialize(file.body).ok /\ deserialize(file.body).rec = d
            BY <2>4, <2>5, CursorFields
        <3> QED BY <2>3, <2>5, <3>1 DEF load_state
    <2>6. CASE ~Loadable(d)
        <3>1. ~deserialize(file.body).ok
            BY <2>4, <2>6, CursorFields
        <3> QED BY <2>3, <2>6, <3>1 DEF load_state
    <2> QED BY <2>5, <2>6
<1> QED BY <1>1, PTL

(* persistence.cpp:344-346 with the encoding of persistence.cpp:89-341:     *)
(* saving and loading act on one register, with no assumption left about   *)
(* how states are written and read.                                        *)
THEOREM SavedStatesAreARegister ==
    ASSUME CodecInUse
    PROVE  Spec => ImplementsRegister
BY StatesLoadBackExactly, FileImplementsRegister, PTL

\* Until it is damaged, the file is the whole of a state that was saved.
IntactIsSaved == intact /\ file # NoDoc => \E d \in Docs : file = Saved[d]

\* Only a rename and damage change the file.
LEMMA FileIsWhole == Spec => []IntactIsSaved
<1>1. Init => IntactIsSaved
    BY DEF Init, IntactIsSaved
<1>2. FileInv /\ IntactIsSaved /\ [Next]_vars => IntactIsSaved'
    <2> SUFFICES ASSUME FileInv, IntactIsSaved, [Next]_vars PROVE IntactIsSaved'
        OBVIOUS
    <2>1. ASSUME NEW t \in Threads, NEW d \in setup.docs, save_open(t, d)
          PROVE  IntactIsSaved'
        BY <2>1 DEF save_open, IntactIsSaved
    <2>2. ASSUME NEW t \in Threads, save_write(t) \/ save_fails(t)
          PROVE  IntactIsSaved'
        BY <2>2 DEF save_write, save_fails, IntactIsSaved
    <2>3. ASSUME NEW t \in Threads, save_rename(t)
          PROVE  IntactIsSaved'
        BY <2>3, RenameKeeps DEF IntactIsSaved
    <2>4. CASE load \/ crash \/ UNCHANGED vars
        BY <2>4 DEF load, crash, vars, IntactIsSaved
    <2>5. CASE Damage
        BY <2>5 DEF Damage, IntactIsSaved
    <2> QED BY <2>1, <2>2, <2>3, <2>4, <2>5 DEF Next
<1> QED BY <1>1, <1>2, FileInvariant, PTL DEF Spec

(* persistence.cpp:75-88, 312-341: without the checksum's help, whatever a  *)
(* file was damaged into, the decoders accept nothing that breaks a bound  *)
(* on its fields, and of a file that was saved they accept no proper       *)
(* prefix and nothing longer.                                              *)
THEOREM DecodersAreStrict ==
    ASSUME CodecInUse
    PROVE  Spec => []DecodersStrict
<1>1. FileInv /\ IntactIsSaved => DecodersStrict
    <2> SUFFICES ASSUME FileInv, IntactIsSaved, file # NoDoc
                 PROVE  /\ deserialize(file.body).ok => Loadable(deserialize(file.body).rec)
                        /\ intact =>
                              /\ \A n \in 0..Len(file.body) - 1 : ~deserialize(SubSeq(file.body, 1, n)).ok
                              /\ \A n \in Noise : ~deserialize(Append(file.body, n)).ok
        BY DEF DecodersStrict
    <2>1. file.body \in Cells
        BY DEF FileInv, FileIsSummed, Files, Cells
    <2>2. deserialize(file.body).ok => Loadable(deserialize(file.body).rec)
        <3> DEFINE r == deserialize_state(file.body)
        <3>1. deserialize(file.body) = r
            BY <2>1 DEF CodecInUse
        <3>2. r.ok => StateFits(r.rec)
            BY <2>1, AcceptedFits
        <3> HIDE DEF r
        <3> QED BY <3>1, <3>2 DEF CodecInUse
    <2>3. ASSUME intact
          PROVE  /\ \A n \in 0..Len(file.body) - 1 : ~deserialize(SubSeq(file.body, 1, n)).ok
                 /\ \A n \in Noise : ~deserialize(Append(file.body, n)).ok
        <3>1. PICK d \in Docs : file = Saved[d]
            BY <2>3 DEF IntactIsSaved
        <3>2. IsState(d) /\ file.body = serialize_state(d)
            BY <3>1 DEF Saved, CodecInUse
        <3>3. ASSUME NEW n \in 0..Len(file.body) - 1
              PROVE  ~deserialize(SubSeq(file.body, 1, n)).ok
            <4>1. SubSeq(file.body, 1, n) \in Cells
                BY <2>1 DEF Cells
            <4>2. ~deserialize_state(SubSeq(file.body, 1, n)).ok
                BY <3>2, NothingShorter
            <4> QED BY <4>1, <4>2 DEF CodecInUse
        <3>4. ASSUME NEW n \in Noise
              PROVE  ~deserialize(Append(file.body, n)).ok
            <4>1. n \in Int /\ Append(file.body, n) \in Cells
                BY <2>1, SetupsAssumption DEF Cells
            <4>2. ~deserialize_state(Append(file.body, n)).ok
                BY <3>2, <4>1, NothingLonger
            <4> QED BY <4>1, <4>2 DEF CodecInUse
        <3> QED BY <3>3, <3>4
    <2> QED BY <2>2, <2>3
<1> QED BY <1>1, FileInvariant, FileIsWhole, PTL
=============================================================================
