----------------------------- MODULE StateFile -----------------------------
(***************************************************************************)
(* The state file (persistence.cpp:343-401): save_state called by several  *)
(* threads of a process at once, load_state, crashes of the process that   *)
(* leave temporary files behind, failing writes, and damage to the file.   *)
(*                                                                         *)
(* A file is its body, a sequence of cells, and the body its checksum was  *)
(* computed from: crc32 is taken to be collision free, so the four bytes   *)
(* that end a cut or extended file match nothing (sum = NoSum).            *)
(***************************************************************************)
EXTENDS Integers, Sequences, FiniteSets

CONSTANTS
    Docs,                  \* states a thread may save
    serialize(_),          \* serialize_state: a state to its cells
    deserialize(_),        \* deserialize_state: [ok, rec] of cells
    Loadable(_),           \* the states whose encoding the decoders accept
    Threads,               \* threads of the process that may save
    Setups,                \* what is bounded together: the states saved, the
                           \* save_state calls of one process, the crashes, the damages
    Noise,                 \* values damage may leave in a cell
    NoDoc, Spoilt, NoSum

\* A file is a record of cells; what stands for no file, a damaged one and a
\* checksum that matches nothing is none of the values it could be taken for.
Files == [body : Seq(Int), sum : Seq(Int) \cup {NoSum}]

ASSUME MarkersAssumption ==
    /\ NoDoc \notin Docs /\ Spoilt \notin Docs /\ NoDoc # Spoilt
    /\ NoDoc \notin Files /\ NoSum \notin Seq(Int)

ASSUME SetupsAssumption ==
    /\ Noise \subseteq Int
    /\ \A s \in Setups : s.docs \subseteq Docs /\ {s.saves, s.crashes, s.damages} \subseteq Nat

ASSUME CellsAssumption == \A d \in Docs : serialize(d) \in Seq(Int)

VARIABLES
    setup,         \* the bounds of this behaviour
    file,          \* the file at the path, or NoDoc
    temp,          \* the temporary files, by the number in their name
    g_tmp_seq,
    saver,         \* per thread: NoDoc, or [doc, tmp] of the save it is in
    result,        \* the answer of the last load_state
    crashes,       \* crashes so far
    damages,       \* damages so far
    intact         \* history: the file is as the last save left it

vars == <<setup, file, temp, g_tmp_seq, saver, result, crashes, damages, intact>>

----------------------------------------------------------------------------
\* The bytes save_state hands to save_bytes_atomic.
Saved == [d \in Docs |-> [body |-> serialize(d), sum |-> serialize(d)]]

Cut(f, n) == [body |-> SubSeq(f.body, 1, n), sum |-> NoSum]

\* Where a write may be interrupted; the checksum is cut off in each case.
CutPoints(f) == {0, Len(f.body) \div 2, Len(f.body)}

Init ==
    /\ setup \in Setups
    /\ file = NoDoc /\ temp = <<>> /\ g_tmp_seq = 0
    /\ saver = [t \in Threads |-> NoDoc]
    /\ result = [status |-> "none", doc |-> NoDoc]
    /\ crashes = 0 /\ damages = 0 /\ intact = TRUE

Put(f, key, v) == [k \in DOMAIN f \cup {key} |-> IF k = key THEN v ELSE f[k]]
Drop(f, key) == [k \in DOMAIN f \ {key} |-> f[k]]

\* Mutant: every call uses the same temporary name.
tmp_name_fixed == 0

tmp_name == g_tmp_seq

(* save_state: serialise, take a fresh temporary name, open and truncate    *)
(* it, or fail to.                                                         *)
save_open(t, d) ==
    /\ saver[t] = NoDoc /\ g_tmp_seq < setup.saves
    /\ g_tmp_seq' = g_tmp_seq + 1
    /\ \/ /\ saver' = [saver EXCEPT ![t] = [doc |-> d, tmp |-> tmp_name]]
          /\ temp' = Put(temp, tmp_name, Cut(Saved[d], 0))
       \/ UNCHANGED <<saver, temp>>
    /\ UNCHANGED <<setup, file, result, crashes, damages, intact>>

(* out.write and out.flush move the bytes in pieces.                        *)
save_write(t) ==
    /\ saver[t] # NoDoc
    /\ LET whole == Saved[saver[t].doc]
           now == temp[saver[t].tmp]
       IN  \E f \in {whole} \cup {Cut(whole, n) : n \in CutPoints(whole)} :
              /\ now # whole
              /\ Len(f.body) > Len(now.body) \/ f = whole
              /\ temp' = [temp EXCEPT ![saver[t].tmp] = f]
    /\ UNCHANGED <<setup, file, g_tmp_seq, saver, result, crashes, damages, intact>>

(* A write or the rename fails: the save returns and leaves its temporary.  *)
save_fails(t) ==
    /\ saver[t] # NoDoc
    /\ saver' = [saver EXCEPT ![t] = NoDoc]
    /\ UNCHANGED <<setup, file, temp, g_tmp_seq, result, crashes, damages, intact>>

\* Mutant: the bytes are not flushed before the rename.
flushed_partly(t) == temp[saver[t].tmp].body # <<>>

flushed(t) == temp[saver[t].tmp] = Saved[saver[t].doc]

(* Everything is flushed: the rename replaces the file in one step.         *)
save_rename(t) ==
    /\ saver[t] # NoDoc
    /\ saver[t].tmp \in DOMAIN temp /\ flushed(t)
    /\ file' = temp[saver[t].tmp] /\ temp' = Drop(temp, saver[t].tmp)
    /\ saver' = [saver EXCEPT ![t] = NoDoc]
    /\ intact' = TRUE
    /\ UNCHANGED <<setup, g_tmp_seq, result, crashes, damages>>

\* Mutant: the checksum is not compared.
load_state_unchecked(f) ==
    LET r == deserialize(f.body)
    IN  IF r.ok THEN [status |-> "ok", doc |-> r.rec] ELSE [status |-> "corrupt", doc |-> NoDoc]

load_state(f) ==
    LET r == deserialize(f.body)
    IN  IF f.sum = f.body /\ r.ok THEN [status |-> "ok", doc |-> r.rec]
        ELSE [status |-> "corrupt", doc |-> NoDoc]

load ==
    /\ result' = IF file = NoDoc THEN [status |-> "not_found", doc |-> NoDoc] ELSE load_state(file)
    /\ UNCHANGED <<setup, file, temp, g_tmp_seq, saver, crashes, damages, intact>>

(* The process ends inside its saves; the next one counts from 0 again.     *)
crash ==
    /\ crashes < setup.crashes
    /\ crashes' = crashes + 1
    /\ saver' = [t \in Threads |-> NoDoc] /\ g_tmp_seq' = 0
    /\ UNCHANGED <<setup, file, temp, result, damages, intact>>

(* The file is changed, cut or extended by something else.                  *)
Damage ==
    /\ file # NoDoc /\ damages < setup.damages
    /\ \/ \E i \in 1..Len(file.body), n \in Noise :
             file.body[i] # n /\ file' = [file EXCEPT !.body[i] = n]
       \/ \E n \in 0..Len(file.body) : file' = Cut(file, n)
       \/ \E n \in Noise : file' = [body |-> Append(file.body, n), sum |-> NoSum]
    /\ damages' = damages + 1 /\ intact' = FALSE
    /\ UNCHANGED <<setup, temp, g_tmp_seq, saver, result, crashes>>

Next == \/ \E t \in Threads : \/ \E d \in setup.docs : save_open(t, d)
                              \/ save_write(t) \/ save_fails(t) \/ save_rename(t)
        \/ load \/ crash \/ Damage

Spec == Init /\ [][Next]_vars

----------------------------------------------------------------------------
(* Types; each save under way has a temporary file of its own process to    *)
(* write to, which no other save has renamed away.                         *)
TypeOK ==
    /\ g_tmp_seq \in 0..setup.saves /\ DOMAIN temp \subseteq 0..setup.saves - 1
    /\ \A t \in Threads : saver[t] # NoDoc =>
          saver[t].doc \in Docs /\ saver[t].tmp \in DOMAIN temp \cap 0..g_tmp_seq - 1
    /\ crashes \in 0..setup.crashes /\ damages \in 0..setup.damages /\ intact \in BOOLEAN

\* What the register of the abstract specification holds.
Held == IF file = NoDoc THEN NoDoc
        ELSE IF \E d \in Docs : file = Saved[d] THEN CHOOSE d \in Docs : file = Saved[d]
        ELSE Spoilt

Register == INSTANCE StateRegister WITH content <- Held

(* persistence.cpp:344-346: "The final path is always replaced with a       *)
(* complete, verified file (last writer wins, never a torn state)": for    *)
(* the threads of one process, with crashes, failing writes and leftover   *)
(* temporaries, saving and loading act on one register, and damage to the  *)
(* file is always reported.                                                *)
ImplementsRegister == Register!Spec

(* save_state and load_state are inverse on exactly the loadable states:    *)
(* each of them comes back as it was saved, and no other one comes back.   *)
LoadsBackExactly ==
    \A d \in Docs : file = Saved[d] =>
        load_state(file) = IF Loadable(d) THEN [status |-> "ok", doc |-> d]
                           ELSE [status |-> "corrupt", doc |-> NoDoc]

(* Were the checksum to miss the damage, the decoders alone would still be   *)
(* strict: nothing they accept breaks a bound on its fields, and the counts *)
(* of lists, strings and options delimit a state, so that of what was saved *)
(* no proper prefix and nothing longer is accepted.                        *)
DecodersStrict ==
    file # NoDoc =>
        /\ LET r == deserialize(file.body) IN r.ok => Loadable(r.rec)
        /\ intact =>
              /\ \A n \in 0..Len(file.body) - 1 : ~deserialize(SubSeq(file.body, 1, n)).ok
              /\ \A n \in Noise : ~deserialize(Append(file.body, n)).ok
=============================================================================
