------------------------- MODULE CoordinatorProofs -------------------------
(***************************************************************************)
(* The safety of the coordinator and its workers, for every number of      *)
(* worker processes, every choice of their command lines, every heartbeat  *)
(* timeout and every number of restarts.                                   *)
(***************************************************************************)
EXTENDS Coordinator, TLAPS

Frames == {"Hello", "Latency", "Availability", "Heartbeat"}

\* TypeOK with the sorts of the variables it leaves out.
Types ==
    /\ \E s \in Setups : args = s.args /\ g_epoch + restarts <= s.restarts + 1
    /\ client \in [Workers -> Alive \cup {"off", "gone"}]
    /\ inbox \in [Workers -> Seq(Frames)]
    /\ \A w \in Workers : Len(inbox[w]) <= 3
    /\ handler \in [Workers -> Threads \cup {"none", "pending", "closed"}]
    /\ g_epoch \in Nat \ {0} /\ file \in Nat /\ restarts \in Nat
    /\ file <= g_epoch
    /\ g_workers \in [DOMAIN g_workers -> 0..Timeout + 1]
    /\ DOMAIN g_workers \subseteq Workers
    /\ monitor \in {"sleep", "observe", "declare"}
    /\ events \subseteq {"Observed", "Authoritative", "Restored", "Verified"}
    /\ granted \subseteq Workers /\ unsaved \in BOOLEAN

\* A Hello is the first and only frame of a connection, and unanswered.
HelloFirst ==
    \A w \in Workers : \A i \in 1..Len(inbox[w]) :
        inbox[w][i] = "Hello" => Len(inbox[w]) = 1 /\ w \notin granted

\* A process that has not connected has no thread and was granted nothing;
\* a thread, or a connection that waits for one, needs a running coordinator.
Connections ==
    \A w \in Workers :
        /\ client[w] \in {"off", "starting"} => handler[w] = "none" /\ w \notin granted
        /\ handler[w] \in Threads \cup {"pending"} => up
        /\ w \in DOMAIN g_workers => handler[w] \in Threads /\ w \in granted

\* A thread that is about to record a recovery has seen the failure declared.
RecoveryInProgress ==
    /\ g_recovery_auth => g_down_a
    /\ \A w \in Workers : handler[w] \in {"restore", "verify", "mark"} => g_recovery_auth
    /\ {"Restored", "Verified"} \cap events # {} => g_recovery_auth

\* As long as no epoch was lost: no grant is ahead of the epoch; the grants of
\* the epoch are remembered while the coordinator runs, and when it does not,
\* the file holds the epoch that the next one will leave behind.
EpochsFence ==
    ~unsaved =>
        /\ \A w \in granted : args[w].epoch \in Nat /\ args[w].epoch <= g_epoch
        /\ up => \A w \in granted : args[w].epoch = g_epoch =>
                     [name |-> args[w].name, boot |-> args[w].boot] \in g_seen_boots
        /\ ~up => file = g_epoch

CoordInv == Types /\ HelloFirst /\ Connections /\ RecoveryInProgress /\ EpochsFence /\ FencedOncePerEpoch

-----------------------------------------------------------------------------
(* What the operators on queues of frames do.                                *)

\* recv_frame takes the first frame of a queue that is not empty.
LEMMA QueueTail ==
    ASSUME NEW s \in Seq(Frames), s # <<>>
    PROVE  /\ Tail(s) \in Seq(Frames) /\ Len(Tail(s)) = Len(s) - 1 /\ Len(s) \in Nat \ {0}
           /\ Head(s) = s[1]
           /\ \A i \in 1..Len(Tail(s)) : Tail(s)[i] = s[i + 1]
  OBVIOUS

\* A killed worker leaves a prefix of what it had sent.
LEMMA QueuePrefix ==
    ASSUME NEW s \in Seq(Frames), NEW n \in 0..Len(s)
    PROVE  /\ SubSeq(s, 1, n) \in Seq(Frames) /\ Len(SubSeq(s, 1, n)) = n
           /\ n <= Len(s) /\ Len(s) \in Nat
           /\ \A i \in 1..n : SubSeq(s, 1, n)[i] = s[i]
  OBVIOUS

\* What Hello and one round of the worker put into an empty queue.
LEMMA QueueRounds ==
    /\ <<>> \in Seq(Frames) /\ Len(<<>>) = 0
    /\ <<"Hello">> \in Seq(Frames) /\ Len(<<"Hello">>) = 1
    /\ <<"Heartbeat">> \in Seq(Frames) /\ Len(<<"Heartbeat">>) = 1
    /\ \A i \in 1..1 : <<"Heartbeat">>[i] # "Hello"
    /\ <<"Latency", "Availability", "Heartbeat">> \in Seq(Frames)
    /\ Len(<<"Latency", "Availability", "Heartbeat">>) = 3
    /\ \A i \in 1..3 : <<"Latency", "Availability", "Heartbeat">>[i] # "Hello"
  BY DEF Frames

\* One queue is replaced by another and the rest stay.
LEMMA QueueUpdate ==
    ASSUME NEW w \in Workers, NEW q \in Seq(Frames), Len(q) <= 3,
           inbox' = [inbox EXCEPT ![w] = q], Types
    PROVE  /\ inbox' \in [Workers -> Seq(Frames)]
           /\ \A v \in Workers : Len(inbox'[v]) <= 3
           /\ inbox'[w] = q
           /\ \A v \in Workers : v # w => inbox'[v] = inbox[v]
  <1>1. inbox \in [Workers -> Seq(Frames)] /\ \A v \in Workers : Len(inbox[v]) <= 3
    BY DEF Types
  <1>2. inbox' \in [Workers -> Seq(Frames)] /\ inbox'[w] = q
    BY <1>1
  <1>3. \A v \in Workers : v # w => inbox'[v] = inbox[v]
    BY <1>1
  <1> QED
    BY <1>1, <1>2, <1>3

\* Reading a frame keeps every queue well formed and Hello first.
LEMMA ReadsQueue ==
    ASSUME NEW w \in Workers, NEW kind, Reads(w, kind), Types, HelloFirst
    PROVE  /\ inbox' \in [Workers -> Seq(Frames)]
           /\ \A v \in Workers : Len(inbox'[v]) <= 3
           /\ \A v \in Workers : \A i \in 1..Len(inbox'[v]) :
                 inbox'[v][i] = "Hello" => Len(inbox'[v]) = 1 /\ v \notin granted /\ v # w
           /\ kind = "Hello" => w \notin granted
  <1>1. /\ Tail(inbox[w]) \in Seq(Frames) /\ Len(Tail(inbox[w])) = Len(inbox[w]) - 1
        /\ Len(inbox[w]) \in Nat \ {0} /\ Head(inbox[w]) = inbox[w][1]
        /\ \A i \in 1..Len(Tail(inbox[w])) : Tail(inbox[w])[i] = inbox[w][i + 1]
    BY QueueTail DEF Reads, Types
  <1>2. \A i \in 1..Len(Tail(inbox[w])) : Tail(inbox[w])[i] # "Hello"
    BY <1>1 DEF HelloFirst
  <1>3. inbox' = [inbox EXCEPT ![w] = Tail(inbox[w])] /\ Len(Tail(inbox[w])) <= 3
    BY <1>1 DEF Reads, Types
  <1>4. /\ inbox' \in [Workers -> Seq(Frames)]
        /\ \A v \in Workers : Len(inbox'[v]) <= 3
        /\ inbox'[w] = Tail(inbox[w])
        /\ \A v \in Workers : v # w => inbox'[v] = inbox[v]
    BY <1>1, <1>3, QueueUpdate
  <1>5. kind = "Hello" => w \notin granted
    BY <1>1 DEF Reads, HelloFirst
  <1>6. ASSUME NEW v \in Workers, NEW i \in 1..Len(inbox'[v]), inbox'[v][i] = "Hello"
        PROVE  Len(inbox'[v]) = 1 /\ v \notin granted /\ v # w
    <2>1. v # w
      BY <1>2, <1>4, <1>6
    <2> QED
      BY <1>4, <1>6, <2>1 DEF HelloFirst
  <1> QED
    BY <1>4, <1>5, <1>6

\* The steps of the worker processes and the accept loop.
WorkerStep(w) ==
    \/ spawn(w) \/ connect(w) \/ read_ack(w) \/ worker_round(w)
    \/ kill_worker(w) \/ hang_worker(w) \/ resume_worker(w) \/ worker_cut_off(w)
    \/ accept(w)

\* What a worker process or the accept loop can change.
LEMMA WorkerSteps ==
    ASSUME NEW w \in Workers, WorkerStep(w), Types, HelloFirst, Connections
    PROVE  /\ inbox' \in [Workers -> Seq(Frames)]
           /\ \A v \in Workers : Len(inbox'[v]) <= 3
           /\ HelloFirst'
           /\ client' \in [Workers -> Alive \cup {"off", "gone"}]
           /\ handler' \in [Workers -> Threads \cup {"none", "pending", "closed"}]
           /\ UNCHANGED <<args, up, g_epoch, volatile, file, restarts, granted, unsaved>>
           /\ Connections'
           /\ \A v \in Workers : handler'[v] = handler[v] \/ handler'[v] \in {"pending", "recv"}
  <1>1. CASE spawn(w) \/ hang_worker(w) \/ resume_worker(w) \/ worker_cut_off(w) \/ read_ack(w)
    <2>1. UNCHANGED <<inbox, handler, args, up, g_epoch, volatile, file, restarts, granted, unsaved>>
      BY <1>1 DEF spawn, hang_worker, resume_worker, worker_cut_off, read_ack
    <2>2. /\ client' \in [Workers -> Alive \cup {"off", "gone"}]
          /\ \A v \in Workers : client'[v] \in {"off", "starting"} => client[v] \in {"off", "starting"}
      BY <1>1 DEF spawn, hang_worker, resume_worker, worker_cut_off, read_ack, Types, Alive
    <2>3. HelloFirst'
      BY <2>1 DEF HelloFirst
    <2> QED
      BY <2>1, <2>2, <2>3 DEF Types, Connections, volatile
  <1>2. CASE connect(w)
    <2>1. /\ inbox' \in [Workers -> Seq(Frames)]
          /\ \A v \in Workers : Len(inbox'[v]) <= 3
          /\ HelloFirst'
      <3>1. CASE up
        <4>1. inbox' = [inbox EXCEPT ![w] = <<"Hello">>] /\ UNCHANGED granted /\ w \notin granted
          BY <1>2, <3>1 DEF connect, Connections
        <4>2. /\ inbox' \in [Workers -> Seq(Frames)]
              /\ \A v \in Workers : Len(inbox'[v]) <= 3
              /\ inbox'[w] = <<"Hello">>
              /\ \A v \in Workers : v # w => inbox'[v] = inbox[v]
          <5> DEFINE q == <<"Hello">>
          <5>1. q \in Seq(Frames) /\ Len(q) <= 3 /\ inbox' = [inbox EXCEPT ![w] = q]
            BY <4>1, QueueRounds
          <5> HIDE DEF q
          <5>2. /\ inbox' \in [Workers -> Seq(Frames)]
                /\ \A v \in Workers : Len(inbox'[v]) <= 3
                /\ inbox'[w] = q
                /\ \A v \in Workers : v # w => inbox'[v] = inbox[v]
            BY <5>1, QueueUpdate
          <5> QED
            BY <5>2 DEF q
        <4>3. ASSUME NEW v \in Workers, NEW i \in 1..Len(inbox'[v]), inbox'[v][i] = "Hello"
              PROVE  Len(inbox'[v]) = 1 /\ v \notin granted'
          <5>1. CASE v = w
            BY <4>1, <4>2, <5>1, QueueRounds
          <5>2. CASE v # w
            <6>1. inbox'[v] = inbox[v]
              BY <4>2, <5>2
            <6> QED
              BY <4>1, <4>3, <6>1 DEF HelloFirst
          <5> QED
            BY <5>1, <5>2
        <4> QED
          BY <4>2, <4>3 DEF HelloFirst
      <3>2. CASE ~up
        BY <1>2, <3>2 DEF connect, Types, HelloFirst
      <3> QED
        BY <3>1, <3>2
    <2>3. /\ client' \in [Workers -> Alive \cup {"off", "gone"}]
          /\ handler' \in [Workers -> Threads \cup {"none", "pending", "closed"}]
          /\ \A v \in Workers : handler'[v] = handler[v] \/ handler'[v] \in {"pending", "recv"}
      BY <1>2 DEF connect, Types, Alive
    <2>4. Connections'
      BY <1>2 DEF connect, Types, Connections, volatile, Threads
    <2> QED
      BY <1>2, <2>1, <2>3, <2>4 DEF connect
  <1>3. CASE worker_round(w)
    BY <1>3, QueueRounds DEF worker_round, Types, HelloFirst, Connections, volatile
  <1>4. CASE kill_worker(w)
    <2>1. PICK n \in 0..Len(inbox[w]) : inbox' = [inbox EXCEPT ![w] = SubSeq(@, 1, n)]
      BY <1>4 DEF kill_worker
    <2>2. /\ SubSeq(inbox[w], 1, n) \in Seq(Frames) /\ Len(SubSeq(inbox[w], 1, n)) = n
          /\ n <= Len(inbox[w]) /\ Len(inbox[w]) \in Nat
          /\ \A i \in 1..n : SubSeq(inbox[w], 1, n)[i] = inbox[w][i]
      BY QueuePrefix DEF Types
    <2>3. /\ inbox' \in [Workers -> Seq(Frames)]
          /\ \A v \in Workers : Len(inbox'[v]) <= 3
          /\ inbox'[w] = SubSeq(inbox[w], 1, n)
          /\ \A v \in Workers : v # w => inbox'[v] = inbox[v]
      <3>1. Len(inbox[w]) <= 3
        BY DEF Types
      <3> DEFINE q == SubSeq(inbox[w], 1, n)
      <3>2. q \in Seq(Frames) /\ Len(q) <= 3 /\ inbox' = [inbox EXCEPT ![w] = q]
        BY <2>1, <2>2, <3>1
      <3> HIDE DEF q
      <3>3. /\ inbox' \in [Workers -> Seq(Frames)]
            /\ \A v \in Workers : Len(inbox'[v]) <= 3
            /\ inbox'[w] = q
            /\ \A v \in Workers : v # w => inbox'[v] = inbox[v]
        BY <3>2, QueueUpdate
      <3> QED
        BY <3>3 DEF q
    <2>4. HelloFirst'
      <3>1. UNCHANGED granted
        BY <1>4 DEF kill_worker
      <3>2. ASSUME NEW v \in Workers, NEW i \in 1..Len(inbox'[v]), inbox'[v][i] = "Hello"
            PROVE  Len(inbox'[v]) = 1 /\ v \notin granted
        <4>1. CASE v = w
          BY <2>2, <2>3, <3>2, <4>1 DEF HelloFirst
        <4>2. CASE v # w
          <5>1. inbox'[v] = inbox[v]
            BY <2>3, <4>2
          <5> QED
            BY <3>2, <5>1 DEF HelloFirst
        <4> QED
          BY <4>1, <4>2
      <3> QED
        BY <3>1, <3>2 DEF HelloFirst
    <2> QED
      BY <1>4, <2>3, <2>4 DEF kill_worker, Types, Connections, volatile, Running, Alive
  <1>5. CASE accept(w)
    BY <1>5 DEF accept, Types, HelloFirst, Connections, volatile, Threads
  <1> QED
    BY <1>1, <1>2, <1>3, <1>4, <1>5 DEF WorkerStep

\* A worker process and the accept loop preserve the invariant.
LEMMA WorkerInv ==
    ASSUME NEW w \in Workers, WorkerStep(w), CoordInv
    PROVE  CoordInv'
  <1> USE DEF CoordInv
  <1>0. /\ inbox' \in [Workers -> Seq(Frames)]
        /\ \A v \in Workers : Len(inbox'[v]) <= 3
        /\ HelloFirst'
        /\ client' \in [Workers -> Alive \cup {"off", "gone"}]
        /\ handler' \in [Workers -> Threads \cup {"none", "pending", "closed"}]
        /\ UNCHANGED <<args, up, g_epoch, volatile, file, restarts, granted, unsaved>>
        /\ Connections'
        /\ \A v \in Workers : handler'[v] = handler[v] \/ handler'[v] \in {"pending", "recv"}
    BY WorkerSteps
  <1>1. Types'
    BY <1>0 DEF Types, volatile
  <1>2. RecoveryInProgress'
    BY <1>0 DEF RecoveryInProgress, volatile
  <1>3. EpochsFence' /\ FencedOncePerEpoch'
    BY <1>0, ZenonT(60) DEF EpochsFence, FencedOncePerEpoch, volatile
  <1> QED
    BY <1>0, <1>1, <1>2, <1>3

-----------------------------------------------------------------------------
(* The handler threads.                                                      *)

\* handle_client preserves the invariant.
LEMMA HandleInv ==
    ASSUME NEW w \in Workers, Handle(w), CoordInv
    PROVE  CoordInv'
  <1> USE DEF CoordInv
  <1>1. CASE hello_refused(w)
    <2> USE <1>1 DEF hello_refused
    <2>1. /\ inbox' \in [Workers -> Seq(Frames)]
          /\ \A v \in Workers : Len(inbox'[v]) <= 3
          /\ \A v \in Workers : \A i \in 1..Len(inbox'[v]) :
                inbox'[v][i] = "Hello" => Len(inbox'[v]) = 1 /\ v \notin granted /\ v # w
          /\ w \notin granted
      BY ReadsQueue
    <2>2. Types'
      BY <2>1 DEF Types, Answer, volatile, Alive
    <2>3. HelloFirst'
      BY <2>1 DEF HelloFirst
    <2>4. Connections'
      BY <2>1 DEF Connections, Types, Answer, volatile, Threads, Reads
    <2>5. RecoveryInProgress' /\ EpochsFence' /\ FencedOncePerEpoch'
      BY DEF RecoveryInProgress, EpochsFence, FencedOncePerEpoch, volatile, Types
    <2> QED
      BY <2>2, <2>3, <2>4, <2>5
  <1>2. CASE hello_accepted(w)
    <2> USE <1>2 DEF hello_accepted
    <2>1. /\ inbox' \in [Workers -> Seq(Frames)]
          /\ \A v \in Workers : Len(inbox'[v]) <= 3
          /\ \A v \in Workers : \A i \in 1..Len(inbox'[v]) :
                inbox'[v][i] = "Hello" => Len(inbox'[v]) = 1 /\ v \notin granted /\ v # w
          /\ w \notin granted
      BY ReadsQueue
    <2>2. /\ handler' \in [Workers -> Threads \cup {"none", "pending", "closed"}]
          /\ \A v \in Workers : v # w => handler'[v] = handler[v]
          /\ handler[w] = "recv" /\ handler'[w] = "ack"
      BY DEF Types, Threads, Reads
    <2>3. Types'
      <3>1. /\ DOMAIN g_workers' = DOMAIN g_workers \cup {w}
            /\ g_workers' \in [DOMAIN g_workers \cup {w} -> 0..Timeout + 1]
        BY TimeoutAssumption DEF Types
      <3> QED
        BY <2>1, <2>2, <3>1 DEF Types
    <2>4. HelloFirst'
      BY <2>1 DEF HelloFirst
    <2>5. Connections'
      BY <2>2 DEF Connections, Types, Threads, Reads
    <2>6. RecoveryInProgress'
      BY <2>2 DEF RecoveryInProgress
    <2>7. EpochsFence'
      BY DEF EpochsFence, stale_epoch, Types, Connections, Reads, Threads
    <2>8. FencedOncePerEpoch'
      <3> DEFINE id(v) == [name |-> args[v].name, boot |-> args[v].boot]
      <3> SUFFICES ASSUME ~unsaved, NEW v \in granted, v # w
                   PROVE  \/ args[w].name # args[v].name \/ args[w].boot # args[v].boot
                          \/ args[w].epoch # args[v].epoch
        BY DEF FencedOncePerEpoch
      <3>1. up
        BY DEF Connections, Reads, Threads
      <3>2. CASE args[v].epoch = g_epoch
        <4>1. id(v) \in g_seen_boots /\ id(w) \notin g_seen_boots
          BY <3>1, <3>2 DEF EpochsFence, stale_boot
        <4>2. id(v) # id(w)
          BY <4>1
        <4> QED
          BY <4>2
      <3>3. CASE args[v].epoch # g_epoch
        BY <3>3 DEF stale_epoch
      <3> QED
        BY <3>2, <3>3
    <2> QED
      BY <2>3, <2>4, <2>5, <2>6, <2>7, <2>8
  <1>3. CASE send_ack(w)
    <2> USE <1>3 DEF send_ack
    <2>1. /\ client' \in [Workers -> Alive \cup {"off", "gone"}]
          /\ \A v \in Workers : client'[v] = client[v] \/ client'[v] = "granted"
          /\ handler' \in [Workers -> Threads \cup {"none", "pending", "closed"}]
          /\ \A v \in Workers : v # w => handler'[v] = handler[v]
          /\ handler[w] = "ack" /\ handler'[w] = "recv"
      BY DEF Types, Threads, Answer, Alive
    <2>2. Types' /\ HelloFirst'
      BY <2>1 DEF Types, HelloFirst, volatile
    <2>3. Connections' /\ RecoveryInProgress'
      BY <2>1 DEF Connections, RecoveryInProgress, volatile, Threads
    <2>4. EpochsFence' /\ FencedOncePerEpoch'
      BY DEF EpochsFence, FencedOncePerEpoch, volatile
    <2> QED
      BY <2>2, <2>3, <2>4
  <1>4. CASE evidence(w)
    <2> USE <1>4 DEF evidence
    <2>1. /\ inbox' \in [Workers -> Seq(Frames)]
          /\ \A v \in Workers : Len(inbox'[v]) <= 3
          /\ \A v \in Workers : \A i \in 1..Len(inbox'[v]) :
                inbox'[v][i] = "Hello" => Len(inbox'[v]) = 1 /\ v \notin granted /\ v # w
      BY ReadsQueue
    <2>2. /\ handler' \in [Workers -> Threads \cup {"none", "pending", "closed"}]
          /\ \A v \in Workers : v # w => handler'[v] = handler[v]
          /\ handler[w] = "recv" /\ handler'[w] \in {"restore", "touch"}
          /\ handler'[w] = "restore" => g_recovery_auth
      BY DEF Types, Threads, restores, Reads
    <2>3. Types'
      BY <2>1, <2>2 DEF Types, volatile
    <2>4. HelloFirst'
      BY <2>1 DEF HelloFirst
    <2>5. Connections' /\ RecoveryInProgress'
      BY <2>2 DEF Connections, RecoveryInProgress, volatile, Threads
    <2>6. EpochsFence' /\ FencedOncePerEpoch'
      BY DEF EpochsFence, FencedOncePerEpoch, volatile
    <2> QED
      BY <2>3, <2>4, <2>5, <2>6
  <1>5. CASE mark_recovery(w)
    <2> USE <1>5 DEF mark_recovery
    <2>1. /\ handler' \in [Workers -> Threads \cup {"none", "pending", "closed"}]
          /\ \A v \in Workers : v # w => handler'[v] = handler[v]
          /\ handler[w] \in {"restore", "verify", "mark"}
          /\ handler'[w] \in {"verify", "mark", "touch"}
          /\ events' \subseteq {"Observed", "Authoritative", "Restored", "Verified"}
      BY DEF Types, Threads
    <2>2. Types' /\ HelloFirst'
      BY <2>1 DEF Types, HelloFirst
    <2>3. Connections' /\ RecoveryInProgress'
      BY <2>1 DEF Connections, RecoveryInProgress, Threads
    <2>4. EpochsFence' /\ FencedOncePerEpoch'
      BY DEF EpochsFence, FencedOncePerEpoch
    <2> QED
      BY <2>2, <2>3, <2>4
  <1>6. CASE heartbeat(w)
    <2> USE <1>6 DEF heartbeat
    <2>1. /\ inbox' \in [Workers -> Seq(Frames)]
          /\ \A v \in Workers : Len(inbox'[v]) <= 3
          /\ HelloFirst'
      BY ReadsQueue DEF Types, HelloFirst
    <2>2. /\ DOMAIN g_workers' = DOMAIN g_workers
          /\ g_workers' \in [DOMAIN g_workers -> 0..Timeout + 1]
      BY TimeoutAssumption DEF Fresh, Types
    <2>3. /\ handler' \in [Workers -> Threads \cup {"none", "pending", "closed"}]
          /\ \A v \in Workers : v # w => handler'[v] = handler[v]
          /\ handler[w] \in Threads /\ handler'[w] = "recv"
      BY DEF Types, Threads, Reads
    <2>4. Types'
      BY <2>1, <2>2, <2>3 DEF Types
    <2>5. Connections' /\ RecoveryInProgress'
      BY <2>2, <2>3 DEF Connections, RecoveryInProgress, Threads
    <2>6. EpochsFence' /\ FencedOncePerEpoch'
      BY DEF EpochsFence, FencedOncePerEpoch
    <2> QED
      BY <2>1, <2>4, <2>5, <2>6
  <1>7. CASE disconnect(w)
    <2> USE <1>7 DEF disconnect
    <2>1. /\ DOMAIN g_workers' = DOMAIN g_workers \ {w}
          /\ g_workers' \in [DOMAIN g_workers \ {w} -> 0..Timeout + 1]
      BY DEF Without, Types
    <2>2. /\ handler' \in [Workers -> Threads \cup {"none", "pending", "closed"}]
          /\ \A v \in Workers : v # w => handler'[v] = handler[v]
          /\ handler'[w] = "closed" /\ client[w] \notin {"off", "starting"}
      BY DEF Types, Connections, Running, Alive
    <2>3. Types' /\ HelloFirst'
      BY <2>1, <2>2 DEF Types, HelloFirst
    <2>4. Connections' /\ RecoveryInProgress'
      BY <2>1, <2>2 DEF Connections, RecoveryInProgress, Threads
    <2>5. EpochsFence' /\ FencedOncePerEpoch'
      BY DEF EpochsFence, FencedOncePerEpoch
    <2> QED
      BY <2>3, <2>4, <2>5
  <1> QED
    BY <1>1, <1>2, <1>3, <1>4, <1>5, <1>6, <1>7 DEF Handle

-----------------------------------------------------------------------------
(* The monitor, time, and the life of the process.                           *)

\* monitor_loop and the passage of time preserve the invariant.
LEMMA MonitorInv ==
    ASSUME monitor_pass \/ tick, CoordInv
    PROVE  CoordInv'
  <1> USE DEF CoordInv
  <1>1. CASE monitor_pass
    <2> USE <1>1 DEF monitor_pass
    <2>1. Types' /\ HelloFirst' /\ Connections'
      BY DEF Types, HelloFirst, Connections
    <2>2. RecoveryInProgress'
      BY DEF RecoveryInProgress
    <2>3. EpochsFence' /\ FencedOncePerEpoch'
      BY DEF EpochsFence, FencedOncePerEpoch
    <2> QED
      BY <2>1, <2>2, <2>3
  <1>2. CASE tick
    <2> USE <1>2 DEF tick
    <2>1. /\ DOMAIN g_workers' = DOMAIN g_workers
          /\ g_workers' \in [DOMAIN g_workers -> 0..Timeout + 1]
      BY TimeoutAssumption DEF Types
    <2>2. Types'
      BY <2>1 DEF Types
    <2>3. HelloFirst' /\ Connections'
      BY <2>1 DEF HelloFirst, Connections
    <2>4. RecoveryInProgress'
      BY DEF RecoveryInProgress
    <2>5. EpochsFence' /\ FencedOncePerEpoch'
      BY DEF EpochsFence, FencedOncePerEpoch
    <2> QED
      BY <2>2, <2>3, <2>4, <2>5
  <1> QED
    BY <1>1, <1>2

\* A save, the end of the process and its restart preserve the invariant.
LEMMA ProcessInv ==
    ASSUME shutdown_frame \/ kill_frame \/ crash \/ restart \/ listen_fails, CoordInv
    PROVE  CoordInv'
  <1> USE DEF CoordInv
  <1>1. CASE shutdown_frame
    <2> USE <1>1 DEF shutdown_frame, saved_epoch
    <2>1. Types' /\ HelloFirst'
      BY DEF Types, HelloFirst, volatile
    <2>2. Connections' /\ RecoveryInProgress'
      BY DEF Connections, RecoveryInProgress, volatile
    <2>3. EpochsFence' /\ FencedOncePerEpoch'
      BY DEF EpochsFence, FencedOncePerEpoch, volatile
    <2> QED
      BY <2>1, <2>2, <2>3
  <1>2. CASE kill_frame \/ crash
    <2>1. Stops /\ file' \in {file, g_epoch} /\ (unsaved => unsaved')
          /\ (~unsaved' => file' = g_epoch) /\ unsaved' \in BOOLEAN
      <3>1. CASE kill_frame
        BY <3>1 DEF kill_frame, saved_epoch, Types
      <3>2. CASE crash
        BY <3>2 DEF crash, Types
      <3> QED
        BY <1>2, <3>1, <3>2
    <2> USE <2>1 DEF Stops
    <2>2. /\ inbox' \in [Workers -> Seq(Frames)]
          /\ \A v \in Workers : Len(inbox'[v]) <= 3
          /\ HelloFirst'
      BY QueueRounds DEF HelloFirst
    <2>3. /\ DOMAIN g_workers' = {}
          /\ g_workers' \in [DOMAIN g_workers' -> 0..Timeout + 1]
      OBVIOUS
    <2>4. handler' \in [Workers -> {"none", "closed"}]
      OBVIOUS
    <2>5. Types'
      BY <2>2, <2>3, <2>4 DEF Types
    <2>6. Connections'
      BY <2>3, <2>4 DEF Connections, Types, Threads
    <2>7. RecoveryInProgress'
      BY <2>4 DEF RecoveryInProgress
    <2>8. EpochsFence' /\ FencedOncePerEpoch'
      BY DEF EpochsFence, FencedOncePerEpoch
    <2> QED
      BY <2>2, <2>5, <2>6, <2>7, <2>8
  <1>3. CASE restart
    <2> USE <1>3 DEF restart, loaded_epoch
    <2>1. Types' /\ HelloFirst'
      BY SetupsAssumption DEF Types, HelloFirst, volatile
    <2>2. Connections' /\ RecoveryInProgress'
      BY DEF Connections, RecoveryInProgress, volatile
    <2>3. EpochsFence' /\ FencedOncePerEpoch'
      BY DEF EpochsFence, FencedOncePerEpoch, Types
    <2> QED
      BY <2>1, <2>2, <2>3
  <1>4. CASE listen_fails
    <2> USE <1>4 DEF listen_fails
    <2>1. Types' /\ HelloFirst'
      BY SetupsAssumption DEF Types, HelloFirst, volatile
    <2>2. Connections' /\ RecoveryInProgress'
      BY DEF Connections, RecoveryInProgress, volatile
    <2>3. EpochsFence' /\ FencedOncePerEpoch'
      BY DEF EpochsFence, FencedOncePerEpoch, volatile
    <2> QED
      BY <2>1, <2>2, <2>3
  <1> QED
    BY <1>1, <1>2, <1>3, <1>4

-----------------------------------------------------------------------------
\* The invariant holds in every state of the coordinator and its workers.
LEMMA CoordInvariant == Spec => []CoordInv
  <1>1. Init => CoordInv
    <2> SUFFICES ASSUME Init PROVE CoordInv
      OBVIOUS
    <2> USE DEF Init
    <2>1. Types
      <3>1. /\ inbox \in [Workers -> Seq(Frames)]
            /\ \A w \in Workers : Len(inbox[w]) <= 3
        BY QueueRounds
      <3>2. /\ \E s \in Setups : args = s.args /\ g_epoch + restarts <= s.restarts + 1
            /\ restarts \in Nat
        BY SetupsAssumption
      <3>3. DOMAIN g_workers = {} /\ g_workers \in [DOMAIN g_workers -> 0..Timeout + 1]
        OBVIOUS
      <3>4. /\ client \in [Workers -> Alive \cup {"off", "gone"}]
            /\ handler \in [Workers -> Threads \cup {"none", "pending", "closed"}]
        OBVIOUS
      <3>5. DOMAIN g_workers \subseteq Workers
        BY <3>3
      <3>6. /\ g_epoch \in Nat \ {0} /\ file \in Nat /\ file <= g_epoch
            /\ monitor \in {"sleep", "observe", "declare"}
            /\ events \subseteq {"Observed", "Authoritative", "Restored", "Verified"}
            /\ granted \subseteq Workers
        OBVIOUS
      <3>7. unsaved \in BOOLEAN
        OBVIOUS
      <3> HIDE DEF Init
      <3> QED
        BY <3>1, <3>2, <3>3, <3>4, <3>5, <3>6, <3>7 DEF Types
    <2>2. HelloFirst
      BY QueueRounds DEF HelloFirst
    <2>3. Connections /\ RecoveryInProgress /\ EpochsFence /\ FencedOncePerEpoch
      BY DEF Connections, RecoveryInProgress, EpochsFence, FencedOncePerEpoch, Threads
    <2> QED
      BY <2>1, <2>2, <2>3 DEF CoordInv
  <1>2. CoordInv /\ [Next]_vars => CoordInv'
    <2> SUFFICES ASSUME CoordInv, [Next]_vars PROVE CoordInv'
      OBVIOUS
    <2>1. CASE \E w \in Workers : WorkerStep(w)
      BY <2>1, WorkerInv
    <2>2. CASE \E w \in Workers : Handle(w)
      BY <2>2, HandleInv
    <2>3. CASE monitor_pass \/ tick
      BY <2>3, MonitorInv
    <2>4. CASE shutdown_frame \/ kill_frame \/ crash \/ restart \/ listen_fails
      BY <2>4, ProcessInv
    <2>5. CASE UNCHANGED vars
      BY <2>5 DEF vars, volatile, CoordInv, Types, HelloFirst, Connections,
                  RecoveryInProgress, EpochsFence, FencedOncePerEpoch
    <2> QED
      BY <2>1, <2>2, <2>3, <2>4, <2>5 DEF Next, WorkerStep
  <1> QED
    BY <1>1, <1>2, PTL DEF Spec

(* The queues of a connection stay within one round, the file never runs    *)
(* ahead of the coordinator's epoch, and each restart advances the epoch   *)
(* by at most one (coordinator_main.cpp, main and handle_client).          *)
THEOREM CoordinatorTypes == Spec => []TypeOK
  <1>1. CoordInv => TypeOK
    BY DEF CoordInv, Types, TypeOK
  <1> QED
    BY <1>1, CoordInvariant, PTL

(* monitor_loop never meets the entry of a connection whose handler thread  *)
(* has ended, nor of a worker that was refused, however workers connect,   *)
(* hang, die and are cut off, and however often the coordinator restarts.  *)
THEOREM EntriesAreLive == Spec => []EntriesHaveHandlers
  <1>1. CoordInv => EntriesHaveHandlers
    BY DEF CoordInv, Types, Connections, EntriesHaveHandlers
  <1> QED
    BY <1>1, CoordInvariant, PTL

(* The boot-id and epoch checks of handle_client grant each name and boot   *)
(* id at most once per epoch, over all incarnations of the coordinator     *)
(* that ended with their epoch in the state file.                          *)
THEOREM FencingHolds == Spec => []FencedOncePerEpoch
  <1>1. CoordInv => FencedOncePerEpoch
    BY DEF CoordInv
  <1> QED
    BY <1>1, CoordInvariant, PTL

(* handle_client records Restored and Verified, which it does in separate   *)
(* steps without g_mu, only when monitor_loop has declared A down in the   *)
(* same incarnation of the coordinator.                                    *)
THEOREM RecoveryFollowsFailure == Spec => []RecoveryNeedsFailure
  <1>1. CoordInv => RecoveryNeedsFailure
    BY DEF CoordInv, RecoveryInProgress, RecoveryNeedsFailure
  <1> QED
    BY <1>1, CoordInvariant, PTL
=============================================================================
