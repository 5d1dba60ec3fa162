---------------------------- MODULE Coordinator ----------------------------
(***************************************************************************)
(* The distributed deployment: a coordinator process with one thread per   *)
(* connection, a monitor thread and an accept loop (coordinator_main.cpp), *)
(* worker processes that register and serve (worker_main.cpp), and the     *)
(* operator who spawns and kills processes (distributed_proof.cpp).        *)
(*                                                                         *)
(* A worker process has one connection, which gives the socket, its        *)
(* handler thread and its g_workers entry the name of the worker.  Frames  *)
(* arrive whole and in order (module Transport).  The fabric is reduced to *)
(* its epoch and its recovery account; ages of heartbeats replace times.   *)
(***************************************************************************)
EXTENDS Naturals, Sequences, FiniteSets

CONSTANTS
    Workers,        \* worker processes the operator may spawn, each once
    Setups,         \* command lines [Workers -> [name, boot, epoch, serve]], each
                    \* with a bound on the restarts of the coordinator
    Timeout         \* the 2000 ms of monitor_loop, in ticks

ASSUME TimeoutAssumption == Timeout \in Nat

ASSUME SetupsAssumption == \A s \in Setups : s.restarts \in Nat

VARIABLES
    args,           \* the command lines of this behaviour
    client,         \* per worker process: where it is
    inbox,          \* per worker: frames sent and not yet read by the handler
    handler,        \* per worker: where its handle_client thread is
    up,             \* is the coordinator process running
    g_epoch,
    g_seen_boots,   \* names with the boot ids they have used
    g_workers,      \* registered connections, with the age of the last heartbeat
    g_down_a,
    g_recovery_auth,
    g_recovery_verified,
    monitor,        \* where monitor_loop is; it holds g_mu unless it sleeps
    events,         \* recovery phases recorded in the fabric
    file,           \* the epoch in the state file, 0 when there is none
    restarts,       \* restarts the bound still allows
    granted,        \* history: processes whose registration was granted
    unsaved         \* history: a coordinator ended without its epoch in the file

volatile == <<g_seen_boots, g_workers, g_down_a, g_recovery_auth,
              g_recovery_verified, monitor, events>>
vars == <<args, client, inbox, handler, up, g_epoch, volatile, file, restarts,
          granted, unsaved>>

Bootless == 1001    \* the boot id whose evidence never verifies a recovery

Alive == {"starting", "hello", "granted", "refused", "serving", "hung"}
Running(w) == client[w] \in Alive
Threads == {"recv", "ack", "restore", "verify", "mark", "touch"}

Init ==
    /\ \E s \in Setups : args = s.args /\ restarts = s.restarts
    /\ client = [w \in Workers |-> "off"]
    /\ inbox = [w \in Workers |-> <<>>]
    /\ handler = [w \in Workers |-> "none"]
    /\ up = TRUE /\ g_epoch = 1 /\ file = 0
    /\ g_seen_boots = {} /\ g_workers = <<>>
    /\ g_down_a = FALSE /\ g_recovery_auth = FALSE /\ g_recovery_verified = FALSE
    /\ monitor = "sleep" /\ events = {}
    /\ granted = {} /\ unsaved = FALSE

----------------------------------------------------------------------------
(* Worker processes                                                        *)

(* The operator starts a worker process.                                   *)
spawn(w) ==
    /\ client[w] = "off"
    /\ client' = [client EXCEPT ![w] = "starting"]
    /\ UNCHANGED <<args, inbox, handler, up, g_epoch, volatile, file, restarts, granted, unsaved>>

(* It connects and sends Hello, or exits because nobody listens.            *)
connect(w) ==
    /\ client[w] = "starting"
    /\ \/ /\ up
          /\ client' = [client EXCEPT ![w] = "hello"]
          /\ inbox' = [inbox EXCEPT ![w] = <<"Hello">>]
          /\ handler' = [handler EXCEPT ![w] = "pending"]
       \/ /\ ~up
          /\ client' = [client EXCEPT ![w] = "gone"]
          /\ UNCHANGED <<inbox, handler>>
    /\ UNCHANGED <<args, up, g_epoch, volatile, file, restarts, granted, unsaved>>

(* The worker reads its RegisterAck: it serves, or exits with code 2.       *)
read_ack(w) ==
    /\ client[w] \in {"granted", "refused"}
    /\ client' = [client EXCEPT ![w] = IF @ = "granted" THEN "serving" ELSE "gone"]
    /\ UNCHANGED <<args, inbox, handler, up, g_epoch, volatile, file, restarts, granted, unsaved>>

(* One round of the worker's loop: its evidence, if it serves, and a        *)
(* heartbeat.  A kill that falls inside the round drops the rest of it.    *)
worker_round(w) ==
    /\ client[w] = "serving" /\ inbox[w] = <<>> /\ handler[w] # "closed"
    /\ inbox' = [inbox EXCEPT ![w] =
          IF args[w].serve THEN <<"Latency", "Availability", "Heartbeat">> ELSE <<"Heartbeat">>]
    /\ UNCHANGED <<args, client, handler, up, g_epoch, volatile, file, restarts, granted, unsaved>>

(* The process is killed; what it had already sent is still delivered.      *)
kill_worker(w) ==
    /\ Running(w)
    /\ client' = [client EXCEPT ![w] = "gone"]
    /\ \E n \in 0..Len(inbox[w]) : inbox' = [inbox EXCEPT ![w] = SubSeq(@, 1, n)]
    /\ UNCHANGED <<args, handler, up, g_epoch, volatile, file, restarts, granted, unsaved>>

(* The process stops, or is cut off, without its connection being closed.   *)
hang_worker(w) ==
    /\ client[w] = "serving"
    /\ client' = [client EXCEPT ![w] = "hung"]
    /\ UNCHANGED <<args, inbox, handler, up, g_epoch, volatile, file, restarts, granted, unsaved>>

resume_worker(w) ==
    /\ client[w] = "hung"
    /\ client' = [client EXCEPT ![w] = "serving"]
    /\ UNCHANGED <<args, inbox, handler, up, g_epoch, volatile, file, restarts, granted, unsaved>>

(* The connection is gone: recv_frame fails in a worker that waits for its  *)
(* ack, a write raises SIGPIPE in one that serves.                         *)
worker_cut_off(w) ==
    /\ client[w] \in {"hello", "serving"} /\ handler[w] = "closed"
    /\ client' = [client EXCEPT ![w] = "gone"]
    /\ UNCHANGED <<args, inbox, handler, up, g_epoch, volatile, file, restarts, granted, unsaved>>

----------------------------------------------------------------------------
(* The handler thread of a connection: handle_client                       *)

accept(w) ==
    /\ up /\ handler[w] = "pending"
    /\ handler' = [handler EXCEPT ![w] = "recv"]
    /\ UNCHANGED <<args, client, inbox, up, g_epoch, volatile, file, restarts, granted, unsaved>>

Reads(w, kind) ==
    /\ handler[w] = "recv" /\ inbox[w] # <<>> /\ Head(inbox[w]) = kind
    /\ inbox' = [inbox EXCEPT ![w] = Tail(@)]

stale_epoch(w) == args[w].epoch # g_epoch

stale_boot(w) == [name |-> args[w].name, boot |-> args[w].boot] \in g_seen_boots

\* The name of a worker whose Hello cannot be decoded: one of over 256 bytes.
TooLong == "TooLong"

malformed(w) == args[w].name = TooLong

\* What handle_client looks at in turn: the frame, its epoch, and under g_mu
\* its boot id.
refuses(w) ==
    malformed(w) \/ stale_epoch(w) \/ (monitor = "sleep" /\ stale_boot(w))

Answer(w, answer) ==
    client' = [client EXCEPT ![w] = IF @ = "hello" THEN answer ELSE @]

\* Mutant: the refusal is neither sent nor is the connection closed.
hello_refused_silently(w) ==
    /\ Reads(w, "Hello")
    /\ refuses(w)
    /\ UNCHANGED <<args, client, handler, up, g_epoch, volatile, file, restarts, granted, unsaved>>

(* A Hello that is malformed, of another epoch, or with a boot id already   *)
(* used for this name, is refused and the connection closed, without the   *)
(* cleanup at the end of handle_client; any other one is registered.       *)
hello_refused(w) ==
    /\ Reads(w, "Hello")
    /\ refuses(w)
    /\ Answer(w, "refused")
    /\ handler' = [handler EXCEPT ![w] = "closed"]
    /\ UNCHANGED <<args, up, g_epoch, volatile, file, restarts, granted, unsaved>>

hello_accepted(w) ==
    /\ Reads(w, "Hello") /\ monitor = "sleep"
    /\ ~malformed(w) /\ ~stale_epoch(w) /\ ~stale_boot(w)
    /\ g_seen_boots' = g_seen_boots \cup {[name |-> args[w].name, boot |-> args[w].boot]}
    /\ g_workers' = [v \in DOMAIN g_workers \cup {w} |-> IF v = w THEN 0 ELSE g_workers[v]]
    /\ granted' = granted \cup {w}
    /\ handler' = [handler EXCEPT ![w] = "ack"]
    /\ UNCHANGED <<args, client, up, g_epoch, g_down_a, g_recovery_auth,
                   g_recovery_verified, monitor, events, file, restarts, unsaved>>

(* The RegisterAck is sent after g_mu is released.                          *)
send_ack(w) ==
    /\ handler[w] = "ack"
    /\ Answer(w, "granted")
    /\ handler' = [handler EXCEPT ![w] = "recv"]
    /\ UNCHANGED <<args, inbox, up, g_epoch, volatile, file, restarts, granted, unsaved>>

\* Mutant: any evidence after the start verifies a recovery.
restores_always(w) == ~g_recovery_verified /\ args[w].boot # Bootless

\* Mutant: the first worker to serve has to wait for a second one.
restores_again(w) == g_recovery_auth /\ g_recovery_verified /\ args[w].boot # Bootless

\* A serving worker after a failure marks the recovery.
restores(w) == g_recovery_auth /\ ~g_recovery_verified /\ args[w].boot # Bootless

(* Evidence is ingested, after which a latency record may mark the recovery.*)
evidence(w) ==
    /\ \/ /\ Reads(w, "Latency")
          /\ handler' = [handler EXCEPT ![w] =
                IF ~stale_epoch(w) /\ restores(w) THEN "restore" ELSE "touch"]
       \/ /\ Reads(w, "Availability")
          /\ handler' = [handler EXCEPT ![w] = "touch"]
    /\ UNCHANGED <<args, client, up, g_epoch, volatile, file, restarts, granted, unsaved>>

(* The two recovery events and the flag, each a step of its own.            *)
mark_recovery(w) ==
    /\ \/ /\ handler[w] = "restore" /\ handler' = [handler EXCEPT ![w] = "verify"]
          /\ events' = events \cup {"Restored"} /\ UNCHANGED g_recovery_verified
       \/ /\ handler[w] = "verify" /\ handler' = [handler EXCEPT ![w] = "mark"]
          /\ events' = events \cup {"Verified"} /\ UNCHANGED g_recovery_verified
       \/ /\ handler[w] = "mark" /\ handler' = [handler EXCEPT ![w] = "touch"]
          /\ g_recovery_verified' = TRUE /\ UNCHANGED events
    /\ UNCHANGED <<args, client, inbox, up, g_epoch, g_seen_boots, g_workers, g_down_a,
                   g_recovery_auth, monitor, file, restarts, granted, unsaved>>

Fresh(w) == g_workers' = IF w \in DOMAIN g_workers THEN [g_workers EXCEPT ![w] = 0] ELSE g_workers

(* After evidence and on a heartbeat: last_hb_ms, under g_mu.               *)
heartbeat(w) ==
    /\ monitor = "sleep"
    /\ \/ handler[w] = "touch" /\ UNCHANGED inbox
       \/ Reads(w, "Heartbeat")
    /\ Fresh(w)
    /\ handler' = [handler EXCEPT ![w] = "recv"]
    /\ UNCHANGED <<args, client, up, g_epoch, g_seen_boots, g_down_a, g_recovery_auth,
                   g_recovery_verified, monitor, events, file, restarts, granted, unsaved>>

Without(w) == [v \in DOMAIN g_workers \ {w} |-> g_workers[v]]

\* Mutant: the entry of a closed connection stays.
disconnect_keep(w) ==
    /\ handler[w] = "recv" /\ inbox[w] = <<>> /\ ~Running(w)
    /\ monitor = "sleep"
    /\ handler' = [handler EXCEPT ![w] = "closed"]
    /\ UNCHANGED <<args, client, inbox, up, g_epoch, volatile, file, restarts, granted, unsaved>>

(* recv_frame fails: the end of handle_client removes the entry.            *)
disconnect(w) ==
    /\ handler[w] = "recv" /\ inbox[w] = <<>> /\ ~Running(w)
    /\ monitor = "sleep"
    /\ g_workers' = Without(w)
    /\ handler' = [handler EXCEPT ![w] = "closed"]
    /\ UNCHANGED <<args, client, inbox, up, g_epoch, g_seen_boots, g_down_a, g_recovery_auth,
                   g_recovery_verified, monitor, events, file, restarts, granted, unsaved>>

----------------------------------------------------------------------------
(* The monitor thread and time                                             *)

\* Mutant: the silence is compared after saturation, and is never too long.
silent_never(w) == g_workers[w] > Timeout + 1

silent(w) == g_workers[w] > Timeout

(* One pass of monitor_loop finds a silent worker named A: it sets the      *)
(* flags, records two events, ingests one record and lets go of g_mu.      *)
monitor_pass ==
    /\ up
    /\ \/ /\ monitor = "sleep" /\ ~g_down_a
          /\ \E w \in DOMAIN g_workers : args[w].name = "A" /\ silent(w)
          /\ g_down_a' = TRUE /\ g_recovery_auth' = TRUE
          /\ monitor' = "observe" /\ UNCHANGED events
       \/ /\ monitor = "observe" /\ monitor' = "declare"
          /\ events' = events \cup {"Observed"} /\ UNCHANGED <<g_down_a, g_recovery_auth>>
       \/ /\ monitor = "declare" /\ monitor' = "sleep"
          /\ events' = events \cup {"Authoritative"} /\ UNCHANGED <<g_down_a, g_recovery_auth>>
    /\ UNCHANGED <<args, client, inbox, handler, up, g_epoch, g_seen_boots, g_workers,
                   g_recovery_verified, file, restarts, granted, unsaved>>

tick ==
    /\ \E w \in DOMAIN g_workers : g_workers[w] <= Timeout
    /\ g_workers' = [w \in DOMAIN g_workers |->
                        IF g_workers[w] <= Timeout THEN g_workers[w] + 1 ELSE g_workers[w]]
    /\ UNCHANGED <<args, client, inbox, handler, up, g_epoch, g_seen_boots, g_down_a,
                   g_recovery_auth, g_recovery_verified, monitor, events, file, restarts,
                   granted, unsaved>>

----------------------------------------------------------------------------
(* The life of the coordinator process                                     *)

\* Mutant: the epoch is advanced in the file as well.
saved_epoch_next == g_epoch + 1

saved_epoch == g_epoch

(* A Shutdown frame saves and ends only the connection it came on.  The     *)
(* status of save is ignored.                                              *)
shutdown_frame ==
    /\ up /\ file # saved_epoch
    /\ restarts > 0    \* bound: no save that nobody can load
    /\ file' = saved_epoch
    /\ UNCHANGED <<args, client, inbox, handler, up, g_epoch, volatile, restarts, granted, unsaved>>

Stops ==
    /\ up /\ up' = FALSE
    /\ handler' = [w \in Workers |-> IF handler[w] = "none" THEN "none" ELSE "closed"]
    /\ inbox' = [w \in Workers |-> <<>>]
    /\ g_seen_boots' = {} /\ g_workers' = <<>>
    /\ g_down_a' = FALSE /\ g_recovery_auth' = FALSE /\ g_recovery_verified' = FALSE
    /\ monitor' = "sleep" /\ events' = {}
    /\ UNCHANGED <<args, client, g_epoch, restarts, granted>>

(* A Kill frame saves and exits, whatever the other threads are doing.      *)
kill_frame ==
    /\ Stops
    /\ file' = saved_epoch /\ UNCHANGED unsaved

(* The process dies, or its save fails and it exits all the same.           *)
crash ==
    /\ Stops
    /\ unsaved' = (unsaved \/ file # g_epoch) /\ UNCHANGED file

\* Mutant: the loaded epoch is taken over.
loaded_epoch_same == IF file = 0 THEN 1 ELSE file

loaded_epoch == IF file = 0 THEN 1 ELSE file + 1

(* main: the scenario is set up with epoch 1, then the file is loaded.      *)
restart ==
    /\ ~up /\ restarts > 0
    /\ up' = TRUE /\ restarts' = restarts - 1
    /\ g_epoch' = loaded_epoch
    /\ UNCHANGED <<args, client, inbox, handler, volatile, file, granted, unsaved>>

(* A restart that finds the port taken: net_listen fails and main returns   *)
(* with nothing written.                                                   *)
listen_fails ==
    /\ ~up /\ restarts > 0
    /\ restarts' = restarts - 1
    /\ UNCHANGED <<args, client, inbox, handler, up, g_epoch, volatile, file, granted, unsaved>>

----------------------------------------------------------------------------
Handle(w) == \/ hello_refused(w) \/ hello_accepted(w) \/ send_ack(w) \/ evidence(w)
             \/ mark_recovery(w) \/ heartbeat(w) \/ disconnect(w)

Next == \/ \E w \in Workers : \/ spawn(w) \/ connect(w) \/ read_ack(w) \/ worker_round(w)
                              \/ kill_worker(w) \/ hang_worker(w) \/ resume_worker(w) \/ worker_cut_off(w)
                              \/ accept(w) \/ Handle(w)
        \/ monitor_pass \/ tick
        \/ shutdown_frame \/ kill_frame \/ crash \/ restart \/ listen_fails

(* Threads and running processes are scheduled and time passes.  A worker   *)
(* may be stopped for good only by hang_worker; what the operator does, and *)
(* every failure, is left to chance.                                       *)
Fairness ==
    /\ \A w \in Workers :
          /\ WF_vars(accept(w) \/ Handle(w))
          /\ WF_vars(connect(w) \/ read_ack(w) \/ worker_round(w) \/ (client[w] = "hello" /\ worker_cut_off(w)))
    /\ WF_vars(monitor_pass) /\ WF_vars(tick)

Spec == Init /\ [][Next]_vars /\ Fairness

----------------------------------------------------------------------------
(* Types; the file never runs ahead of the epoch of the coordinator, and    *)
(* each restart advances the epoch by at most one.                         *)
TypeOK ==
    /\ \E s \in Setups : args = s.args /\ g_epoch + restarts <= s.restarts + 1
    /\ client \in [Workers -> Alive \cup {"off", "gone"}]
    /\ \A w \in Workers : /\ Len(inbox[w]) <= 3
                          /\ handler[w] \in Threads \cup {"none", "pending", "closed"}
    /\ DOMAIN g_workers \subseteq Workers
    /\ \A w \in DOMAIN g_workers : g_workers[w] \in 0..Timeout + 1
    /\ monitor \in {"sleep", "observe", "declare"}
    /\ events \subseteq {"Observed", "Authoritative", "Restored", "Verified"}
    /\ file <= g_epoch /\ granted \subseteq Workers

(* An entry of g_workers belongs to a running handler thread and to a       *)
(* worker that was granted its registration: monitor_loop follows no       *)
(* pointer to a WorkerInfo that its handler has deleted, and none is left  *)
(* behind.                                                                 *)
EntriesHaveHandlers ==
    \A w \in DOMAIN g_workers : up /\ handler[w] \in Threads /\ w \in granted

(* Boot-id and epoch fencing (coordinator_main.cpp:153-165): two processes  *)
(* are never granted the same name and boot id under the same epoch, over  *)
(* all incarnations of the coordinator, as long as each of them ended with *)
(* its epoch in the state file.                                            *)
FencedOncePerEpoch ==
    ~unsaved => \A w, v \in granted :
        w # v => \/ args[w].name # args[v].name \/ args[w].boot # args[v].boot
                 \/ args[w].epoch # args[v].epoch

(* A recovery is recorded only after the monitor has declared A down.       *)
RecoveryNeedsFailure ==
    {"Restored", "Verified"} \cap events # {} => g_down_a /\ g_recovery_auth

(* A worker that has said Hello is answered or finds its connection closed. *)
HelloAnswered == \A w \in Workers : client[w] = "hello" ~> client[w] # "hello"

(* monitor_loop:131: a registered worker named A that falls silent without  *)
(* closing its connection is declared down.                                *)
SilenceDeclared ==
    \A w \in Workers :
        (client[w] = "hung" /\ w \in DOMAIN g_workers /\ args[w].name = "A")
            ~> (g_down_a \/ client[w] # "hung" \/ w \notin DOMAIN g_workers)

Serving(w) == client[w] = "serving" /\ w \in DOMAIN g_workers /\ args[w].serve

(* coordinator_main.cpp:177-182: once a failure is declared, a serving      *)
(* worker with another boot id brings the recovery to Verified.            *)
RecoveryVerified ==
    \A w \in Workers :
        (g_recovery_auth /\ Serving(w) /\ args[w].boot # Bootless)
            ~> ("Verified" \in events \/ ~Serving(w))

(* The handler of a worker that is gone ends and its entry is removed.      *)
DeadIsForgotten == \A w \in Workers : client[w] = "gone" ~> w \notin DOMAIN g_workers

(* coordinator_main.cpp:177: "A serving worker after a failure marks        *)
(* recovery restored + verified": the failure being that the worker named  *)
(* A, once registered, is gone.                                            *)
FailoverRecorded ==
    \A a, w \in Workers :
        ( /\ a \in granted /\ args[a].name = "A" /\ client[a] = "gone"
          /\ Serving(w) /\ args[w].boot # Bootless )
            ~> ("Verified" \in events \/ ~Serving(w))
=============================================================================
