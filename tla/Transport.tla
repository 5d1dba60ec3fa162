----------------------------- MODULE Transport -----------------------------
(***************************************************************************)
(* One direction of a framed TCP connection (net.cpp): send_frame on one   *)
(* side, recv_frame on the other, a bounded kernel stream between them.    *)
(* send() and recv() move any part of what they are asked to; send_exact   *)
(* and recv_exact loop until all of it is moved.                           *)
(*                                                                         *)
(* The wire carries CELLS: the four header fields, one cell per payload    *)
(* byte and one for the checksum (a cell stands for the bytes of one       *)
(* field).  crc32 is taken to be collision free.                           *)
(***************************************************************************)
EXTENDS Naturals, Sequences, FiniteSets

CONSTANTS
    Frames,       \* frames [kind, flags, payload] the sender may send
    Magic,        \* kFrameMagic
    MaxPayload,   \* kMaxFramePayload, in cells
    Window,       \* bound: cells the kernel holds between the two ends
    MaxFrames,    \* bound: send_frame calls whose frame reaches the wire
    MaxFaults,    \* bound: faults in one behaviour
    Noise,        \* byte values damage may leave in a cell
    NoFrame

ASSUME FramesAssumption ==
    /\ Frames \subseteq [kind : Nat, flags : Nat, payload : Seq(Nat)]
    /\ NoFrame \notin Frames
ASSUME BoundsAssumption ==
    /\ {Magic, MaxPayload, Window, MaxFrames, MaxFaults} \subseteq Nat
    /\ Noise \subseteq Nat

VARIABLES
    sent,         \* history: frames of which at least one cell was written
    got,          \* history: frames recv_frame returned
    cur,          \* the frame send_frame is writing, or NoFrame
    left,         \* its cells not yet accepted by the kernel
    stream,       \* cells the kernel holds
    buf,          \* cells recv_frame has read of the current frame
    sender,       \* is the sending end open
    receiver,     \* is the receiving end open
    faults        \* things outside the program that went wrong so far

vars == <<sent, got, cur, left, stream, buf, sender, receiver, faults>>

----------------------------------------------------------------------------
(* Encoding                                                                *)

Byte(n) == <<"byte", n>>
Header == 4

\* Mutant: the checksum covers the payload only.
crc32_payload(cells) == <<"crc", SubSeq(cells, Header + 1, Len(cells))>>

crc32(cells) == <<"crc", cells>>

encode_frame(f) ==
    LET body == <<Byte(Magic), Byte(f.kind), Byte(f.flags), Byte(Len(f.payload))>>
                \o [i \in 1..Len(f.payload) |-> Byte(f.payload[i])]
    IN  Append(body, crc32(body))

(* What a header cell reads as.  A checksum cell in a header's place is     *)
(* four arbitrary bytes: neither the magic nor a legal length.             *)
ValueOf(cell) == IF cell[1] = "byte" THEN cell[2] ELSE MaxPayload + Magic + 1
Length(b) == ValueOf(b[4])
Total(b) == Header + Length(b) + 1
FrameOf(b) == [kind    |-> ValueOf(b[2]), flags |-> ValueOf(b[3]),
               payload |-> [i \in 1..Length(b) |-> ValueOf(b[Header + i])]]

checksum_ok(b) == b[Len(b)] = crc32(SubSeq(b, 1, Len(b) - 1))

\* Mutant: a checksum is waited for behind the checksum.
awaited_twice(b) == IF Len(b) < Header THEN Header
                    ELSE IF Len(b) < Header + Length(b) THEN Header + Length(b)
                    ELSE Total(b) + 1

\* The number of cells the current recv_exact call of recv_frame waits for:
\* the header, then the payload, then the checksum.
awaited(b) == IF Len(b) < Header THEN Header
              ELSE IF Len(b) < Header + Length(b) THEN Header + Length(b)
              ELSE Total(b)

\* Mutant: the announced length is not looked at.
recv_step_unbounded(b) ==
    CASE Len(b) = Header /\ ValueOf(b[1]) # Magic -> "fail"
      [] Len(b) > Header /\ Len(b) = awaited(b) -> IF checksum_ok(b) THEN "frame" ELSE "fail"
      [] OTHER -> "more"

\* What recv_frame does when a recv_exact call has left it with the cells b:
\* check the header, check the checksum, or read on.
recv_step(b) ==
    CASE Len(b) = Header /\ (ValueOf(b[1]) # Magic \/ Length(b) > MaxPayload) -> "fail"
      [] Len(b) > Header /\ Len(b) = awaited(b) -> IF checksum_ok(b) THEN "frame" ELSE "fail"
      [] OTHER -> "more"

\* Mutant: cells behind the frame are ignored.
decode_frame_trailing(b) ==
    /\ Len(b) > Header
    /\ ValueOf(b[1]) = Magic /\ Length(b) <= MaxPayload
    /\ Len(b) >= Total(b)
    /\ checksum_ok(SubSeq(b, 1, Total(b)))

\* decode_frame, the decoder of a whole buffer: does it accept b.
decode_frame(b) ==
    /\ Len(b) > Header
    /\ ValueOf(b[1]) = Magic /\ Length(b) <= MaxPayload
    /\ Len(b) = Total(b)
    /\ checksum_ok(b)

----------------------------------------------------------------------------
Init ==
    /\ sent = <<>> /\ got = <<>>
    /\ cur = NoFrame /\ left = <<>>
    /\ stream = <<>> /\ buf = <<>>
    /\ sender = TRUE /\ receiver = TRUE /\ faults = 0

(* send_frame up to its first send(): an oversized frame is refused.        *)
send_frame(f) ==
    /\ sender /\ cur = NoFrame
    /\ Len(sent) < MaxFrames
    /\ Len(encode_frame(f)) <= MaxPayload + Header + 1
    /\ cur' = f /\ left' = encode_frame(f)
    /\ UNCHANGED <<sent, got, stream, buf, sender, receiver, faults>>

(* One send() of send_exact: the kernel takes the next k cells; after the   *)
(* last one send_frame returns ok.                                         *)
send_some(k) ==
    /\ sender /\ receiver /\ cur # NoFrame
    /\ k <= Len(left) /\ Len(stream) + k <= Window
    /\ stream' = stream \o SubSeq(left, 1, k)
    /\ left' = SubSeq(left, k + 1, Len(left))
    /\ sent' = IF left = encode_frame(cur) THEN Append(sent, cur) ELSE sent
    /\ cur' = IF k = Len(left) THEN NoFrame ELSE cur
    /\ UNCHANGED <<got, buf, sender, receiver, faults>>

(* send() fails, as it must once the peer has closed: send_exact gives up   *)
(* wherever it is.  The worker's loop ignores the status and sends its     *)
(* next frame behind the torn one.                                         *)
send_fails ==
    /\ sender /\ cur # NoFrame
    /\ \/ ~receiver /\ UNCHANGED faults
       \/ receiver /\ faults < MaxFaults /\ faults' = faults + 1
    /\ cur' = NoFrame /\ left' = <<>>
    /\ UNCHANGED <<sent, got, stream, buf, sender, receiver>>

(* The sending process closes the socket or is killed, maybe mid-frame.     *)
sender_closes ==
    /\ faults < MaxFaults /\ sender
    /\ sender' = FALSE /\ cur' = NoFrame /\ left' = <<>> /\ faults' = faults + 1
    /\ UNCHANGED <<sent, got, stream, buf, receiver>>

(* recv_frame fails: its caller leaves the loop and closes the socket.      *)
RecvFails ==
    /\ receiver' = FALSE /\ stream' = <<>> /\ buf' = <<>>
    /\ UNCHANGED <<sent, got, cur, left, sender, faults>>

(* One recv() of recv_exact returns k cells.                                *)
recv_some(k) ==
    LET b == buf \o SubSeq(stream, 1, k)
    IN  /\ receiver
        /\ k <= Len(stream) /\ Len(b) <= awaited(buf)
        /\ \/ recv_step(b) = "fail" /\ RecvFails
           \/ /\ recv_step(b) # "fail"
              /\ stream' = SubSeq(stream, k + 1, Len(stream))
              /\ buf' = IF recv_step(b) = "frame" THEN <<>> ELSE b
              /\ got' = IF recv_step(b) = "frame" THEN Append(got, FrameOf(b)) ELSE got
              /\ UNCHANGED <<sent, cur, left, sender, receiver, faults>>

\* Mutant: a connection that closes inside a frame is read again.
recv_eof_between_frames ==
    /\ receiver /\ ~sender /\ stream = <<>> /\ buf = <<>>
    /\ RecvFails

(* recv() returns 0: the other end is closed and everything was read.       *)
recv_eof ==
    /\ receiver /\ ~sender /\ stream = <<>>
    /\ RecvFails

(* The receiving process is killed.                                         *)
receiver_dies ==
    /\ faults < MaxFaults /\ receiver
    /\ receiver' = FALSE /\ stream' = <<>> /\ buf' = <<>> /\ faults' = faults + 1
    /\ UNCHANGED <<sent, got, cur, left, sender>>

(* A cell is damaged between the two ends.                                  *)
Damage ==
    /\ faults < MaxFaults
    /\ \E i \in 1..Len(stream), n \in Noise :
          stream[i] # Byte(n) /\ stream' = [stream EXCEPT ![i] = Byte(n)]
    /\ faults' = faults + 1
    /\ UNCHANGED <<sent, got, cur, left, buf, sender, receiver>>

SendSome == \E k \in 1..Window : send_some(k)
RecvSome == \E k \in 1..Window : recv_some(k)

Next == \/ \E f \in Frames : send_frame(f)
        \/ SendSome \/ send_fails \/ sender_closes
        \/ RecvSome \/ recv_eof \/ receiver_dies
        \/ Damage

(* The two threads are scheduled and the kernel moves what it holds.  When  *)
(* frames are sent, and every fault, is left to chance.                    *)
Spec == Init /\ [][Next]_vars /\ WF_vars(SendSome) /\ WF_vars(RecvSome) /\ WF_vars(recv_eof)

----------------------------------------------------------------------------
(* Types and the memory bound: recv_frame never holds more than one frame   *)
(* of the largest legal size, whatever length a damaged header announces   *)
(* ("validated before any allocation", net.hpp:5).                         *)
TypeOK ==
    /\ sent \in Seq(Frames) /\ got \in Seq(Frames)
    /\ cur \in Frames \cup {NoFrame}
    /\ cur # NoFrame => \E k \in 0..Len(encode_frame(cur)) - 1 :
          left = SubSeq(encode_frame(cur), k + 1, Len(encode_frame(cur)))
    /\ Len(stream) <= Window
    /\ Len(buf) <= MaxPayload + Header
    /\ sender \in BOOLEAN /\ receiver \in BOOLEAN /\ faults \in 0..MaxFaults

ChannelSpec == INSTANCE Channel

(* Whatever send() and recv() split, whatever is damaged, torn or cut off,  *)
(* recv_frame only ever returns the next frame that was put on the wire.   *)
ImplementsChannel == ChannelSpec!Spec

(* recv_frame and decode_frame accept the same bytes: of everything in      *)
(* flight, damaged or not, a prefix decodes exactly when recv_frame reads  *)
(* through it without failing or returning earlier, and returns there.     *)
DecodersAgree ==
    LET flight == buf \o stream
        First(n) == SubSeq(flight, 1, n)
    IN  \A n \in 0..Len(flight) :
           decode_frame(First(n)) <=> /\ recv_step(First(n)) = "frame"
                                      /\ \A m \in 0..n - 1 : recv_step(First(m)) = "more"

(* Without a fault every frame put on the wire is returned by recv_frame:   *)
(* partial reads and writes lose nothing and recv_frame never waits for    *)
(* bytes that send_frame does not write, nor gives up a sound frame.       *)
FrameArrives ==
    \A n \in 1..MaxFrames : (Len(sent) >= n) ~> (Len(got) >= n \/ faults > 0)

(* A reader never waits for a peer that is gone: once the sending end is    *)
(* closed, even inside a frame, recv_frame fails and its caller closes.    *)
ReaderReleased == ~sender ~> ~receiver
=============================================================================
