------------------------------ MODULE MsgFifo ------------------------------
(***************************************************************************)
(* What the message ring promises: a lossy first-in first-out queue.       *)
(*                                                                         *)
(* The interrupt handler may put a message or have it refused (a           *)
(* stuttering step); the main loop looks at the oldest one or takes it,    *)
(* whole or cut to the length of its buffer.  The main loop never meets    *)
(* a message out of order, twice, truncated or altered.                    *)
(***************************************************************************)
EXTENDS Integers, Sequences

CONSTANTS Sizes, Tags, OutSizes

VARIABLES queue,   \* the messages accepted and not taken, oldest first
          out      \* the result of the last look or take

vars == <<queue, out>>

Result(call, len, bs) == [call |-> call, len |-> len, bytes |-> bs]

Init ==
  /\ queue = <<>>
  /\ out = Result("none", 0, {})

Put(s, t) ==
  /\ queue' = Append(queue, [size |-> s, tag |-> t])
  /\ UNCHANGED out

FindEmpty(call) ==
  /\ queue = <<>>
  /\ out' = Result(call, 0, {})
  /\ UNCHANGED queue

Look ==
  /\ queue # <<>>
  /\ out' = Result("peek", Head(queue).size, {})
  /\ UNCHANGED queue

(* m is the length of the buffer to copy to, 0 when there is none and only *)
(* the length is wanted.                                                   *)
Take(m) ==
  /\ queue # <<>>
  /\ LET len == IF m # 0 /\ m < Head(queue).size THEN m ELSE Head(queue).size
     IN  out' = Result("pop", len, IF m = 0 THEN {} ELSE {Head(queue).tag})
  /\ queue' = Tail(queue)

Next ==
  \/ \E s \in Sizes, t \in Tags : Put(s, t)
  \/ FindEmpty("peek") \/ FindEmpty("pop")
  \/ Look
  \/ \E m \in OutSizes : Take(m)

Spec == Init /\ [][Next]_vars

=============================================================================
