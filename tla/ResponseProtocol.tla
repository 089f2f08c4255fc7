--------------------------- MODULE ResponseProtocol ---------------------------
(***************************************************************************)
(* What the client of a streamed answer may rely on, whichever API it      *)
(* speaks and however the backend produces the stream: the answer starts   *)
(* once and before any output item, only an open item grows, an item       *)
(* closes once, and an answer is complete only with every item closed.     *)
(***************************************************************************)
EXTENDS Naturals, Sequences

VARIABLES
  status,  \* how far the answer is
  items    \* the output items, in the order they opened

view == <<status, items>>

Outcomes == {"completed", "incomplete", "failed", "error"}
Statuses == {"waiting", "open", "cut"} \union Outcomes
Item == [open : BOOLEAN, size : Nat]

Init == status = "waiting" /\ items = <<>>

Start ==
  /\ status = "waiting"
  /\ status' = "open"
  /\ UNCHANGED items

OpenItem ==
  /\ status = "open"
  /\ items' = Append(items, [open |-> TRUE, size |-> 0])
  /\ UNCHANGED status

Grow(i) ==
  /\ status = "open" /\ items[i].open
  /\ items' = [items EXCEPT ![i].size = @ + 1]
  /\ UNCHANGED status

Close(i) ==
  /\ status = "open" /\ items[i].open
  /\ items' = [items EXCEPT ![i].open = FALSE]
  /\ UNCHANGED status

AllClosed == \A i \in DOMAIN items : ~items[i].open

\* A complete answer leaves no item open; the other endings may.
Finish ==
  /\ status = "open"
  /\ \/ AllClosed /\ status' \in {"completed", "incomplete"}
     \/ status' = "incomplete"
  /\ UNCHANGED items

\* The answer fails, or an error takes the place of what is left of it.
Fail ==
  /\ status \in {"waiting", "open"}
  /\ status' \in {"failed", "error"}
  /\ UNCHANGED items

\* The body ends without a last event.
CutOff ==
  /\ status \in {"waiting", "open"}
  /\ status' = "cut"
  /\ UNCHANGED items

Next ==
  \/ Start \/ OpenItem \/ Finish \/ Fail \/ CutOff
  \/ \E i \in DOMAIN items : Grow(i) \/ Close(i)

Spec == Init /\ [][Next]_view

TypeOK == status \in Statuses /\ items \in Seq(Item)
===============================================================================
