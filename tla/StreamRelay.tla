----------------------------- MODULE StreamRelay -----------------------------
(***************************************************************************)
(* What a streamed answer promises its client: the pieces of the answer    *)
(* arrive in the order the backend produced them, none is left out before  *)
(* the stream breaks off, and the client is told the answer is complete    *)
(* only when the backend said so and every piece has arrived.              *)
(***************************************************************************)
EXTENDS Naturals

CONSTANT MaxPieces

VARIABLES
  offered,  \* pieces the backend has produced, each by its position
  said,     \* the backend has said that there are no more
  got,      \* pieces the client has received
  end       \* what the client was told at the end

vars == <<offered, said, got, end>>

Init ==
  /\ offered = {}
  /\ said = FALSE
  /\ got = {}
  /\ end = "open"

(* Another piece, after all there were.                                      *)
Produce ==
  /\ ~said
  /\ \/ \E piece \in 1..MaxPieces :
          (\A p \in offered : p < piece) /\ offered' = offered \cup {piece}
     \/ offered' = offered
  /\ said' \in BOOLEAN
  /\ UNCHANGED <<got, end>>

(* The first piece that has not arrived, after all that have.                *)
Deliver ==
  /\ end = "open"
  /\ \E piece \in offered :
       /\ \A p \in got : p < piece
       /\ \A p \in offered \ got : piece <= p
       /\ got' = got \cup {piece}
  /\ UNCHANGED <<offered, said, end>>

Complete ==
  /\ end = "open"
  /\ said
  /\ got = offered
  /\ end' = "complete"
  /\ UNCHANGED <<offered, said, got>>

BreakOff ==
  /\ end = "open"
  /\ end' = "cut"
  /\ UNCHANGED <<offered, said, got>>

Next == Produce \/ Deliver \/ Complete \/ BreakOff

Spec == Init /\ [][Next]_vars
=============================================================================
