----------------------------- MODULE MCJoinPage -----------------------------
(* An instance of JoinPage small enough for TLC: a number with one profile *)
(* on file or none, used long on one phone; or one used a little on two.   *)
EXTENDS JoinPage, TLC

CONSTANTS h1, h2, ann, bob

MCOccasions ==
  {[onFile |-> S, taps |-> h1 :> 3 @@ h2 :> 0] : S \in {{}, {ann}}}
    \cup {[onFile |-> {ann}, taps |-> h1 :> 2 @@ h2 :> 2]}
=============================================================================
