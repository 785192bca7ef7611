---------------------------- MODULE AttemptContract ----------------------------
(***************************************************************************)
(* What a milestone attempt promises about the memory an agent reads: it   *)
(* only adds to what it found, and when it fails the memory is as it was   *)
(* found, otherwise all of it lasts.  Between attempts whatever is         *)
(* remembered lasts.                                                       *)
(***************************************************************************)
EXTENDS Naturals, Sequences

VARIABLES
    stage,      \* "open" during an attempt; "failed" if the last one did
    lasting,    \* the memory that survives if it fails
    seen        \* the memory it reads

contract == <<stage, lasting, seen>>

Extends(longer, s) ==
    Len(s) <= Len(longer) /\ \A i \in 1 .. Len(s) : longer[i] = s[i]

CInit == stage = "settled" /\ lasting = <<>> /\ seen = <<>>

Open == stage = "open"

Hear   == ~Open /\ ~Open' /\ Extends(seen', seen) /\ lasting' = seen'
Begin  == ~Open /\ Open' /\ seen' = seen /\ lasting' = seen
Work   == Open /\ Open' /\ Extends(seen', seen) /\ lasting' = lasting
\* Verified, or broken off by an exception.
Keep   == Open /\ stage' = "settled" /\ seen' = seen /\ lasting' = seen
Forget == Open /\ stage' = "failed" /\ seen' = lasting /\ lasting' = lasting

CNext == Hear \/ Begin \/ Work \/ Keep \/ Forget

CSpec == CInit /\ [][CNext]_contract
=============================================================================
