---------------------------- MODULE MCOfferStore ----------------------------
(* Instances of OfferStore for TLC. *)
EXTENDS OfferStore, TLC

CONSTANTS s1, s2, u1, u2

(* Each user has one session: the answer to one request is awaited before  *)
(* the next is sent, as the disabled buttons of one browser tab do.        *)
OneEach == s1 :> u1 @@ s2 :> u2

(* One user in two tabs. *)
SameUser == s1 :> u1 @@ s2 :> u1

=============================================================================
