--------------------------- MODULE MCRegistration ---------------------------
(* Registration with two registrations of one name, two updates and a
   login on the same two connections. *)
EXTENDS Registration, TLC

CONSTANTS r1, r2, u1, u2, l1, ann, mail, empty

Kinds == r1 :> "register" @@ r2 :> "register" @@ u1 :> "update" @@ u2 :> "update" @@ l1 :> "login"
Names == r1 :> ann @@ r2 :> ann @@ u1 :> ann @@ u2 :> ann @@ l1 :> ann
Emails == r1 :> mail @@ r2 :> empty @@ u1 :> empty @@ u2 :> empty @@ l1 :> empty
=============================================================================
