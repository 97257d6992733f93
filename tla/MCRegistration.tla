--------------------------- MODULE MCRegistration ---------------------------
(* Model-checking instance of Registration.                                *)
EXTENDS Registration
====
