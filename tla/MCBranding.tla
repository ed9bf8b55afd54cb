------------------------------ MODULE MCBranding ------------------------------
(* Who is interchangeable in the run of Branding.                          *)
EXTENDS Branding, TLC

Interchangeable ==
    Permutations(Character) \cup Permutations(Style) \cup Permutations(Job)
        \cup Permutations(Session) \cup Permutations(Worker)
=============================================================================
