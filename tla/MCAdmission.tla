---------------------------- MODULE MCAdmission ----------------------------
\* Small instances of Admission for TLC.
EXTENDS Admission, TLC

CONSTANTS good, narrow, broken

\* "narrow" passes the schema of the first instance only.
RefusedByAll == [b \in Bodies |-> IF b = broken THEN Instances
                                  ELSE IF b = narrow THEN Instances \ {1} ELSE {}]

\* Requests are interchangeable.
RequestSymmetry == Permutations(Requests)
=============================================================================
