-------------------------- MODULE MCDataModelSync --------------------------
(***************************************************************************)
(* Small instances of DataModelSync.                                       *)
(***************************************************************************)
EXTENDS DataModelSync

CONSTANTS c1, c2

TwoChanges == <<TRUE, TRUE>>
ThreeChanges == <<TRUE, TRUE, TRUE>>
QuietEntry == <<TRUE, TRUE, FALSE>>

\* The entries the controllers start at: the first one, or, for another
\* controller, the newest.
Together == [c \in Controllers |-> 1]
Later == [c \in Controllers |-> IF c = c1 THEN 1 ELSE Len(StartLog)]
=============================================================================
