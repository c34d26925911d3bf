--------------------------- MODULE MCApplication ---------------------------
(* A small instance of Application for TLC.                                *)
EXTENDS Application

\* One sample of each behaviour.
FourKinds == <<"Default", "FormsTrigger", "Trigger", "Ground">>

FewObjects ==
    [kind \in KindNames |-> IF kind = "Default" THEN 0 ELSE IF kind = "Ground" THEN 1 ELSE 2]

=============================================================================
