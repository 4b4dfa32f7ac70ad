---------------------------- MODULE MCToolLedger ----------------------------
(* A bounded instance of ToolLedger: a mutating tool and an unclassified    *)
(* one.  No execution is evidence of a verification.                        *)
EXTENDS ToolLedger

MCActionOf == [p \in Prints |-> IF p = "p1" THEN "deploy" ELSE NoAction]
=============================================================================
