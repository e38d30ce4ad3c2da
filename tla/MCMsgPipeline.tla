--------------------------- MODULE MCMsgPipeline ---------------------------
(***************************************************************************)
(* Values for the constants of MsgPipeline.  Check "g" belongs to the      *)
(* pipeline, "s" to the source block and, by reference, to block b2, "c"   *)
(* to both recipient blocks.  Recipient "r" stays as it is and goes to b1, *)
(* or to b2 when a destination_in look-up fails; "alias" becomes two       *)
(* addresses, one of which b2 rewrites again.                              *)
(***************************************************************************)
EXTENDS MsgPipeline, TLC

MCGlobalChecks == <<"g">>
MCSourceChecks == <<"s">>
MCBlockChecks == "b1" :> <<"c">> @@ "b2" :> <<"s", "c">> @@ "no" :> <<>>
MCTargetsOf == "b1" :> <<"queue">> @@ "b2" :> <<"store", "queue">>
               @@ "no" :> <<>>
MCRewritten == "r" :> <<"r">> @@ "alias" :> <<"x", "y">>
MCBlocksFor == "r" :> {"b1", "b2"} @@ "x" :> {"b1", "no"} @@ "y" :> {"b2"}
               @@ "alias" :> {} @@ "z" :> {}
MCRcptRewritten == "r" :> <<"r">> @@ "x" :> <<"x">> @@ "y" :> <<"z">>
                   @@ "alias" :> <<"alias">> @@ "z" :> <<"z">>
=============================================================================
