---------------------------- MODULE MCStorage -----------------------------
(***************************************************************************)
(* Two accounts, one of which has two addresses, one domain each.          *)
(***************************************************************************)
EXTENDS Storage

MCBoxes == {"INBOX", "Junk", "Archive"}
MCAccounts == {"ann", "bob"}
MCKeys == MCAccounts \X MCBoxes
MCRcpts == {"ann", "ann.alias", "bob", "nobody"}
MCAccountOf == [r \in MCRcpts |->
    CASE r \in {"ann", "ann.alias"} -> "ann" [] r = "bob" -> "bob"
      [] OTHER -> NoAccount]
MCTo == [d \in Deliveries |->
    IF d = "d1" THEN MCRcpts ELSE {"ann"}]
MCDomainOf == [a \in MCAccounts |-> IF a = "ann" THEN "com" ELSE "org"]
MCDomainQuota == [dom \in Domains |-> IF dom = "com" THEN 1 ELSE NoRow]
=============================================================================
