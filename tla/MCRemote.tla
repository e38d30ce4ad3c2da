------------------------------ MODULE MCRemote ------------------------------
(***************************************************************************)
(* Values for the constants of Remote: two domains with a recipient each.  *)
(***************************************************************************)
EXTENDS Remote, TLC

CONSTANTS r1, r2, dom1, dom2, ascii

MCDomain == r1 :> dom1 @@ r2 :> dom2

\* All addresses are ASCII, or the server has SMTPUTF8.
MCSent == r1 :> r1 @@ r2 :> r2

\* One is not.
MCSentASCII == r1 :> ascii @@ r2 :> r2

\* The domains are interchangeable, with their recipients.
SwapDomains == {r1 :> r2 @@ r2 :> r1 @@ dom1 :> dom2
                    @@ dom2 :> dom1}

\* So are connections, channels and deliveries.
PoolSymmetry == Permutations(Conns) \cup Permutations(Chans)
                    \cup Permutations(Deliveries)
RemoteSymmetry == PoolSymmetry \cup SwapDomains
=============================================================================
