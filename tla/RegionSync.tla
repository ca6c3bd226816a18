----------------------------- MODULE RegionSync -----------------------------
(***************************************************************************)
(* What the rule distribution of RuleSync does to the nodes of a region:   *)
(* to the map a data node serves from, and to the database that the nodes  *)
(* of a region share.                                                      *)
(***************************************************************************)
EXTENDS RuleSync

\* Databases that no request handler and no seeding node writes.
EdgeDBs ==
  {x \in {DbOf[n] : n \in Syncing} :
     /\ \A h \in Handlers : DbOf[Host[h]] # x
     /\ \A n \in Seeding : DbOf[n] # x}

\* A reload never takes a domain out of a follower's map that is still enabled
\* in its database; a node that dies drops everything (Engine.Reload).
KeepsServing ==
  [][\A n \in Followers :
       pc'[n] # "down" =>
         (DOMAIN engine[n] \ DOMAIN engine'[n])
           \cap DOMAIN Serve(View(db[DbOf[n]].tab)) = {}]_vars

\* At rest, the database that the nodes of a region share holds exactly the
\* object, in whatever order their imports of it and of older bodies ran,
\* each with orphan queries of its own moment (BulkImportReplace).  As in
\* RuleSync, a body that was published twice can hide a change between.
SettledRegionHoldsObject ==
  Settled /\ NoRepeat =>
    \A x \in EdgeDBs : View(db[x].tab) = Normalise(Object)
=============================================================================
