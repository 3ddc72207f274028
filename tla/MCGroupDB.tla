----------------------------- MODULE MCGroupDB -----------------------------
(* Instances of GroupDB: the fields of a request follow from its name.     *)
EXTENDS GroupDB, TLC

CONSTANTS ann, ben, cat, dan, eve,  \* peers
          team,      \* a group
          up1, up2,  \* ann updates team, twice
          ub,        \* dan updates team
          bad,       \* an update that does not decode
          add1, sub, \* member requests: ben and cat are added; ben, cat and
                     \* then ann are removed
          add2,      \* a member request: eve is added
          from, to,  \* queries along team, from ann and back from cat
          odd        \* a member request with an action it does not know

MCKind == [r \in Reqs |-> IF r \in {up1, up2, ub, bad} THEN "update" ELSE "member"]
MCAction == [r \in Reqs |-> CASE r \in {add1, add2} -> "+" [] r = sub -> "-"
                              [] r = from -> "f" [] r = to -> "t" [] OTHER -> "?"]
MCReqGid == [r \in Reqs |-> team]
MCCaller == [r \in Reqs |-> IF r = ub THEN dan ELSE ann]
MCMembers == [r \in Reqs |->
  CASE r = add1 -> <<[gid |-> team, id |-> ben], [gid |-> team, id |-> cat]>>
    [] r = add2 -> <<[gid |-> team, id |-> eve]>>
    [] r = sub -> <<[gid |-> team, id |-> ben], [gid |-> team, id |-> cat],
                    [gid |-> team, id |-> ann]>>
    [] OTHER -> <<>>]
MCStartId == [r \in Reqs |-> IF r = to THEN cat ELSE ann]
MCMalformed == {bad} \cap Reqs
MCFailing == {add2} \cap Reqs

\* The field action is not exported: amino leaves it out of the encoding.
WireDecode == [a \in {"+", "-"} |-> ""]

\* What handleMember declares to be called with.
CallDecode == [a \in {"+", "-"} |-> a]
=============================================================================
