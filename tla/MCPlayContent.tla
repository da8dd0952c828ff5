--------------------------- MODULE MCPlayContent ---------------------------
(***************************************************************************)
(* PlayContent on small instances: a playbook that imports another and uses *)
(* two roles, one of which depends on the other, in every layout of them,   *)
(* and one job each of a few kinds of requirements and cached entries.      *)
(***************************************************************************)
EXTENDS PlayContent, TLC

CONSTANTS site, extra, web, common, col, src

Item(is, of) == [is |-> is, of |-> of, short |-> TRUE]
\* The same item under a fully qualified key.
Qualified(i) == [i EXCEPT !.short = FALSE]
SiteItems == {{Item("import", extra), Item("role", web)}, {Item("import", extra), Item("include", common)},
              {Item("role", web), Item("loose", "loose")}, {Item("import", extra), Item("dynamic", web)},
              {Item("loose", "loose"), Qualified(Item("import", extra)), Qualified(Item("include", common))}}
ExtraItems == {Item("role", web)}

\* A repository whose playbooks lie in d and extra's in x, its roles in the directories of web and
\* common, with the files given at its root, and an ansible.cfg beside the playbook or not.
Repo(d, x, items, webs, commons, depends, files, cfgs, calls, links) ==
  [at |-> (site :> d @@ extra :> x),
   items |-> (site :> items @@ extra :> ExtraItems),
   paths |-> {<<d, "playbook", site>>, <<x, "playbook", extra>>, File(d, "loose")}
               \cup {Role(y, web) : y \in webs} \cup {Role(y, common) : y \in commons}
               \cup {File(Root, f) : f \in files} \cup {File(d, f) : f \in cfgs},
   deps |-> [y \in Dirs, r \in Roles |-> IF r = web /\ Role(y, r) \in {Role(z, web) : z \in webs} THEN depends ELSE {}],
   calls |-> [y \in Dirs, r \in Roles |-> IF r = web THEN calls ELSE {}],
   metas |-> {Role(y, web) : y \in webs},
   links |-> links]

Layouts == {{}, {"root"}, {"sub"}}
\* The layouts the snapshot follows: every playbook in one directory, a role in one place.
Scoped ==
  {Repo(d, d, items, webs, commons, depends, files, cfgs, {}, {}) :
     d \in Dirs, items \in SiteItems, webs \in Layouts, commons \in Layouts, depends \in {{}, {common}},
     files \in {{}}, cfgs \in {{}, {"ansible.cfg"}}}
Requires(commons, files) ==
  Repo("sub", "sub", {Item("import", extra), Item("role", web)}, {"root"}, commons, {common}, files, {"ansible.cfg"}, {}, {})
RequiredFiles == {{"requirements.yml"}, {"collections/requirements.yml", "roles/requirements.yml"}, {"roles/requirements.yml"}}
\* The layouts beyond those: an import from another directory, a role of one name in two places, a
\* role whose own tasks include another.
Unscoped ==
  {Repo("root", x, items, webs, commons, depends, {}, {}, calls, {}) :
     x \in Dirs, items \in SiteItems, webs \in {{"root"}, {"sub"}, {"root", "sub"}}, commons \in Layouts,
     depends \in {{}, {common}}, calls \in {{}, {common}}}

Req(of, ref, sub) == [of |-> of, ref |-> ref, sub |-> sub, bare |-> FALSE]
Bare(r) == [r EXCEPT !.bare = TRUE]
Version(of, v) == [of |-> of, v |-> v]
ReqSets == {{Req(col, 0, ""), Req(common, 0, ""), Req(src, 0, "sub")},
            {Req(col, 2, ""), Req(src, 1, ""), Req(src, 0, "sub")},
            {Req(common, 2, ""), Req(src, 1, Outside), Req(src, 1, "sub"), Bare(Req(src, 1, ""))}}
EntrySets == {{}, {Version(col, 1), Version(common, 1), Version(src, 1)}, {Version(col, 1), Version(src, 1), Version(src, 2)}}
\* A role the repository may have one of.
RoleReqs == {Req(common, 2, "")}
Given(repo, reqs, entries, cfg) == [repo |-> repo, reqs |-> reqs, entries |-> entries, cfg |-> cfg]

MCGivens ==
  {Given(repo, {}, {}, cfg) : repo \in Scoped, cfg \in {"none", "plain", "roles"}}
    \cup {Given(Requires({"root"}, files), reqs, entries, "none") :
            files \in RequiredFiles, reqs \in ReqSets, entries \in EntrySets}
    \cup {Given(Requires(commons, {"requirements.yml"}), RoleReqs, entries, "none") :
            commons \in Layouts, entries \in {{}, {Version(common, 1)}}}
ASSUME ScopedAssumption == \A g \in MCGivens : Followed(g.repo, Top)
MCUnscoped == {Given(repo, {}, {}, "none") : repo \in Unscoped}

=============================================================================
