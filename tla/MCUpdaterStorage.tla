-------------------------- MODULE MCUpdaterStorage --------------------------
(* Model values and a bound for UpdaterStorage. *)
EXTENDS UpdaterStorage, TLC

CONSTANTS u1, u2, r1, d1

MCSymmetry == Permutations({u1, u2})

Users(type, mask, flags) == [type |-> type, to |-> "users", mask |-> mask, flags |-> flags]

\* The entries an access list is made of
MCAces ==
    {FullControl("system"), FullControl("administrators"),
     [FullControl("administrators") EXCEPT !.flags = {}],
     Users("allow", {"read"}, Inherited), Users("allow", {"read", "write"}, {}),
     Users("allow", {"write", "delete"}, Inherited \cup {"only"}),
     Users("deny", {"write"}, Inherited), Users("other", {"write"}, {})}

Both == <<FullControl("system"), FullControl("administrators")>>

MCLists == {<< >>} \cup {<<a>> : a \in MCAces} \cup {<<a, b>> : a, b \in MCAces}
           \cup {Append(Both, a) : a \in MCAces} \cup {<<a>> \o Both : a \in MCAces}

\* What stands at the root
MCRoots ==
    {Missing, [UpdaterDir EXCEPT !.kind = "file"], [UpdaterDir EXCEPT !.kind = "link"],
     [UpdaterDir EXCEPT !.null = TRUE]}
    \cup {[UpdaterDir EXCEPT !.owner = o, !.protected = p, !.aces = l] :
             o \in {"administrators", "system", "users"}, p \in BOOLEAN, l \in MCLists}

\* The root of the volume, and ProgramData: users make files in it.
Folder(aces) == [UpdaterDir EXCEPT !.owner = "installer", !.protected = FALSE,
                                   !.aces = aces]
Plain   == Folder(Append(Both, Users("allow", {"read", "write"}, {"containers"})))
MCAbove ==
    {<<Plain, Plain>>, <<Folder(<<Users("allow", {"delete"}, {})>>), Plain>>}
    \cup {<<Folder(<<Users("allow", {r}, {})>>), Plain>> : r \in {"deleteChild", "control"}}
    \cup {<<Plain, Folder(<<Users("allow", {r}, {})>>)>> : r \in {"delete", "deleteChild"}}
    \cup {<<Plain, Folder(<<Users("other", {"delete"}, {})>>)>>,
          <<Plain, [Plain EXCEPT !.kind = "link"]>>, <<Plain, [Plain EXCEPT !.owner = "users"]>>}

MCBeginnings ==
    [root : MCRoots, above : {<<Plain, Plain>>}]
    \cup [root : {Missing, UpdaterDir}, above : MCAbove]

\* Ages matter to the root only: time stands still while a directory given on the
\* command line exists.  Nor does it pass where the root was odd or the path is, and
\* on an odd path the updaters come one after the other.
TimeOrExplicit ==
    LET ordinary == /\ root \in {Missing, UpdaterDir} /\ aside = {}
                    /\ above = <<Plain, Plain>>
    IN  /\ clock = 0 \/ ordinary
        /\ clock = 0 \/ \A d \in Explicit : place[d] = "unused"
        /\ \/ root \in {Missing, UpdaterDir} /\ aside = {}
           \/ \A d \in Explicit : place[d] = "unused"
        /\ above = <<Plain, Plain>> \/ \E u \in Updaters : pc[u] = "off"
=============================================================================
