--------------------------- MODULE DirectoryTrust ---------------------------
(***************************************************************************)
(* What makes the updater trust a directory it finds: the access lists of   *)
(* the directory and of every directory above it (hook-permissions.cc),     *)
(* the stricter list its own directories have, and the names it gives them  *)
(* (updater-storage.cc).                                                    *)
(*                                                                         *)
(* Access rights are grouped by what they let one do, and a SID that is not *)
(* trusted is "users".  A path is the sequence of its directories, the root *)
(* of the volume first.                                                     *)
(***************************************************************************)
EXTENDS Naturals, Sequences

Sids        == {"system", "administrators", "installer", "users"}
TrustedSids == Sids \ {"users"}

SidIsTrusted(sid) == sid \in TrustedSids

\* control: WRITE_DAC, WRITE_OWNER and GENERIC_ALL
Rights              == {"read", "write", "deleteChild", "delete", "control"}
WriteAccess         == Rights \ {"read"}
AncestorWriteAccess == {"deleteChild", "delete", "control"}

\* The root of a volume cannot be deleted.
RootWriteAccess == AncestorWriteAccess \ {"delete"}

\* An entry of an access list.  "only": it is there to be inherited.
Aces == [type : {"allow", "deny", "other"}, to : Sids, mask : SUBSET Rights,
         flags : SUBSET {"objects", "containers", "only"}]

\* What may stand under a name
Objects == [kind : {"missing", "file", "directory", "link"}, owner : Sids,
            protected : BOOLEAN, null : BOOLEAN, aces : Seq(Aces)]

Missing == [kind |-> "missing", owner |-> "users", protected |-> FALSE, null |-> FALSE,
            aces |-> << >>]

-----------------------------------------------------------------------------
(* object_is_trusted, chain_trust *)

AceIsHarmless(ace, mask) ==
    \/ ace.type = "deny"
    \/ /\ ace.type = "allow"
       /\ "only" \in ace.flags \/ ace.mask \cap mask = {} \/ SidIsTrusted(ace.to)

ObjectIsTrusted(o, mask) ==
    /\ o.kind \in {"file", "directory"}
    /\ SidIsTrusted(o.owner) /\ ~o.null
    /\ \A i \in DOMAIN o.aces : AceIsHarmless(o.aces[i], mask)

\* Mutant: the root of the volume is not looked at.
ChainTrustBelowRoot(path) ==
    [object    |-> ObjectIsTrusted(path[Len(path)], WriteAccess),
     ancestors |-> \A i \in 2 .. Len(path) - 1 :
                       ObjectIsTrusted(path[i], AncestorWriteAccess)]

ChainTrust(path) ==
    [object    |-> ObjectIsTrusted(path[Len(path)], WriteAccess),
     ancestors |-> \A i \in 1 .. Len(path) - 1 :
                       ObjectIsTrusted(path[i], IF i = 1 THEN RootWriteAccess
                                                         ELSE AncestorWriteAccess)]

-----------------------------------------------------------------------------
(* updater_acl_is_valid, trusted_directory *)

Inherited == {"objects", "containers"}

FullControl(sid) ==
    [type |-> "allow", to |-> sid, mask |-> Rights, flags |-> Inherited]

\* Mutant: the two entries have to be there, and others may be too.
UpdaterAclHasBoth(o) ==
    /\ o.owner = "administrators" /\ o.protected /\ ~o.null
    /\ \A sid \in {"administrators", "system"} :
          \E i \in DOMAIN o.aces : o.aces[i] = FullControl(sid)

UpdaterAclIsValid(o) ==
    /\ o.owner = "administrators" /\ o.protected /\ ~o.null
    /\ Len(o.aces) = 2
    /\ \A sid \in {"administrators", "system"} :
          \E i \in DOMAIN o.aces : o.aces[i] = FullControl(sid)

TrustedDirectory(path, enforceAncestors) ==
    /\ path[Len(path)].kind \in {"directory", "link"}
    /\ ChainTrust(path).object
    /\ UpdaterAclIsValid(path[Len(path)])
    /\ enforceAncestors => ChainTrust(path).ancestors

\* kUpdaterDirSddl: what CreateDirectory makes
UpdaterDir ==
    [kind |-> "directory", owner |-> "administrators", protected |-> TRUE, null |-> FALSE,
     aces |-> <<FullControl("system"), FullControl("administrators")>>]

-----------------------------------------------------------------------------
(* The names: a prefix and random hexadecimal digits, eight for a word *)

Name(prefix, length, words) == [prefix |-> prefix, size |-> length + 8 * words]

RunName        == Name("run-", 4, 4)
PruneName      == Name(".prune-", 7, 4)
QuarantineName == Name("slobs-updater.quarantine-", 25, 4)

RunLeaf(name)   == name.prefix = "run-" /\ name.size = 36
PruneLeaf(name) == name.prefix = ".prune-" /\ name.size = 39

QuarantineLeaf(name) == /\ name.prefix = "slobs-updater.quarantine-"
                        /\ name.size = 25 + 32

-----------------------------------------------------------------------------
(* What Windows makes of an access list, for the properties. *)

Applies(ace, sid) == ace.to = sid /\ "only" \notin ace.flags

\* The entries count in their order; the owner may always change the list.
MayDo(o, sid) ==
    (IF o.null THEN Rights
     ELSE {r \in Rights :
             \E i \in DOMAIN o.aces :
                /\ Applies(o.aces[i], sid) /\ r \in o.aces[i].mask
                /\ o.aces[i].type # "deny"
                /\ \A j \in 1 .. i - 1 :
                      ~(/\ Applies(o.aces[j], sid) /\ r \in o.aces[j].mask
                        /\ o.aces[j].type = "deny")})
    \cup IF o.owner = sid THEN {"control"} ELSE {}

\* What is made in o gives others rights it inherits.
HandsDown(o) ==
    \/ ~o.protected
    \/ \E i \in DOMAIN o.aces : /\ o.aces[i].flags \cap Inherited # {}
                                /\ ~SidIsTrusted(o.aces[i].to)

\* A component of the path, the last one included, can be exchanged: removed and made
\* anew, or given other rights.
Exchangeable(path, sid) ==
    \/ \E i \in 2 .. Len(path) :
          \/ path[i].kind = "link"
          \/ {"delete", "control"} \cap MayDo(path[i], sid) # {}
          \/ {"deleteChild", "control"} \cap MayDo(path[i - 1], sid) # {}
=============================================================================
