-------------------------- MODULE ReleaseRegister --------------------------
(***************************************************************************)
(* What the registry promises a consumer about one set of framework        *)
(* versions, and nothing about how it is kept: a version is released once, *)
(* with one content hash, may later be withdrawn, and every release and    *)
(* withdrawal is announced, in the order it happened, in a feed that only  *)
(* grows.  Deleting a framework (a superadmin operation) takes its         *)
(* versions away without an announcement.                                  *)
(*                                                                         *)
(* VersionLifecycle is shown to implement this module when requests do not *)
(* overlap, and RegistrySync uses it as the registry its consumer follows. *)
(***************************************************************************)
EXTENDS Naturals, Sequences

CONSTANTS
  Frameworks,     \* framework reference ids
  Versions,       \* version rows, of all frameworks
  FrameworkOf,    \* the framework a version belongs to
  Hashes,         \* content hashes a release can carry
  NoHash          \* the hash of a version that was never released

VARIABLES
  phase,          \* version -> where it stands with consumers
  hash,           \* version -> the content hash it was released with
  log             \* the lifecycle part of the change feed

vars == <<phase, hash, log>>

Phases == {"open", "released", "withdrawn", "erased"}

Event == [kind : {"published", "deprecated"}, version : Versions, hash : Hashes]

TypeOK ==
  /\ phase \in [Versions -> Phases]
  /\ hash \in [Versions -> Hashes \union {NoHash}]
  /\ log \in Seq(Event)

Init ==
  /\ phase = [v \in Versions |-> "open"]
  /\ hash = [v \in Versions |-> NoHash]
  /\ log = <<>>

Announce(kind, v, h) == log' = Append(log, [kind |-> kind, version |-> v, hash |-> h])

\* Mutant of Release: nothing is announced.
ReleaseSilently(v, h) ==
  /\ phase[v] = "open"
  /\ phase' = [phase EXCEPT ![v] = "released"]
  /\ hash' = [hash EXCEPT ![v] = h]
  /\ UNCHANGED log

Release(v, h) ==
  /\ phase[v] = "open"
  /\ phase' = [phase EXCEPT ![v] = "released"]
  /\ hash' = [hash EXCEPT ![v] = h]
  /\ Announce("published", v, h)

\* Mutant of Withdraw: what is withdrawn is withdrawn again.
WithdrawAgain(v) ==
  /\ phase[v] \in {"released", "withdrawn"}
  /\ phase' = [phase EXCEPT ![v] = "withdrawn"]
  /\ Announce("deprecated", v, hash[v])
  /\ UNCHANGED hash

Withdraw(v) ==
  /\ phase[v] = "released"
  /\ phase' = [phase EXCEPT ![v] = "withdrawn"]
  /\ Announce("deprecated", v, hash[v])
  /\ UNCHANGED hash

\* A deleted framework takes the versions it has at that moment with it; a
\* version created later under the same reference id is another one.
Erase(f, gone) ==
  /\ gone # {}
  /\ \A v \in gone : FrameworkOf[v] = f /\ phase[v] # "erased"
  /\ \A v \in Versions \ gone : FrameworkOf[v] = f => phase[v] \in {"open", "erased"}
  /\ phase' = [v \in Versions |-> IF v \in gone THEN "erased" ELSE phase[v]]
  /\ UNCHANGED <<hash, log>>

Next ==
  \/ \E v \in Versions, h \in Hashes : Release(v, h)
  \/ \E v \in Versions : Withdraw(v)
  \/ \E f \in Frameworks, gone \in SUBSET Versions : Erase(f, gone)

Spec == Init /\ [][Next]_vars

-----------------------------------------------------------------------------
(* What a consumer can rely on *)

Tells(i, kind, v, h) == log[i] = [kind |-> kind, version |-> v, hash |-> h]

\* The feed is the whole truth about a version that was not erased: nothing is
\* said of an open one, a released one was announced with its hash and not
\* withdrawn, a withdrawn one was announced and withdrawn after that.
FeedTellsAll ==
  \A v \in Versions :
    /\ phase[v] = "open" => \A i \in DOMAIN log : log[i].version # v
    /\ phase[v] = "released" =>
         /\ \E i \in DOMAIN log : Tells(i, "published", v, hash[v])
         /\ \A i \in DOMAIN log : log[i].version = v => log[i].kind = "published"
    /\ phase[v] = "withdrawn" =>
         \E i, j \in DOMAIN log : /\ i < j
                                  /\ Tells(i, "published", v, hash[v])
                                  /\ Tells(j, "deprecated", v, hash[v])

\* Nothing is announced twice, so a consumer may apply each event once and for
\* good (the idempotency key of API-SYNC.md).
AnnouncedOnce ==
  \A i, j \in DOMAIN log :
    log[i].kind = log[j].kind /\ log[i].version = log[j].version => i = j
=============================================================================
