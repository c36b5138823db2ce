----------------------------- MODULE RepoAccess -----------------------------
(***************************************************************************)
(* The allow list of repositories and the queue of requests for it         *)
(* (control-plane/internal/repoaccess/store.go), with the handlers that    *)
(* reach it (internal/api/repo_access.go).  The database has one           *)
(* connection, so a transaction is one step; whatever rolls it back        *)
(* changes nothing and answers with an error.                              *)
(***************************************************************************)
EXTENDS Naturals, FiniteSets

VARIABLES allow,   \* the allow list: canonical names
          requests \* the pending requests, one for a repository and a session

storeVars == <<allow, requests>>

\* The session whose helper this is, and some other session.
Sessions == {"own", "other"}

\* Spellings of the names people and agents type.
Spellings == {"Repo.git", "second", "no/such/name"}
Repos     == {"repo", "second"}
Invalid   == "invalid"

\* Letter case and the .git suffix do not tell repositories apart.
NormalizeRepo(raw) ==
    CASE raw = "Repo.git" -> "repo"
      [] raw \in Repos    -> raw
      [] OTHER            -> Invalid

StoreInit == allow = {} /\ requests = {}

StoreTypeOK ==
    /\ allow \subseteq Repos
    /\ requests \subseteq [repo: Repos, session: Sessions]

Allowed(raw) == NormalizeRepo(raw) \in allow

\* What the requester is told.
RequestStatus(raw) == IF Allowed(raw) THEN "allowed" ELSE "pending"

\* A listed repository records nothing, nor does one this session asked for already.
Request(raw, session) ==
    /\ NormalizeRepo(raw) # Invalid
    /\ requests' = requests \cup
           {q \in [repo: {NormalizeRepo(raw)}, session: {session}] : ~Allowed(raw)}
    /\ UNCHANGED allow

\* A person on the screen, which may be out of date.
AddRepo(raw) ==
    /\ NormalizeRepo(raw) # Invalid
    /\ allow' = allow \cup {NormalizeRepo(raw)}
    /\ UNCHANGED requests

RemoveRepo(raw) ==
    /\ NormalizeRepo(raw) # Invalid
    /\ allow' = allow \ {NormalizeRepo(raw)}
    /\ UNCHANGED requests

\* Every request for the repository asked for the same thing.  A request that is
\* no longer there is not found.
Approve(q) ==
    /\ q \in requests
    /\ allow' = allow \cup {q.repo}
    /\ requests' = {p \in requests : p.repo # q.repo}

\* Mutation: a rejection takes the other sessions' requests with it.
RejectRepo(q) ==
    /\ q \in requests
    /\ requests' = {p \in requests : p.repo # q.repo}
    /\ UNCHANGED allow

Reject(q) ==
    /\ q \in requests
    /\ requests' = requests \ {q}
    /\ UNCHANGED allow

-----------------------------------------------------------------------------
\* A request leaves the queue because its repository is on the list, or because
\* a person rejected that one request: the ask of another session for the same
\* repository waits for its own answer (Approve, Reject).
AsksAreAnswered ==
    [][\A q \in requests \ requests' : q.repo \in allow' \/ requests' = requests \ {q}]_storeVars
=============================================================================
