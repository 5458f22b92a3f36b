---------------------------- MODULE PairingAuth ----------------------------
(***************************************************************************)
(* Pairing and sessions of the control gateway: class StateStore of        *)
(* docker/control-gateway/app.py and the pairing, session and client       *)
(* routes of its HTTP handler.  A client is challenged with a nonce, pairs *)
(* with a proof, and from then on uses an access token and rotates a       *)
(* refresh token; a maintainer lists and revokes clients.  Paired clients  *)
(* and refresh tokens are written to a state file and read at start; access*)
(* tokens and nonces live in memory.                                       *)
(*                                                                         *)
(* A request is cut where it drops StateStore.lock: completing a pairing is*)
(* consume_nonce, register_paired_client, issue_tokens; a refresh is the   *)
(* section of rotate_refresh_token, then issue_tokens.  The state file is  *)
(* replaced by a rename inside the section, so a section and its save are  *)
(* one step.  Requests that are refused without a state change are left    *)
(* out, and so are the roles, names and counts carried along.              *)
(***************************************************************************)
EXTENDS Integers, FiniteSets

CONSTANTS
    Clients,     \* the client ids create_nonce can hand out, one per challenge
    Tokens,      \* the token pairs issue_tokens can hand out: access and refresh
    Handlers,    \* HTTP request threads that can be in flight at once
    NoClient,
    MaxPaired,   \* maxPairedClients
    NonceTTL, AccessTTL, RefreshTTL, StaleTTL,   \* in quanta of time
    MaxTime      \* bound: quanta a behaviour spans

ASSUME ConstantsOK ==
    /\ NoClient \notin Clients
    /\ MaxPaired \in Nat /\ MaxTime \in Nat
    /\ NonceTTL \in Nat /\ AccessTTL \in Nat /\ RefreshTTL \in Nat /\ StaleTTL \in Nat

VARIABLES
    now,                  \* time.time()
    nonceBorn,            \* pairing_nonces: when a client's nonce was created
    paired, seen,         \* paired_clients, and their lastSeenAt
    access, refresh,      \* access_tokens, refresh_tokens
    holder, born,         \* of every token ever issued: its client and its time of issue
    disk,                 \* the state file
    req,                  \* the HTTP threads between two lock sections
    gone,                 \* ghost: refresh tokens that have been invalidated
    revoked,              \* ghost: clients a maintainer revoked
    ended                 \* ghost: clients revoked or logged out with no request in flight

memory == <<nonceBorn, paired, seen, access, refresh, holder, born>>
ghosts == <<gone, revoked, ended>>
vars == <<now, memory, disk, req, ghosts>>

Unused == -2      \* no challenge was made for the client id yet
Spent == -1       \* its nonce was consumed, or lost with the process
Idle == [pc |-> "idle", client |-> NoClient]

TokensOf(S, c) == {t \in S : holder[t] = c}

\* Mutant: the access tokens are written to the file as well.
SavedWithAccess(p, s, r) == [paired |-> p, seen |-> s, refresh |-> r, access |-> access]

\* Mutant: the file is written before the change.
SavedBefore(p, s, r) == [paired |-> paired, seen |-> seen, refresh |-> refresh]

\* _save_persistent_state: what the file holds
Saved(p, s, r) == [paired |-> p, seen |-> s, refresh |-> r]
Unissued == {t \in Tokens : holder[t] = NoClient}

\* Mutant: an access token is good for as long as a refresh token.
AccessLivesOn(t) == born[t] + RefreshTTL < now

AccessExpired(t) == born[t] + AccessTTL < now
RefreshExpired(t) == born[t] + RefreshTTL < now

\* Threads about to give client c a new session.
InFlight(c) == \E h \in Handlers : req[h].pc \in {"register", "issue"} /\ req[h].client = c

Init ==
    /\ now = 0
    /\ nonceBorn = [c \in Clients |-> Unused]
    /\ paired = {} /\ seen = [c \in Clients |-> 0]
    /\ access = {} /\ refresh = {}
    /\ holder = [t \in Tokens |-> NoClient] /\ born = [t \in Tokens |-> 0]
    /\ disk = Saved(paired, seen, refresh)
    /\ req = [h \in Handlers |-> Idle]
    /\ gone = {} /\ revoked = {} /\ ended = {}

----------------------------------------------------------------------------
\* _prune_auth_state_locked

\* The clients dropped for the limit: the longest unseen of those without a token.
Evictions(p, s, active) ==
    LET idle == p \ active
        excess == Cardinality(p) - MaxPaired
    IN  {E \in SUBSET idle :
           /\ \A e \in E, i \in idle \ E : s[e] <= s[i]
           /\ Cardinality(E) = IF excess <= 0 THEN 0
                               ELSE IF excess < Cardinality(idle) THEN excess
                               ELSE Cardinality(idle)}

\* Mutant: a stale client is dropped and its tokens are not.
PrunedKeepsTokens(p, s, a, r, hold, made) ==
    LET stale == {c \in p : now - s[c] > StaleTTL}
        a2 == {t \in a : made[t] + AccessTTL >= now}
        r2 == {t \in r : made[t] + RefreshTTL >= now}
    IN  { [paired |-> (p \ stale) \ E, access |-> a2, refresh |-> r2] :
            E \in Evictions(p \ stale, s, {hold[t] : t \in a2 \cup r2}) }

\* What pruning p, s, a, r can leave, with holders hold and times of issue made: ties in
\* lastSeenAt are broken by the order of a dictionary.
Pruned(p, s, a, r, hold, made) ==
    LET stale == {c \in p : now - s[c] > StaleTTL}
        live(S, ttl) == {t \in S : made[t] + ttl >= now /\ hold[t] \notin stale}
        a2 == live(a, AccessTTL)
        r2 == live(r, RefreshTTL)
    IN  { [paired |-> (p \ stale) \ E, access |-> a2, refresh |-> r2] :
            E \in Evictions(p \ stale, s, {hold[t] : t \in a2 \cup r2}) }

\* The nonces pruning leaves.
FreshNonces ==
    [c \in Clients |-> IF nonceBorn[c] >= 0 /\ nonceBorn[c] + NonceTTL < now
                      THEN Spent ELSE nonceBorn[c]]

----------------------------------------------------------------------------
\* Pairing

\* create_nonce: a nonce and a client id of its own
Challenge(c) ==
    /\ nonceBorn[c] = Unused
    /\ nonceBorn' = [nonceBorn EXCEPT ![c] = now]
    /\ UNCHANGED <<now, paired, seen, access, refresh, holder, born, disk, req, ghosts>>

\* consume_nonce and the proof: the nonce is spent whether or not they succeed.
ConsumeNonce(h, c) ==
    /\ req[h].pc = "idle"
    /\ nonceBorn[c] >= 0
    /\ nonceBorn' = [nonceBorn EXCEPT ![c] = Spent]
    /\ \E valid \in BOOLEAN :
          req' = [req EXCEPT ![h] = IF valid /\ nonceBorn[c] + NonceTTL >= now
                                    THEN [pc |-> "register", client |-> c] ELSE Idle]
    /\ UNCHANGED <<now, paired, seen, access, refresh, holder, born, disk, ghosts>>

Register(h) ==
    LET c == req[h].client IN
    /\ req[h].pc = "register"
    /\ paired' = paired \cup {c}
    /\ seen' = [seen EXCEPT ![c] = now]
    /\ disk' = Saved(paired', seen', refresh)
    /\ req' = [req EXCEPT ![h].pc = "issue"]
    /\ UNCHANGED <<now, nonceBorn, access, refresh, holder, born, ghosts>>

\* issue_tokens: a client that is missing by now is written back.
Issue(h) ==
    LET c == req[h].client IN
    /\ req[h].pc = "issue"
    /\ seen' = [seen EXCEPT ![c] = now]
    /\ \E t \in Unissued :
          /\ holder' = [holder EXCEPT ![t] = c]
          /\ born' = [born EXCEPT ![t] = now]
          /\ \E left \in Pruned(paired \cup {c}, seen', access \cup {t}, refresh \cup {t},
                                holder', born') :
                /\ paired' = left.paired
                /\ access' = left.access
                /\ refresh' = left.refresh
    /\ disk' = Saved(paired', seen', refresh')
    /\ gone' = gone \cup (refresh \ refresh')
    /\ nonceBorn' = FreshNonces
    /\ req' = [req EXCEPT ![h] = Idle]
    /\ UNCHANGED <<now, revoked, ended>>

----------------------------------------------------------------------------
\* Sessions

\* Mutant: the client's access tokens stay valid.
DropRefreshOnly(c) ==
    /\ access' = access
    /\ refresh' = refresh \ TokensOf(refresh, c)

\* What rotation, logout and revocation drop: every token of the client.
DropTokens(c) ==
    /\ access' = access \ TokensOf(access, c)
    /\ refresh' = refresh \ TokensOf(refresh, c)

RotateExpired(t) ==
    /\ t \in refresh /\ RefreshExpired(t)
    /\ refresh' = refresh \ {t}
    /\ disk' = Saved(paired, seen, refresh')
    /\ gone' = gone \cup {t}
    /\ UNCHANGED <<now, nonceBorn, paired, seen, access, holder, born, req, revoked, ended>>

\* rotate_refresh_token up to the end of its lock section
Rotate(h, t) ==
    LET c == holder[t] IN
    /\ req[h].pc = "idle"
    /\ t \in refresh /\ ~RefreshExpired(t)
    /\ DropTokens(c)
    /\ paired' = paired \cup {c}
    /\ seen' = [seen EXCEPT ![c] = now]
    /\ disk' = Saved(paired', seen', refresh')
    /\ gone' = gone \cup (refresh \ refresh')
    /\ req' = [req EXCEPT ![h] = [pc |-> "issue", client |-> c]]
    /\ UNCHANGED <<now, nonceBorn, holder, born, revoked, ended>>

\* revoke_refresh_token (logout): no look at the expiry
Logout(t) ==
    LET c == holder[t] IN
    /\ t \in refresh
    /\ DropTokens(c)
    /\ disk' = Saved(paired, seen, refresh')
    /\ gone' = gone \cup (refresh \ refresh')
    /\ ended' = IF InFlight(c) THEN ended ELSE ended \cup {c}
    /\ UNCHANGED <<now, nonceBorn, paired, seen, holder, born, req, revoked>>

\* validate_access_token of a token past its time: it is dropped and everything is
\* pruned, but nothing is saved.
AccessRefused(t) ==
    /\ t \in access /\ AccessExpired(t)
    /\ \E left \in Pruned(paired, seen, access \ {t}, refresh, holder, born) :
          /\ paired' = left.paired
          /\ access' = left.access
          /\ refresh' = left.refresh
    /\ nonceBorn' = FreshNonces
    /\ gone' = gone \cup (refresh \ refresh')
    /\ UNCHANGED <<now, seen, holder, born, disk, req, revoked, ended>>

\* validate_access_token of a valid token.  A maintainer's request may go on to list the
\* paired clients or to revoke one; lastSeenAt is not saved.
Authorize(h, t) ==
    /\ req[h].pc = "idle"
    /\ t \in access /\ ~AccessExpired(t)
    /\ seen' = IF holder[t] \in paired THEN [seen EXCEPT ![holder[t]] = now] ELSE seen
    /\ \/ UNCHANGED req
       \/ req' = [req EXCEPT ![h].pc = "list"]
       \/ \E c \in Clients : req' = [req EXCEPT ![h] = [pc |-> "revoke", client |-> c]]
    /\ UNCHANGED <<now, nonceBorn, paired, access, refresh, holder, born, disk, ghosts>>

\* list_paired_clients prunes, and saves if that removed anything.
ListClients(h) ==
    /\ req[h].pc = "list"
    /\ \E left \in Pruned(paired, seen, access, refresh, holder, born) :
          /\ paired' = left.paired
          /\ access' = left.access
          /\ refresh' = left.refresh
    /\ nonceBorn' = FreshNonces
    /\ disk' = IF UNCHANGED <<paired, access, refresh, nonceBorn>> THEN disk
               ELSE Saved(paired', seen, refresh')
    /\ gone' = gone \cup (refresh \ refresh')
    /\ req' = [req EXCEPT ![h] = Idle]
    /\ UNCHANGED <<now, seen, holder, born, revoked, ended>>

RevokeClient(h) ==
    LET c == req[h].client IN
    /\ req[h].pc = "revoke"
    /\ \/ c \notin paired /\ UNCHANGED <<paired, access, refresh, disk, ghosts>>
       \/ /\ c \in paired
          /\ paired' = paired \ {c}
          /\ DropTokens(c)
          /\ disk' = Saved(paired', seen, refresh')
          /\ gone' = gone \cup (refresh \ refresh')
          /\ revoked' = revoked \cup {c}
          /\ ended' = IF InFlight(c) THEN ended ELSE ended \cup {c}
    /\ req' = [req EXCEPT ![h] = Idle]
    /\ UNCHANGED <<now, nonceBorn, seen, holder, born>>

----------------------------------------------------------------------------
\* The process and time

\* The gateway dies at any point and starts again: nonces, access tokens and requests are
\* lost, the file is loaded and pruned, and saved again if that removed anything.
Restart ==
    LET kept == {t \in disk.refresh : born[t] + RefreshTTL > now} IN
    /\ seen' = disk.seen
    /\ access' = {}
    /\ \E left \in Pruned(disk.paired, disk.seen, {}, kept, holder, born) :
          /\ paired' = left.paired
          /\ refresh' = left.refresh
    /\ disk' = IF paired' # disk.paired \/ refresh' # kept
               THEN Saved(paired', disk.seen, refresh') ELSE disk
    /\ nonceBorn' = [c \in Clients |-> IF nonceBorn[c] = Unused THEN Unused ELSE Spent]
    /\ gone' = gone \cup (refresh \ refresh')
    /\ req' = [h \in Handlers |-> Idle]
    /\ UNCHANGED <<now, holder, born, revoked, ended>>

\* The state file cannot be read: a fresh one is written, and every pairing is lost.
RestartUnreadable ==
    /\ paired' = {} /\ access' = {} /\ refresh' = {}
    /\ disk' = Saved({}, seen, {})
    /\ nonceBorn' = [c \in Clients |-> IF nonceBorn[c] = Unused THEN Unused ELSE Spent]
    /\ gone' = gone \cup refresh \cup disk.refresh
    /\ req' = [h \in Handlers |-> Idle]
    /\ UNCHANGED <<now, seen, holder, born, revoked, ended>>

Tick ==
    /\ now < MaxTime
    /\ now' = now + 1
    /\ UNCHANGED <<memory, disk, req, ghosts>>

Next ==
    \/ \E c \in Clients : Challenge(c) \/ \E h \in Handlers : ConsumeNonce(h, c)
    \/ \E h \in Handlers : Register(h) \/ Issue(h) \/ ListClients(h) \/ RevokeClient(h)
    \/ \E t \in Tokens : RotateExpired(t) \/ Logout(t) \/ AccessRefused(t)
    \/ \E t \in Tokens, h \in Handlers : Rotate(h, t) \/ Authorize(h, t)
    \/ Restart \/ RestartUnreadable \/ Tick

Spec == Init /\ [][Next]_vars

----------------------------------------------------------------------------
\* Properties

\* Type invariant.
TypeOK ==
    /\ now \in 0..MaxTime
    /\ nonceBorn \in [Clients -> Unused..MaxTime]
    /\ paired \subseteq Clients /\ seen \in [Clients -> 0..MaxTime]
    /\ access \subseteq Tokens /\ refresh \subseteq Tokens
    /\ holder \in [Tokens -> Clients \cup {NoClient}] /\ born \in [Tokens -> 0..MaxTime]
    /\ disk \in [paired : SUBSET Clients, seen : [Clients -> 0..MaxTime],
                 refresh : SUBSET Tokens]
    /\ req \in [Handlers -> [pc : {"idle", "register", "issue", "list", "revoke"},
                             client : Clients \cup {NoClient}]]
    /\ gone \subseteq Tokens /\ revoked \subseteq Clients /\ ended \subseteq Clients

\* A token that is accepted belongs to a client that is still paired, in memory and in
\* the file: no way of dropping a client leaves its tokens behind.
TokensOfPaired ==
    /\ \A t \in access \cup refresh : holder[t] \in paired
    /\ \A t \in disk.refresh : holder[t] \in disk.paired

\* However refreshes, logouts and pairings interleave, a client never holds two sessions:
\* of two refreshes with one token only one succeeds.
OneSession ==
    /\ \A t, u \in refresh : holder[t] = holder[u] => t = u
    /\ \A t, u \in access : holder[t] = holder[u] => t = u

\* A refresh token that was rotated, revoked, pruned or expired is never accepted again,
\* not even after a crash that reloads an older file.
NoTokenResurrection == gone \cap refresh = {}

\* Every refresh token and every client that memory accepts is in the file.
SessionsSaved == refresh \subseteq disk.refresh /\ paired \subseteq disk.paired

\* A client has a session, or a thread is about to give it one.
HoldsSession(c) == InFlight(c) \/ \E t \in refresh : holder[t] = c

\* What a crash may cost: a session between the two sections of a pairing or a refresh, when
\* neither the old token nor the new one is in the file, and that of a client the file takes
\* for stale.  The file does not know of a client's last use, but is behind by no more than
\* the life of an access token.
CrashMayLose(c) ==
    /\ Restart
    /\ (\A t \in refresh : holder[t] # c) \/ now - seen[c] > StaleTTL - AccessTTL

\* A client loses its session only to a logout or a revocation, to the end of its refresh
\* token, to StaleTTL without use, to a crash within the limits above, or with the whole
\* file: no pruning, eviction, concurrent refresh or reload of an older file takes the
\* session of a client in use.
SessionsKept ==
    [][\A c \in Clients : HoldsSession(c) /\ ~HoldsSession(c)' =>
          \/ c \in ended'
          \/ \E t \in refresh : holder[t] = c /\ born[t] + RefreshTTL <= now
          \/ now - seen[c] > StaleTTL
          \/ CrashMayLose(c) \/ RestartUnreadable]_vars

\* A logout or a revocation with no request of the client in flight is final.
SessionEndIsFinal == \A t \in access \cup refresh : holder[t] \notin ended

\* "Paired client removed and related tokens revoked."
RevokedStaysRevoked == \A t \in access \cup refresh : holder[t] \notin revoked

\* maxPairedClients is "the maximum number of paired clients kept": no more are kept
\* once every request has been answered.
PairedLimit == (\A h \in Handlers : req[h] = Idle) => Cardinality(paired) <= MaxPaired

\* What the limit does achieve: whenever the store is pruned, by an issue of tokens, a listing,
\* a refused access or a restart, no more than maxPairedClients are left, or only clients that
\* hold a token.
Prunes ==
    \/ \E h \in Handlers : Issue(h) \/ ListClients(h)
    \/ \E t \in Tokens : AccessRefused(t)
    \/ Restart

PrunedToLimit ==
    [][Prunes => \/ Cardinality(paired') <= MaxPaired
                 \/ \A c \in paired' : \E t \in access' \cup refresh' : holder'[t] = c]_vars

----------------------------------------------------------------------------
\* Refinement

\* The accepted credentials of S: who holds which token.
Credential(S) == {<<holder[t], t>> : t \in S}

Refreshes == INSTANCE Credentials WITH fresh <- Unissued, live <- Credential(refresh)
Accesses == INSTANCE Credentials WITH fresh <- Unissued, live <- Credential(access)

\* Refresh tokens and access tokens are each handed out once, to one client that holds
\* none, and never accepted again once they lapsed: of two refreshes with one token one
\* succeeds, and no crash that reloads an older file brings a token back.
ImplementsCredentials == Refreshes!Spec /\ Accesses!Spec
=============================================================================
