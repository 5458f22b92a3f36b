------------------------- MODULE PairingAuth_proofs -------------------------
(***************************************************************************)
(* Proofs about PairingAuth, for any clients, tokens, threads, limits and  *)
(* lifetimes: types, the pairing of every accepted token, the state file's *)
(* coverage of memory, that an invalidated refresh token never comes back, *)
(* one session a client, that an ended session stays ended, and what a     *)
(* crash may cost.                                                         *)
(***************************************************************************)
EXTENDS PairingAuth, FiniteSetTheorems, TLAPS

\* A thread working for a client carries it.
RequestsOK ==
    \A h \in Handlers : req[h].pc \in {"register", "issue", "revoke"} => req[h].client \in Clients

\* The file never claims a client was seen later than memory does.
SeenOK == \A c \in Clients : disk.seen[c] <= seen[c] /\ seen[c] <= now

\* An invalidated refresh token the file still holds is one that loading it drops: it is
\* past its time, or its client was already stale when the file was written.
GoneFromFile ==
    /\ \A t \in gone : holder[t] # NoClient
    /\ \A t \in disk.refresh \cap gone :
          born[t] + RefreshTTL <= now \/ now - disk.seen[holder[t]] > StaleTTL

\* A client is only paired, or being paired, once its one nonce is spent.
NonceOK ==
    \A c \in Clients : nonceBorn[c] # Spent => c \notin paired /\ c \notin disk.paired /\ ~InFlight(c)

\* One thread at most is about to give a client a session, and only while it has none.
ThreadsOK ==
    \A h \in Handlers : req[h].pc \in {"register", "issue"} =>
        /\ \A g \in Handlers : req[g].pc \in {"register", "issue"} /\ req[g].client = req[h].client
                                => g = h
        /\ \A t \in access \cup refresh : holder[t] # req[h].client

\* One session a client, in memory and in the file.
TokensOK ==
    /\ \A t, u \in access \cup refresh : holder[t] = holder[u] => t = u
    /\ \A t, u \in disk.refresh : holder[t] = holder[u] => t = u

\* Nothing can give a client whose session is over another one.
EndedOK ==
    \A c \in ended : /\ nonceBorn[c] = Spent /\ ~InFlight(c)
                     /\ \A t \in access \cup refresh \cup disk.refresh : holder[t] # c

\* The inductive invariant: the first part stands on its own, the second needs it.
IInv ==
    /\ TypeOK /\ RequestsOK /\ TokensOfPaired
    /\ SeenOK /\ GoneFromFile /\ NoTokenResurrection /\ SessionsSaved

\* What the file still holds is accepted, or was invalidated.
FileOK == disk.refresh \subseteq refresh \cup gone

SessionsOK == NonceOK /\ ThreadsOK /\ TokensOK /\ EndedOK

----------------------------------------------------------------------------
\* Pruning only drops.
LEMMA PrunedSubsets ==
    ASSUME NEW p, NEW s, NEW a, NEW r, NEW hold, NEW made,
           NEW left \in Pruned(p, s, a, r, hold, made)
    PROVE  left.paired \subseteq p /\ left.access \subseteq a /\ left.refresh \subseteq r
<1> DEFINE stale == {c \in p : now - s[c] > StaleTTL}
           a2 == {t \in a : made[t] + AccessTTL >= now /\ hold[t] \notin stale}
           r2 == {t \in r : made[t] + RefreshTTL >= now /\ hold[t] \notin stale}
           active == {hold[t] : t \in a2 \cup r2}
<1>1. PICK E \in Evictions(p \ stale, s, active) :
         left = [paired |-> (p \ stale) \ E, access |-> a2, refresh |-> r2]
    BY DEF Pruned
<1>2. left.paired = (p \ stale) \ E /\ left.access = a2 /\ left.refresh = r2
    BY <1>1
<1> QED
    BY <1>2

\* It leaves no token without its client.
LEMMA PrunedPaired ==
    ASSUME NEW p, NEW s, NEW a, NEW r, NEW hold, NEW made,
           NEW left \in Pruned(p, s, a, r, hold, made)
    PROVE  \A t \in left.access \cup left.refresh : hold[t] \in p => hold[t] \in left.paired
<1> DEFINE stale == {c \in p : now - s[c] > StaleTTL}
           a2 == {t \in a : made[t] + AccessTTL >= now /\ hold[t] \notin stale}
           r2 == {t \in r : made[t] + RefreshTTL >= now /\ hold[t] \notin stale}
           active == {hold[t] : t \in a2 \cup r2}
<1>1. PICK E \in Evictions(p \ stale, s, active) :
         left = [paired |-> (p \ stale) \ E, access |-> a2, refresh |-> r2]
    BY DEF Pruned
<1>2. left.paired = (p \ stale) \ E /\ left.access = a2 /\ left.refresh = r2
    BY <1>1
<1>3. E \cap active = {}
    BY DEF Evictions
<1> HIDE DEF active
<1>4. \A t \in a2 \cup r2 : hold[t] \in active /\ hold[t] \notin stale
    BY DEF active
<1> QED
    BY <1>2, <1>3, <1>4

\* The refresh tokens it drops are expired or of a stale client, and it keeps none of those.
LEMMA PrunedRefresh ==
    ASSUME NEW p, NEW s, NEW a, NEW r, NEW hold, NEW made,
           NEW left \in Pruned(p, s, a, r, hold, made)
    PROVE  /\ \A t \in r \ left.refresh :
                 ~(made[t] + RefreshTTL >= now) \/ (hold[t] \in p /\ now - s[hold[t]] > StaleTTL)
           /\ \A t \in left.refresh : hold[t] \in p => ~(now - s[hold[t]] > StaleTTL)
<1> DEFINE stale == {c \in p : now - s[c] > StaleTTL}
           a2 == {t \in a : made[t] + AccessTTL >= now /\ hold[t] \notin stale}
           r2 == {t \in r : made[t] + RefreshTTL >= now /\ hold[t] \notin stale}
           active == {hold[t] : t \in a2 \cup r2}
<1>1. PICK E \in Evictions(p \ stale, s, active) :
         left = [paired |-> (p \ stale) \ E, access |-> a2, refresh |-> r2]
    BY DEF Pruned
<1>2. left.paired = (p \ stale) \ E /\ left.access = a2 /\ left.refresh = r2
    BY <1>1
<1> HIDE DEF a2, active
<1> QED
    BY <1>2

\* It keeps what is neither past its time nor of a stale client.
LEMMA PrunedKeeps ==
    ASSUME NEW p, NEW s, NEW a, NEW r, NEW hold, NEW made,
           NEW left \in Pruned(p, s, a, r, hold, made),
           NEW t \in a \cap r, ~(now - s[hold[t]] > StaleTTL)
    PROVE  /\ made[t] + AccessTTL >= now => t \in left.access
           /\ made[t] + RefreshTTL >= now => t \in left.refresh
<1> DEFINE stale == {c \in p : now - s[c] > StaleTTL}
           a2 == {u \in a : made[u] + AccessTTL >= now /\ hold[u] \notin stale}
           r2 == {u \in r : made[u] + RefreshTTL >= now /\ hold[u] \notin stale}
           active == {hold[u] : u \in a2 \cup r2}
<1>1. PICK E \in Evictions(p \ stale, s, active) :
         left = [paired |-> (p \ stale) \ E, access |-> a2, refresh |-> r2]
    BY DEF Pruned
<1>2. left.access = a2 /\ left.refresh = r2
    BY <1>1
<1> HIDE DEF active
<1> QED
    BY <1>2

----------------------------------------------------------------------------
\* Types

LEMMA InitTypes == Init => TypeOK /\ RequestsOK
BY ConstantsOK DEF ConstantsOK, Init, TypeOK, RequestsOK, Saved, Idle, Unused

\* A saved file is well typed.
LEMMA SavedType ==
    ASSUME NEW p \in SUBSET Clients, NEW s \in [Clients -> 0..MaxTime], NEW r \in SUBSET Tokens
    PROVE  Saved(p, s, r) \in [paired : SUBSET Clients, seen : [Clients -> 0..MaxTime],
                                refresh : SUBSET Tokens]
BY DEF Saved

\* Pruning takes nonces away and adds none.
LEMMA FreshNoncesFacts ==
    ASSUME TypeOK
    PROVE  /\ FreshNonces \in [Clients -> Unused..MaxTime]
           /\ \A c \in Clients : FreshNonces[c] # Spent => nonceBorn[c] # Spent
BY ConstantsOK DEF ConstantsOK, TypeOK, FreshNonces, Spent, Unused

\* Every step keeps the types.
LEMMA NextTypes ==
    ASSUME TypeOK, RequestsOK, TokensOfPaired, [Next]_vars
    PROVE  TypeOK' /\ RequestsOK'
<1>1. ASSUME NEW c \in Clients, Challenge(c)
      PROVE  TypeOK' /\ RequestsOK'
    BY <1>1 DEF Challenge, Unused, TypeOK, RequestsOK, ghosts
<1>2. ASSUME NEW h \in Handlers, NEW c \in Clients, ConsumeNonce(h, c)
      PROVE  TypeOK' /\ RequestsOK'
    BY <1>2, ConstantsOK DEF ConstantsOK, ConsumeNonce, Unused, Spent, Idle, TypeOK, RequestsOK, ghosts
<1>3. ASSUME NEW h \in Handlers, Register(h)
      PROVE  TypeOK' /\ RequestsOK'
    <2>7. req[h].client \in Clients
        BY <1>3 DEF Register, RequestsOK
    <2>8. paired' \in SUBSET Clients /\ seen' \in [Clients -> 0..MaxTime]
        BY <1>3, <2>7 DEF Register, TypeOK
    <2>9. disk' \in [paired : SUBSET Clients, seen : [Clients -> 0..MaxTime],
                     refresh : SUBSET Tokens]
        BY <1>3, <2>8, SavedType DEF Register, TypeOK
    <2>10. req' \in [Handlers -> [pc : {"idle", "register", "issue", "list", "revoke"},
                                  client : Clients \cup {NoClient}]]
        BY <1>3 DEF Register, TypeOK
    <2>11. RequestsOK'
        BY <1>3, <2>7 DEF Register, RequestsOK, TypeOK
    <2> QED
        BY <1>3, <2>8, <2>9, <2>10, <2>11 DEF Register, TypeOK, ghosts
<1>4. ASSUME NEW h \in Handlers, Issue(h)
      PROVE  TypeOK' /\ RequestsOK'
    <2> DEFINE c == req[h].client
    <2>1. c \in Clients /\ seen' \in [Clients -> 0..MaxTime]
        BY <1>4 DEF Issue, TypeOK, RequestsOK
    <2>2. PICK t \in Unissued :
             /\ holder' = [holder EXCEPT ![t] = c]
             /\ born' = [born EXCEPT ![t] = now]
             /\ \E left \in Pruned(paired \cup {c}, seen', access \cup {t}, refresh \cup {t},
                                   holder', born') :
                   paired' = left.paired /\ access' = left.access /\ refresh' = left.refresh
        BY <1>4 DEF Issue
    <2>3. PICK left \in Pruned(paired \cup {c}, seen', access \cup {t}, refresh \cup {t},
                               holder', born') :
             paired' = left.paired /\ access' = left.access /\ refresh' = left.refresh
        BY <2>2
    <2>4. paired \cup {c} \in SUBSET Clients /\ access \cup {t} \in SUBSET Tokens
          /\ refresh \cup {t} \in SUBSET Tokens /\ t \in Tokens
        BY <2>1 DEF Unissued, TypeOK
    <2>5. paired' \in SUBSET Clients /\ access' \in SUBSET Tokens /\ refresh' \in SUBSET Tokens
        BY <2>1, <2>3, <2>4, PrunedSubsets
    <2>6. holder' \in [Tokens -> Clients \cup {NoClient}] /\ born' \in [Tokens -> 0..MaxTime]
        BY <2>1, <2>2, <2>4 DEF TypeOK
    <2>7. disk' \in [paired : SUBSET Clients, seen : [Clients -> 0..MaxTime],
                     refresh : SUBSET Tokens]
        BY <1>4, <2>1, <2>5, SavedType DEF Issue
    <2>8. req' \in [Handlers -> [pc : {"idle", "register", "issue", "list", "revoke"},
                                 client : Clients \cup {NoClient}]] /\ RequestsOK'
        BY <1>4, ConstantsOK DEF Issue, RequestsOK, TypeOK, Idle
    <2> QED
        BY <1>4, <2>1, <2>5, <2>6, <2>7, <2>8, FreshNoncesFacts DEF Issue, TypeOK
<1>5. ASSUME NEW h \in Handlers, ListClients(h)
      PROVE  TypeOK' /\ RequestsOK'
    <2>1. PICK left \in Pruned(paired, seen, access, refresh, holder, born) :
             paired' = left.paired /\ access' = left.access /\ refresh' = left.refresh
        BY <1>5 DEF ListClients
    <2>2. paired \in SUBSET Clients /\ seen \in [Clients -> 0..MaxTime]
          /\ access \in SUBSET Tokens /\ refresh \in SUBSET Tokens
        BY DEF TypeOK
    <2>3. paired' \in SUBSET Clients /\ access' \in SUBSET Tokens /\ refresh' \in SUBSET Tokens
        BY <2>1, <2>2, PrunedSubsets
    <2>4. disk' \in [paired : SUBSET Clients, seen : [Clients -> 0..MaxTime],
                     refresh : SUBSET Tokens]
        BY <1>5, <2>3, SavedType DEF ListClients, TypeOK
    <2> QED
        BY <1>5, <2>3, <2>4, FreshNoncesFacts, ConstantsOK DEF ConstantsOK, ListClients, TypeOK, RequestsOK, Idle
<1>6. ASSUME NEW h \in Handlers, RevokeClient(h)
      PROVE  TypeOK' /\ RequestsOK'
    <2>1. CASE req[h].client \notin paired
        BY <1>6, <2>1, ConstantsOK DEF ConstantsOK, RevokeClient, TypeOK, RequestsOK, ghosts, Idle
    <2>2. CASE req[h].client \in paired
        <3>1. paired' \in SUBSET Clients /\ refresh' \in SUBSET Tokens /\ access' \in SUBSET Tokens
            BY <1>6, <2>2 DEF RevokeClient, TypeOK, DropTokens
        <3>2. disk' = Saved(paired', seen, refresh') /\ seen \in [Clients -> 0..MaxTime]
            BY <1>6, <2>2 DEF RevokeClient, TypeOK
        <3>4. disk' \in [paired : SUBSET Clients, seen : [Clients -> 0..MaxTime],
                         refresh : SUBSET Tokens]
            BY <3>1, <3>2, SavedType
        <3>3. gone' \in SUBSET Tokens /\ revoked' \in SUBSET Clients /\ ended' \in SUBSET Clients
            BY <1>6, <2>2 DEF RevokeClient, TypeOK, RequestsOK
        <3> QED
            BY <1>6, <2>2, <3>1, <3>3, <3>4, ConstantsOK DEF ConstantsOK, RevokeClient, TypeOK, RequestsOK, Idle
    <2> QED
        BY <2>1, <2>2
<1>7. ASSUME NEW t \in Tokens, RotateExpired(t)
      PROVE  TypeOK' /\ RequestsOK'
    <2>8. paired' \in SUBSET Clients /\ seen' \in [Clients -> 0..MaxTime] /\ refresh' \in SUBSET Tokens
        BY <1>7 DEF RotateExpired, TypeOK, RequestsOK, DropTokens
    <2>9. disk' \in [paired : SUBSET Clients, seen : [Clients -> 0..MaxTime],
                     refresh : SUBSET Tokens]
        BY <1>7, <2>8, SavedType DEF RotateExpired, TypeOK
    <2> QED
        BY <1>7, <2>8, <2>9, ConstantsOK DEF ConstantsOK, RotateExpired, TypeOK, RequestsOK, DropTokens, ghosts, Idle
<1>8. ASSUME NEW t \in Tokens, Logout(t)
      PROVE  TypeOK' /\ RequestsOK'
    <2>1. refresh' \in SUBSET Tokens /\ access' \in SUBSET Tokens
        BY <1>8 DEF Logout, TypeOK, DropTokens
    <2>2. disk' \in [paired : SUBSET Clients, seen : [Clients -> 0..MaxTime],
                     refresh : SUBSET Tokens]
        BY <1>8, <2>1, SavedType DEF Logout, TypeOK
    <2>3. holder[t] \in Clients => ended' \in SUBSET Clients
        BY <1>8 DEF Logout, TypeOK
    <2>4. holder[t] \in Clients
        BY <1>8 DEF Logout, TokensOfPaired, TypeOK
    <2> QED
        BY <1>8, <2>1, <2>2, <2>3, <2>4 DEF Logout, TypeOK, RequestsOK
<1>9. ASSUME NEW t \in Tokens, AccessRefused(t)
      PROVE  TypeOK' /\ RequestsOK'
    <2>1. PICK left \in Pruned(paired, seen, access \ {t}, refresh, holder, born) :
             paired' = left.paired /\ access' = left.access /\ refresh' = left.refresh
        BY <1>9 DEF AccessRefused
    <2>2. paired \in SUBSET Clients /\ seen \in [Clients -> 0..MaxTime]
          /\ access \ {t} \in SUBSET Tokens /\ refresh \in SUBSET Tokens
        BY DEF TypeOK
    <2>3. paired' \in SUBSET Clients /\ access' \in SUBSET Tokens /\ refresh' \in SUBSET Tokens
        BY <2>1, <2>2, PrunedSubsets
    <2> QED
        BY <1>9, <2>3, FreshNoncesFacts DEF AccessRefused, TypeOK, RequestsOK
<1>10. ASSUME NEW h \in Handlers, NEW t \in Tokens, Rotate(h, t)
      PROVE  TypeOK' /\ RequestsOK'
    <2>1. holder[t] \in Clients
        BY <1>10 DEF Rotate, TokensOfPaired, TypeOK
    <2>8. paired' \in SUBSET Clients /\ seen' \in [Clients -> 0..MaxTime] /\ refresh' \in SUBSET Tokens
        BY <1>10, <2>1 DEF Rotate, TypeOK, RequestsOK, DropTokens
    <2>2. disk' = Saved(paired', seen', refresh')
        BY <1>10 DEF Rotate
    <2>9. disk' \in [paired : SUBSET Clients, seen : [Clients -> 0..MaxTime],
                     refresh : SUBSET Tokens]
        BY <2>2, <2>8, SavedType DEF TypeOK
    <2>3. req' = [req EXCEPT ![h] = [pc |-> "issue", client |-> holder[t]]]
        BY <1>10 DEF Rotate
    <2>4. RequestsOK' /\ req' \in [Handlers -> [pc : {"idle", "register", "issue", "list", "revoke"},
                                                client : Clients \cup {NoClient}]]
        BY <2>1, <2>3 DEF TypeOK, RequestsOK
    <2>5. access' \subseteq Tokens /\ gone' \subseteq Tokens
        BY <1>10 DEF Rotate, DropTokens, TypeOK
    <2>6. /\ now' = now /\ nonceBorn' = nonceBorn /\ holder' = holder /\ born' = born
          /\ revoked' = revoked /\ ended' = ended
        BY <1>10 DEF Rotate
    <2>7. /\ now' \in 0..MaxTime /\ nonceBorn' \in [Clients -> Unused..MaxTime]
          /\ holder' \in [Tokens -> Clients \cup {NoClient}] /\ born' \in [Tokens -> 0..MaxTime]
          /\ revoked' \subseteq Clients /\ ended' \subseteq Clients
        BY <2>6 DEF TypeOK
    <2> QED
        BY <2>4, <2>5, <2>7, <2>8, <2>9 DEF TypeOK
<1>11. ASSUME NEW h \in Handlers, NEW t \in Tokens, Authorize(h, t)
      PROVE  TypeOK' /\ RequestsOK'
    <2>1. seen' \in [Clients -> 0..MaxTime]
        BY <1>11 DEF Authorize, TypeOK
    <2>2. RequestsOK' /\ req' \in [Handlers -> [pc : {"idle", "register", "issue", "list", "revoke"},
                                                client : Clients \cup {NoClient}]]
        BY <1>11 DEF Authorize, TypeOK, RequestsOK
    <2>3. /\ now' = now /\ nonceBorn' = nonceBorn /\ paired' = paired /\ access' = access
          /\ refresh' = refresh /\ holder' = holder /\ born' = born /\ disk' = disk
          /\ gone' = gone /\ revoked' = revoked /\ ended' = ended
        BY <1>11 DEF Authorize, ghosts
    <2> QED
        BY <2>1, <2>2, <2>3 DEF TypeOK
<1>12. ASSUME Restart
      PROVE  TypeOK' /\ RequestsOK'
    <2> DEFINE kept == {t \in disk.refresh : born[t] + RefreshTTL > now}
    <2>1. PICK left \in Pruned(disk.paired, disk.seen, {}, kept, holder, born) :
             paired' = left.paired /\ refresh' = left.refresh
        BY <1>12 DEF Restart
    <2>2. disk.paired \in SUBSET Clients /\ disk.seen \in [Clients -> 0..MaxTime]
          /\ {} \in SUBSET Tokens /\ kept \in SUBSET Tokens
        BY DEF TypeOK
    <2>3. paired' \in SUBSET Clients /\ refresh' \in SUBSET Tokens
        BY <2>1, <2>2, PrunedSubsets
    <2>4. disk' \in [paired : SUBSET Clients, seen : [Clients -> 0..MaxTime],
                     refresh : SUBSET Tokens]
        BY <1>12, <2>3, SavedType DEF Restart, TypeOK
    <2>5. nonceBorn' \in [Clients -> Unused..MaxTime] /\ seen' \in [Clients -> 0..MaxTime]
        BY <1>12, ConstantsOK DEF ConstantsOK, Restart, TypeOK, Unused, Spent
    <2>6. req' \in [Handlers -> [pc : {"idle", "register", "issue", "list", "revoke"},
                                 client : Clients \cup {NoClient}]] /\ RequestsOK'
        BY <1>12 DEF Restart, Idle, RequestsOK
    <2> QED
        BY <1>12, <2>3, <2>4, <2>5, <2>6 DEF Restart, TypeOK
<1>13. ASSUME RestartUnreadable
      PROVE  TypeOK' /\ RequestsOK'
    <2>1. disk' \in [paired : SUBSET Clients, seen : [Clients -> 0..MaxTime],
                     refresh : SUBSET Tokens]
        BY <1>13, SavedType DEF RestartUnreadable, TypeOK
    <2>2. nonceBorn' \in [Clients -> Unused..MaxTime]
        BY <1>13, ConstantsOK DEF ConstantsOK, RestartUnreadable, TypeOK, Unused, Spent
    <2>3. req' \in [Handlers -> [pc : {"idle", "register", "issue", "list", "revoke"},
                                 client : Clients \cup {NoClient}]] /\ RequestsOK'
        BY <1>13 DEF RestartUnreadable, Idle, RequestsOK
    <2> QED
        BY <1>13, <2>1, <2>2, <2>3 DEF RestartUnreadable, TypeOK
<1>14. ASSUME Tick
      PROVE  TypeOK' /\ RequestsOK'
    BY <1>14, ConstantsOK DEF ConstantsOK, Tick, TypeOK, RequestsOK, memory, ghosts
<1>15. ASSUME UNCHANGED vars
      PROVE  TypeOK' /\ RequestsOK'
    BY <1>15 DEF vars, TypeOK, RequestsOK, memory, ghosts
<1> QED
    BY <1>1, <1>2, <1>3, <1>4, <1>5, <1>6, <1>7, <1>8, <1>9, <1>10, <1>11, <1>12, <1>13, <1>14, <1>15 DEF Next

\* No step leaves an accepted or saved token without its client.
LEMMA NextPaired ==
    ASSUME TypeOK, RequestsOK, TokensOfPaired, [Next]_vars
    PROVE  TokensOfPaired'
<1>1. ASSUME NEW c \in Clients, Challenge(c)
      PROVE  TokensOfPaired'
    BY <1>1 DEF Challenge, TokensOfPaired
<1>2. ASSUME NEW h \in Handlers, NEW c \in Clients, ConsumeNonce(h, c)
      PROVE  TokensOfPaired'
    BY <1>2 DEF ConsumeNonce, TokensOfPaired
<1>3. ASSUME NEW h \in Handlers, Register(h)
      PROVE  TokensOfPaired'
    <2>1. \A u \in access' \cup refresh' : holder'[u] \in paired'
        BY <1>3 DEF Register, TokensOfPaired
    <2> QED
        BY <1>3, <2>1 DEF Register, Saved, TokensOfPaired
<1>4. ASSUME NEW h \in Handlers, Issue(h)
      PROVE  TokensOfPaired'
    <2> DEFINE c == req[h].client
    <2>1. c \in Clients
        BY <1>4 DEF Issue, RequestsOK
    <2>2. PICK t \in Unissued :
             /\ holder' = [holder EXCEPT ![t] = c]
             /\ \E left \in Pruned(paired \cup {c}, seen', access \cup {t}, refresh \cup {t},
                                   holder', born') :
                   paired' = left.paired /\ access' = left.access /\ refresh' = left.refresh
        BY <1>4 DEF Issue
    <2>3. PICK left \in Pruned(paired \cup {c}, seen', access \cup {t}, refresh \cup {t},
                               holder', born') :
             paired' = left.paired /\ access' = left.access /\ refresh' = left.refresh
        BY <2>2
    <2>4. \A u \in access \cup refresh \cup {t} : holder'[u] \in paired \cup {c}
        BY <2>1, <2>2 DEF TokensOfPaired, TypeOK, Unissued
    <2>5. /\ left.access \subseteq access \cup {t} /\ left.refresh \subseteq refresh \cup {t}
          /\ \A u \in left.access \cup left.refresh :
                holder'[u] \in paired \cup {c} => holder'[u] \in left.paired
        BY PrunedSubsets, PrunedPaired
    <2>6. \A u \in access' \cup refresh' : holder'[u] \in paired'
        BY <2>3, <2>4, <2>5
    <2>7. disk' = Saved(paired', seen', refresh')
        BY <1>4 DEF Issue
    <2> QED
        BY <2>6, <2>7 DEF Saved, TokensOfPaired
<1>5. ASSUME NEW h \in Handlers, ListClients(h)
      PROVE  TokensOfPaired'
    <2>1. PICK left \in Pruned(paired, seen, access, refresh, holder, born) :
             paired' = left.paired /\ access' = left.access /\ refresh' = left.refresh
        BY <1>5 DEF ListClients
    <2>2. /\ left.access \subseteq access /\ left.refresh \subseteq refresh
          /\ \A u \in left.access \cup left.refresh : holder[u] \in paired => holder[u] \in left.paired
        BY PrunedSubsets, PrunedPaired
    <2>3. \A u \in access' \cup refresh' : holder'[u] \in paired'
        BY <1>5, <2>1, <2>2 DEF ListClients, TokensOfPaired
    <2>4. disk' = disk \/ disk' = Saved(paired', seen, refresh')
        BY <1>5 DEF ListClients
    <2> QED
        BY <1>5, <2>3, <2>4 DEF ListClients, Saved, TokensOfPaired
<1>6. ASSUME NEW h \in Handlers, RevokeClient(h)
      PROVE  TokensOfPaired'
    <2>1. CASE req[h].client \notin paired
        BY <1>6, <2>1 DEF RevokeClient, TokensOfPaired
    <2>2. CASE req[h].client \in paired
        <3>1. /\ paired' = paired \ {req[h].client} /\ DropTokens(req[h].client)
              /\ disk' = Saved(paired', seen, refresh') /\ UNCHANGED holder
            BY <1>6, <2>2 DEF RevokeClient
        <3>2. \A u \in access' \cup refresh' : holder'[u] \in paired'
            BY <3>1 DEF DropTokens, TokensOf, TokensOfPaired
        <3> QED
            BY <3>1, <3>2 DEF Saved, TokensOfPaired
    <2> QED
        BY <2>1, <2>2
<1>7. ASSUME NEW t \in Tokens, RotateExpired(t)
      PROVE  TokensOfPaired'
    <2>1. \A u \in access' \cup refresh' : holder'[u] \in paired'
        BY <1>7 DEF RotateExpired, DropTokens, TokensOf, TokensOfPaired
    <2> QED
        BY <1>7, <2>1 DEF RotateExpired, Saved, TokensOfPaired
<1>8. ASSUME NEW t \in Tokens, Logout(t)
      PROVE  TokensOfPaired'
    <2>1. \A u \in access' \cup refresh' : holder'[u] \in paired'
        BY <1>8 DEF Logout, DropTokens, TokensOf, TokensOfPaired
    <2> QED
        BY <1>8, <2>1 DEF Logout, Saved, TokensOfPaired
<1>9. ASSUME NEW t \in Tokens, AccessRefused(t)
      PROVE  TokensOfPaired'
    <2>1. PICK left \in Pruned(paired, seen, access \ {t}, refresh, holder, born) :
             paired' = left.paired /\ access' = left.access /\ refresh' = left.refresh
        BY <1>9 DEF AccessRefused
    <2>2. /\ left.access \subseteq access \ {t} /\ left.refresh \subseteq refresh
          /\ \A u \in left.access \cup left.refresh : holder[u] \in paired => holder[u] \in left.paired
        BY PrunedSubsets, PrunedPaired
    <2>3. \A u \in access' \cup refresh' : holder'[u] \in paired'
        BY <1>9, <2>1, <2>2 DEF AccessRefused, TokensOfPaired
    <2> QED
        BY <1>9, <2>3 DEF AccessRefused, TokensOfPaired
<1>10. ASSUME NEW h \in Handlers, NEW t \in Tokens, Rotate(h, t)
      PROVE  TokensOfPaired'
    <2>1. \A u \in access' \cup refresh' : holder'[u] \in paired'
        BY <1>10 DEF Rotate, DropTokens, TokensOf, TokensOfPaired
    <2> QED
        BY <1>10, <2>1 DEF Rotate, Saved, TokensOfPaired
<1>11. ASSUME NEW h \in Handlers, NEW t \in Tokens, Authorize(h, t)
      PROVE  TokensOfPaired'
    BY <1>11 DEF Authorize, TokensOfPaired, ghosts
<1>12. ASSUME Restart
      PROVE  TokensOfPaired'
    <2> DEFINE kept == {t \in disk.refresh : born[t] + RefreshTTL > now}
    <2>1. PICK left \in Pruned(disk.paired, disk.seen, {}, kept, holder, born) :
             paired' = left.paired /\ refresh' = left.refresh
        BY <1>12 DEF Restart
    <2>2. /\ left.access \subseteq {} /\ left.refresh \subseteq kept
          /\ \A u \in left.access \cup left.refresh : holder[u] \in disk.paired => holder[u] \in left.paired
        BY PrunedSubsets, PrunedPaired
    <2>3. \A u \in access' \cup refresh' : holder'[u] \in paired'
        BY <1>12, <2>1, <2>2 DEF Restart, TokensOfPaired
    <2>4. disk' = disk \/ disk' = Saved(paired', disk.seen, refresh')
        BY <1>12 DEF Restart
    <2> QED
        BY <1>12, <2>3, <2>4 DEF Restart, Saved, TokensOfPaired
<1>13. ASSUME RestartUnreadable
      PROVE  TokensOfPaired'
    BY <1>13 DEF RestartUnreadable, Saved, TokensOfPaired
<1>14. ASSUME Tick
      PROVE  TokensOfPaired'
    BY <1>14 DEF Tick, memory, TokensOfPaired
<1>15. ASSUME UNCHANGED vars
      PROVE  TokensOfPaired'
    BY <1>15 DEF vars, memory, TokensOfPaired
<1> QED
    BY <1>1, <1>2, <1>3, <1>4, <1>5, <1>6, <1>7, <1>8, <1>9, <1>10, <1>11, <1>12, <1>13, <1>14, <1>15 DEF Next

\* After a step that saves what it leaves in memory, the file has no invalidated token.
LEMMA SavingStep ==
    ASSUME IInv, TypeOK',
           disk' = Saved(paired', seen', refresh'),
           gone' = gone \cup (refresh \ refresh'), refresh' \cap gone = {},
           \A c \in Clients : seen'[c] <= now',
           \A t \in gone' : holder'[t] # NoClient
    PROVE  SeenOK' /\ GoneFromFile' /\ NoTokenResurrection' /\ SessionsSaved'
<1>1. disk'.seen = seen' /\ disk'.refresh = refresh' /\ disk'.paired = paired'
    BY DEF Saved
<1>2. refresh' \cap gone' = {}
    OBVIOUS
<1>3. SeenOK'
    BY <1>1 DEF SeenOK, TypeOK
<1> QED
    BY <1>1, <1>2, <1>3 DEF GoneFromFile, NoTokenResurrection, SessionsSaved

\* Neither has it after a step that leaves it alone and drops only tokens it will not load.
LEMMA UnsavedStep ==
    ASSUME IInv, TypeOK', UNCHANGED <<disk, holder, born>>, now <= now',
           \A c \in Clients : disk.seen[c] <= seen'[c] /\ seen'[c] <= now',
           paired' \subseteq disk.paired, refresh' \subseteq refresh,
           gone' = gone \cup (refresh \ refresh'),
           \A t \in refresh \ refresh' :
               born[t] + RefreshTTL <= now \/ now - disk.seen[holder[t]] > StaleTTL
    PROVE  SeenOK' /\ GoneFromFile' /\ NoTokenResurrection' /\ SessionsSaved'
<1>1. SeenOK'
    BY DEF SeenOK
<1>2. NoTokenResurrection' /\ SessionsSaved'
    BY DEF IInv, NoTokenResurrection, SessionsSaved
<1>3. \A t \in gone' : holder'[t] # NoClient
    BY ConstantsOK DEF ConstantsOK, IInv, GoneFromFile, TokensOfPaired, TypeOK
<1>4. ASSUME NEW t \in disk'.refresh \cap gone'
      PROVE  born'[t] + RefreshTTL <= now' \/ now' - disk'.seen[holder'[t]] > StaleTTL
    <2>1. born[t] + RefreshTTL <= now \/ now - disk.seen[holder[t]] > StaleTTL
        BY <1>4 DEF IInv, GoneFromFile
    <2>2. t \in Tokens /\ holder[t] \in Clients
        BY <1>3, <1>4 DEF IInv, TypeOK
    <2>3. born[t] \in Int /\ disk.seen[holder[t]] \in Int /\ now \in Int /\ now' \in Int
        BY <2>2 DEF IInv, TypeOK
    <2>4. born'[t] = born[t] /\ disk'.seen[holder'[t]] = disk.seen[holder[t]]
        OBVIOUS
    <2> QED
        BY <2>1, <2>3, <2>4, ConstantsOK DEF ConstantsOK
<1> QED
    BY <1>1, <1>2, <1>3, <1>4 DEF GoneFromFile

\* A token that is accepted or was invalidated has been issued.
LEMMA HeldTokens == IInv => \A t \in gone \cup refresh : holder[t] # NoClient
BY ConstantsOK DEF ConstantsOK, IInv, GoneFromFile, TokensOfPaired, TypeOK

\* A refresh token that pruning drops will not be loaded from the file either.
LEMMA DroppedTokens ==
    ASSUME IInv, NEW t \in refresh,
           ~(born[t] + RefreshTTL >= now) \/ (holder[t] \in paired /\ now - seen[holder[t]] > StaleTTL)
    PROVE  born[t] + RefreshTTL <= now \/ now - disk.seen[holder[t]] > StaleTTL
<1>1. t \in Tokens /\ holder[t] \in Clients
    BY DEF IInv, TypeOK, TokensOfPaired
<1>2. /\ born[t] \in Int /\ now \in Int
      /\ seen[holder[t]] \in Int /\ disk.seen[holder[t]] \in Int
    BY <1>1 DEF IInv, TypeOK
<1>3. disk.seen[holder[t]] <= seen[holder[t]]
    BY <1>1 DEF IInv, SeenOK
<1> QED
    BY <1>2, <1>3, ConstantsOK DEF ConstantsOK

\* No step brings an invalidated refresh token back, in memory or by way of the file.
LEMMA NextFile ==
    ASSUME IInv, TypeOK', [Next]_vars
    PROVE  SeenOK' /\ GoneFromFile' /\ NoTokenResurrection' /\ SessionsSaved'
<1>1. ASSUME NEW c \in Clients, Challenge(c)
      PROVE  SeenOK' /\ GoneFromFile' /\ NoTokenResurrection' /\ SessionsSaved'
    <2>1. UNCHANGED <<disk, holder, born, refresh, paired, gone>> /\ now <= now'
        BY <1>1 DEF Challenge, memory, ghosts, IInv, TypeOK
    <2>2. \A d \in Clients : disk.seen[d] <= seen'[d] /\ seen'[d] <= now'
        BY <1>1 DEF Challenge, memory, IInv, SeenOK, TypeOK
    <2> QED
        BY <2>1, <2>2, UnsavedStep DEF IInv, SessionsSaved
<1>2. ASSUME NEW h \in Handlers, NEW c \in Clients, ConsumeNonce(h, c)
      PROVE  SeenOK' /\ GoneFromFile' /\ NoTokenResurrection' /\ SessionsSaved'
    <2>1. UNCHANGED <<disk, holder, born, refresh, paired, gone>> /\ now <= now'
        BY <1>2 DEF ConsumeNonce, memory, ghosts, IInv, TypeOK
    <2>2. \A d \in Clients : disk.seen[d] <= seen'[d] /\ seen'[d] <= now'
        BY <1>2 DEF ConsumeNonce, memory, IInv, SeenOK, TypeOK
    <2> QED
        BY <2>1, <2>2, UnsavedStep DEF IInv, SessionsSaved
<1>3. ASSUME NEW h \in Handlers, Register(h)
      PROVE  SeenOK' /\ GoneFromFile' /\ NoTokenResurrection' /\ SessionsSaved'
    <2>1. /\ disk' = Saved(paired', seen', refresh') /\ UNCHANGED gone
          /\ refresh' \subseteq refresh /\ UNCHANGED <<now, holder>>
        BY <1>3 DEF Register, ghosts
    <2>2. \A c \in Clients : seen'[c] <= now'
        BY <1>3, <2>1 DEF Register, IInv, SeenOK, TypeOK
    <2>3. \A u \in gone' : holder'[u] # NoClient
        BY <2>1, HeldTokens
    <2>4. refresh' \cap gone = {}
        BY <2>1 DEF IInv, NoTokenResurrection
    <2> QED
        <3>1. gone' = gone \cup (refresh \ refresh')
            BY <1>3 DEF Register, ghosts
        <3> QED
            BY <3>1, <2>1, <2>2, <2>3, <2>4, SavingStep
<1>4. ASSUME NEW h \in Handlers, Issue(h)
      PROVE  SeenOK' /\ GoneFromFile' /\ NoTokenResurrection' /\ SessionsSaved'
    <2> DEFINE c == req[h].client
    <2>1. PICK t \in Unissued :
             /\ holder' = [holder EXCEPT ![t] = c]
             /\ \E left \in Pruned(paired \cup {c}, seen', access \cup {t}, refresh \cup {t},
                                   holder', born') : refresh' = left.refresh
        BY <1>4 DEF Issue
    <2>2. PICK left \in Pruned(paired \cup {c}, seen', access \cup {t}, refresh \cup {t},
                               holder', born') : refresh' = left.refresh
        BY <2>1
    <2>3. refresh' \subseteq refresh \cup {t}
        BY <2>2, PrunedSubsets
    <2>4. t \in Tokens /\ holder[t] = NoClient /\ c \in Clients
        BY <1>4 DEF Issue, Unissued, IInv, RequestsOK
    <2>5. t \notin gone
        BY <2>4, HeldTokens
    <2>6. /\ disk' = Saved(paired', seen', refresh') /\ gone' = gone \cup (refresh \ refresh')
          /\ UNCHANGED now
        BY <1>4 DEF Issue
    <2>7. \A d \in Clients : seen'[d] <= now'
        BY <1>4, <2>4, <2>6 DEF Issue, IInv, SeenOK, TypeOK
    <2>8. \A u \in gone' : holder'[u] # NoClient
        <3>1. \A u \in gone' : u \in Tokens /\ holder[u] # NoClient
            BY <2>6, HeldTokens DEF IInv, TypeOK
        <3>2. \A u \in Tokens : holder'[u] = IF u = t THEN c ELSE holder[u]
            BY <2>1, <2>4 DEF IInv, TypeOK
        <3> QED
            BY <3>1, <3>2, <2>4
    <2>9. refresh' \cap gone = {}
        BY <2>3, <2>5 DEF IInv, NoTokenResurrection
    <2> QED
        BY <2>6, <2>7, <2>8, <2>9, SavingStep
<1>5. ASSUME NEW h \in Handlers, ListClients(h)
      PROVE  SeenOK' /\ GoneFromFile' /\ NoTokenResurrection' /\ SessionsSaved'
    <2>1. PICK left \in Pruned(paired, seen, access, refresh, holder, born) :
             paired' = left.paired /\ refresh' = left.refresh
        BY <1>5 DEF ListClients
    <2>2. /\ left.paired \subseteq paired /\ left.refresh \subseteq refresh
          /\ \A t \in refresh \ left.refresh :
                ~(born[t] + RefreshTTL >= now) \/ (holder[t] \in paired /\ now - seen[holder[t]] > StaleTTL)
        BY PrunedSubsets, PrunedRefresh
    <2>3. /\ paired' \subseteq disk.paired /\ refresh' \subseteq refresh
          /\ gone' = gone \cup (refresh \ refresh') /\ UNCHANGED <<now, holder, born, seen>>
        BY <1>5, <2>1, <2>2 DEF ListClients, IInv, SessionsSaved
    <2>4. CASE disk' = Saved(paired', seen, refresh')
        <3>1. \A u \in gone' : holder'[u] # NoClient
            BY <2>3, HeldTokens
        <3> QED
            BY <2>3, <2>4, <3>1, SavingStep DEF IInv, SeenOK, NoTokenResurrection
    <2>5. CASE disk' = disk
        <3>1. \A u \in refresh \ refresh' :
                 born[u] + RefreshTTL <= now \/ now - disk.seen[holder[u]] > StaleTTL
            BY <2>1, <2>2, DroppedTokens
        <3> QED
            BY <2>3, <2>5, <3>1, UnsavedStep DEF IInv, SeenOK, TypeOK
    <2> QED
        BY <1>5, <2>4, <2>5 DEF ListClients
<1>6. ASSUME NEW h \in Handlers, RevokeClient(h)
      PROVE  SeenOK' /\ GoneFromFile' /\ NoTokenResurrection' /\ SessionsSaved'
    <2>1. CASE req[h].client \notin paired
        <3>1. UNCHANGED <<now, seen, disk, holder, born, refresh, paired, gone>>
            BY <1>6, <2>1 DEF RevokeClient, ghosts
        <3> QED
            BY <3>1, UnsavedStep DEF IInv, TypeOK, SeenOK, SessionsSaved
    <2>2. CASE req[h].client \in paired
        <3>1. /\ disk' = Saved(paired', seen', refresh') /\ gone' = gone \cup (refresh \ refresh')
              /\ refresh' \subseteq refresh /\ UNCHANGED <<now, seen, holder>>
            BY <1>6, <2>2 DEF RevokeClient, DropTokens
        <3>2. \A u \in gone' : holder'[u] # NoClient
            BY <3>1, HeldTokens
        <3> QED
            BY <3>1, <3>2, SavingStep DEF IInv, SeenOK, NoTokenResurrection
    <2> QED
        BY <2>1, <2>2
<1>7. ASSUME NEW t \in Tokens, RotateExpired(t)
      PROVE  SeenOK' /\ GoneFromFile' /\ NoTokenResurrection' /\ SessionsSaved'
    <2>1. /\ disk' = Saved(paired', seen', refresh') /\ gone' = gone \cup (refresh \ refresh')
          /\ refresh' \subseteq refresh /\ UNCHANGED <<now, holder>>
        BY <1>7 DEF RotateExpired, DropTokens
    <2>2. \A c \in Clients : seen'[c] <= now'
        BY <1>7, <2>1 DEF RotateExpired, IInv, SeenOK, TypeOK
    <2>3. \A u \in gone' : holder'[u] # NoClient
        BY <2>1, HeldTokens
    <2>4. refresh' \cap gone = {}
        BY <2>1 DEF IInv, NoTokenResurrection
    <2> QED
        BY <2>1, <2>2, <2>3, <2>4, SavingStep
<1>8. ASSUME NEW t \in Tokens, Logout(t)
      PROVE  SeenOK' /\ GoneFromFile' /\ NoTokenResurrection' /\ SessionsSaved'
    <2>1. /\ disk' = Saved(paired', seen', refresh') /\ gone' = gone \cup (refresh \ refresh')
          /\ refresh' \subseteq refresh /\ UNCHANGED <<now, holder>>
        BY <1>8 DEF Logout, DropTokens
    <2>2. \A c \in Clients : seen'[c] <= now'
        BY <1>8, <2>1 DEF Logout, IInv, SeenOK, TypeOK
    <2>3. \A u \in gone' : holder'[u] # NoClient
        BY <2>1, HeldTokens
    <2>4. refresh' \cap gone = {}
        BY <2>1 DEF IInv, NoTokenResurrection
    <2> QED
        BY <2>1, <2>2, <2>3, <2>4, SavingStep
<1>9. ASSUME NEW t \in Tokens, AccessRefused(t)
      PROVE  SeenOK' /\ GoneFromFile' /\ NoTokenResurrection' /\ SessionsSaved'
    <2>1. PICK left \in Pruned(paired, seen, access \ {t}, refresh, holder, born) :
             paired' = left.paired /\ refresh' = left.refresh
        BY <1>9 DEF AccessRefused
    <2>2. /\ left.paired \subseteq paired /\ left.refresh \subseteq refresh
          /\ \A u \in refresh \ left.refresh :
                ~(born[u] + RefreshTTL >= now) \/ (holder[u] \in paired /\ now - seen[holder[u]] > StaleTTL)
        BY PrunedSubsets, PrunedRefresh
    <2>3. /\ paired' \subseteq disk.paired /\ refresh' \subseteq refresh
          /\ gone' = gone \cup (refresh \ refresh') /\ UNCHANGED <<now, holder, born, seen>>
        BY <1>9, <2>1, <2>2 DEF AccessRefused, IInv, SessionsSaved
    <2>4. UNCHANGED disk
        BY <1>9 DEF AccessRefused
    <2>5. \A u \in refresh \ refresh' :
             born[u] + RefreshTTL <= now \/ now - disk.seen[holder[u]] > StaleTTL
        BY <2>1, <2>2, DroppedTokens
    <2> QED
        BY <2>3, <2>4, <2>5, UnsavedStep DEF IInv, SeenOK, TypeOK
<1>10. ASSUME NEW h \in Handlers, NEW t \in Tokens, Rotate(h, t)
      PROVE  SeenOK' /\ GoneFromFile' /\ NoTokenResurrection' /\ SessionsSaved'
    <2>1. /\ disk' = Saved(paired', seen', refresh') /\ gone' = gone \cup (refresh \ refresh')
          /\ refresh' \subseteq refresh /\ UNCHANGED <<now, holder>>
        BY <1>10 DEF Rotate, DropTokens
    <2>2. \A c \in Clients : seen'[c] <= now'
        BY <1>10, <2>1 DEF Rotate, IInv, SeenOK, TypeOK
    <2>3. \A u \in gone' : holder'[u] # NoClient
        BY <2>1, HeldTokens
    <2>4. refresh' \cap gone = {}
        BY <2>1 DEF IInv, NoTokenResurrection
    <2> QED
        BY <2>1, <2>2, <2>3, <2>4, SavingStep
<1>11. ASSUME NEW h \in Handlers, NEW t \in Tokens, Authorize(h, t)
      PROVE  SeenOK' /\ GoneFromFile' /\ NoTokenResurrection' /\ SessionsSaved'
    <2>1. UNCHANGED <<disk, holder, born, refresh, paired, gone>> /\ now <= now'
        BY <1>11 DEF Authorize, memory, ghosts, IInv, TypeOK
    <2>2. \A c \in Clients : disk.seen[c] <= seen'[c] /\ seen'[c] <= now'
        BY <1>11 DEF Authorize, memory, IInv, SeenOK, TypeOK
    <2> QED
        BY <2>1, <2>2, UnsavedStep DEF IInv, SessionsSaved
<1>12. ASSUME Restart
      PROVE  SeenOK' /\ GoneFromFile' /\ NoTokenResurrection' /\ SessionsSaved'
    <2> DEFINE kept == {t \in disk.refresh : born[t] + RefreshTTL > now}
    <2>1. PICK left \in Pruned(disk.paired, disk.seen, {}, kept, holder, born) :
             paired' = left.paired /\ refresh' = left.refresh
        BY <1>12 DEF Restart
    <2>2. /\ left.paired \subseteq disk.paired /\ left.refresh \subseteq kept
          /\ \A t \in left.refresh :
                holder[t] \in disk.paired => ~(now - disk.seen[holder[t]] > StaleTTL)
        BY PrunedSubsets, PrunedRefresh
    <2>3. /\ paired' \subseteq disk.paired /\ refresh' \subseteq kept
          /\ seen' = disk.seen /\ gone' = gone \cup (refresh \ refresh')
          /\ UNCHANGED <<now, holder, born>>
        BY <1>12, <2>1, <2>2 DEF Restart
    <2>4. refresh' \cap gone = {}
        <3>1. ASSUME NEW u \in refresh' \cap gone PROVE FALSE
            <4>1. u \in disk.refresh /\ born[u] + RefreshTTL > now /\ holder[u] \in disk.paired
                BY <2>3, <3>1 DEF IInv, TokensOfPaired
            <4>2. born[u] + RefreshTTL <= now \/ now - disk.seen[holder[u]] > StaleTTL
                BY <4>1 DEF IInv, GoneFromFile
            <4>3. ~(now - disk.seen[holder[u]] > StaleTTL)
                BY <2>1, <2>2, <4>1
            <4>4. born[u] \in Int /\ now \in Int /\ RefreshTTL \in Int
                BY <4>1, ConstantsOK DEF ConstantsOK, IInv, TypeOK
            <4> QED
                BY <4>1, <4>2, <4>3, <4>4
        <3> QED
            BY <3>1
    <2>5. \A c \in Clients : seen'[c] <= now'
        <3>1. \A c \in Clients : disk.seen[c] \in Int /\ seen[c] \in Int /\ now \in Int
            BY DEF IInv, TypeOK
        <3> QED
            BY <2>3, <3>1 DEF IInv, SeenOK
    <2>6. \A u \in gone' : holder'[u] # NoClient
        BY <2>3, HeldTokens
    <2>7. CASE disk' = Saved(paired', disk.seen, refresh')
        BY <2>3, <2>4, <2>5, <2>6, <2>7, SavingStep
    <2>8. CASE disk' = disk /\ refresh' = kept
        <3>1. NoTokenResurrection' /\ SessionsSaved'
            BY <2>3, <2>4, <2>8 DEF NoTokenResurrection, SessionsSaved
        <3>2. SeenOK'
            BY <2>3, <2>5, <2>8 DEF SeenOK, IInv, TypeOK
        <3>3. ASSUME NEW u \in disk.refresh, u \in gone'
              PROVE  born[u] + RefreshTTL <= now \/ now - disk.seen[holder[u]] > StaleTTL
            <4>1. CASE u \in gone
                BY <3>3, <4>1 DEF IInv, GoneFromFile
            <4>2. CASE u \notin kept
                BY <3>3, <4>2, ConstantsOK DEF ConstantsOK, IInv, TypeOK
            <4> QED
                BY <2>3, <2>8, <3>3, <4>1, <4>2
        <3>4. GoneFromFile'
            BY <2>3, <2>6, <2>8, <3>3 DEF GoneFromFile
        <3> QED
            BY <3>1, <3>2, <3>4
    <2> QED
        BY <1>12, <2>7, <2>8 DEF Restart
<1>13. ASSUME RestartUnreadable
      PROVE  SeenOK' /\ GoneFromFile' /\ NoTokenResurrection' /\ SessionsSaved'
    <2>1. /\ refresh' = {} /\ paired' = {} /\ disk' = Saved({}, seen, {}) /\ seen' = seen
          /\ gone' = gone \cup refresh \cup disk.refresh /\ UNCHANGED <<now, holder>>
        BY <1>13 DEF RestartUnreadable
    <2>2. disk'.refresh = {} /\ disk'.seen = seen
        BY <2>1 DEF Saved
    <2>3. \A u \in gone' : holder'[u] # NoClient
        <3>1. \A u \in disk.refresh : holder[u] # NoClient
            BY ConstantsOK DEF ConstantsOK, IInv, TokensOfPaired, TypeOK
        <3> QED
            BY <2>1, <3>1, HeldTokens
    <2>4. SeenOK'
        BY <2>1, <2>2 DEF IInv, SeenOK, TypeOK
    <2> QED
        BY <2>1, <2>2, <2>3, <2>4 DEF GoneFromFile, NoTokenResurrection, SessionsSaved
<1>14. ASSUME Tick
      PROVE  SeenOK' /\ GoneFromFile' /\ NoTokenResurrection' /\ SessionsSaved'
    <2>1. UNCHANGED <<disk, holder, born, refresh, paired, gone>> /\ now <= now'
        BY <1>14 DEF Tick, memory, ghosts, IInv, TypeOK
    <2>2. \A c \in Clients : disk.seen[c] <= seen'[c] /\ seen'[c] <= now'
        BY <1>14 DEF Tick, memory, IInv, SeenOK, TypeOK
    <2> QED
        BY <2>1, <2>2, UnsavedStep DEF IInv, SessionsSaved
<1>15. ASSUME UNCHANGED vars
      PROVE  SeenOK' /\ GoneFromFile' /\ NoTokenResurrection' /\ SessionsSaved'
    <2>1. UNCHANGED <<now, seen, disk, holder, born, refresh, paired, gone>>
        BY <1>15 DEF vars, memory, ghosts
    <2> QED
        BY <2>1, UnsavedStep DEF IInv, TypeOK, SeenOK, SessionsSaved
<1> QED
    BY <1>1, <1>2, <1>3, <1>4, <1>5, <1>6, <1>7, <1>8, <1>9, <1>10, <1>11, <1>12, <1>13, <1>14, <1>15 DEF Next

----------------------------------------------------------------------------
\* Sessions

\* A step that only takes away - tokens, pairings, unspent nonces, requests in flight -
\* keeps the sessions in order, if what it ends has nothing left.
LEMMA ShrinkingStep ==
    ASSUME IInv, TypeOK', SessionsOK, holder' = holder,
           \A c \in Clients : nonceBorn[c] = Spent => nonceBorn'[c] = Spent,
           \A h \in Handlers : req'[h].pc \in {"register", "issue"} =>
               req[h].pc \in {"register", "issue"} /\ req'[h].client = req[h].client,
           \/ access' \cup refresh' \subseteq access \cup refresh
           \/ /\ access' \cup refresh' \subseteq disk.refresh
              /\ \A h \in Handlers : req'[h].pc \notin {"register", "issue"},
           paired' \subseteq disk.paired,
           disk'.paired \subseteq disk.paired, disk'.refresh \subseteq disk.refresh,
           \A c \in ended' \ ended :
               /\ nonceBorn[c] = Spent /\ ~InFlight(c)
               /\ \A t \in access' \cup refresh' \cup disk'.refresh : holder[t] # c
    PROVE  SessionsOK'
<1>1. \A c \in Clients : ~InFlight(c) => ~InFlight(c)'
    BY DEF InFlight
<1>2. NonceOK'
    BY <1>1 DEF NonceOK, SessionsOK
<1>3. ThreadsOK'
    BY DEF ThreadsOK, SessionsOK
<1>4. TokensOK'
    BY DEF TokensOK, SessionsOK
<1>5. \A c \in ended' : c \in Clients
    BY DEF TypeOK
<1>6. EndedOK'
    BY <1>1, <1>5 DEF EndedOK, SessionsOK
<1> QED
    BY <1>2, <1>3, <1>4, <1>6 DEF SessionsOK

\* A client with a token is paired, so its nonce is spent, and no thread is about to give
\* it another one.
LEMMA Holders ==
    ASSUME IInv, SessionsOK, NEW t \in refresh
    PROVE  holder[t] \in Clients /\ nonceBorn[holder[t]] = Spent /\ ~InFlight(holder[t])
<1>1. holder[t] \in paired /\ holder[t] \in Clients
    BY DEF IInv, TokensOfPaired, TypeOK
<1>2. nonceBorn[holder[t]] = Spent
    BY <1>1 DEF SessionsOK, NonceOK
<1>3. ~InFlight(holder[t])
    BY DEF SessionsOK, ThreadsOK, InFlight
<1> QED
    BY <1>1, <1>2, <1>3

\* Every step keeps the sessions in order.
LEMMA NextSessions ==
    ASSUME IInv, TypeOK', SessionsOK, [Next]_vars
    PROVE  SessionsOK'
<1>1. ASSUME NEW c \in Clients, Challenge(c)
      PROVE  SessionsOK'
    <2>1. /\ holder' = holder /\ UNCHANGED ended /\ paired' \subseteq paired
          /\ \A d \in Clients : nonceBorn[d] = Spent => nonceBorn'[d] = Spent
        BY <1>1 DEF Challenge, memory, ghosts, Spent, Unused
    <2>2. \A g \in Handlers : req'[g].pc \in {"register", "issue"} =>
              req[g].pc \in {"register", "issue"} /\ req'[g].client = req[g].client
        BY <1>1 DEF Challenge, Idle, IInv, TypeOK
    <2>3. access' \cup refresh' \subseteq access \cup refresh /\ refresh' \subseteq refresh
        BY <1>1 DEF Challenge, memory
    <2>4. disk' = disk \/ disk' = Saved(paired', seen', refresh')
        BY <1>1 DEF Challenge
    <2>5. disk'.paired \subseteq disk.paired /\ disk'.refresh \subseteq disk.refresh
        BY <2>1, <2>3, <2>4 DEF Saved, IInv, SessionsSaved
    <2> QED
        BY <2>1, <2>2, <2>3, <2>5, ShrinkingStep DEF IInv, SessionsSaved
<1>2. ASSUME NEW h \in Handlers, NEW c \in Clients, ConsumeNonce(h, c)
      PROVE  SessionsOK'
    <2>1. CASE req' = [req EXCEPT ![h] = Idle]
        <3>1. \A d \in Clients : nonceBorn[d] = Spent => nonceBorn'[d] = Spent
            BY <1>2 DEF ConsumeNonce, IInv, TypeOK
        <3>2. \A g \in Handlers : req'[g].pc \in {"register", "issue"} =>
                  req[g].pc \in {"register", "issue"} /\ req'[g].client = req[g].client
            BY <2>1 DEF Idle, IInv, TypeOK
        <3> QED
            BY <1>2, <3>1, <3>2, ShrinkingStep DEF ConsumeNonce, IInv, SessionsSaved, ghosts
    <2>2. CASE req' = [req EXCEPT ![h] = [pc |-> "register", client |-> c]]
        <3>1. /\ nonceBorn[c] # Spent /\ req[h].pc = "idle"
              /\ \A d \in Clients : nonceBorn'[d] = IF d = c THEN Spent ELSE nonceBorn[d]
              /\ UNCHANGED <<paired, access, refresh, holder, disk, ended>>
            BY <1>2 DEF ConsumeNonce, Spent, IInv, TypeOK, ghosts
        <3>2. /\ c \notin paired /\ c \notin disk.paired /\ c \notin ended
              /\ \A g \in Handlers : req[g].pc \in {"register", "issue"} => req[g].client # c
            BY <3>1 DEF SessionsOK, NonceOK, EndedOK, InFlight
        <3>3. \A g \in Handlers : req'[g] = IF g = h THEN [pc |-> "register", client |-> c] ELSE req[g]
            BY <2>2 DEF IInv, TypeOK
        <3>5. req'[h].pc = "register" /\ req'[h].client = c
            BY <3>3
        <3>6. \A d \in Clients : d # c => InFlight(d)' = InFlight(d)
            BY <3>1, <3>3, <3>5 DEF InFlight
        <3>7. NonceOK'
            BY <3>1, <3>6 DEF SessionsOK, NonceOK
        <3>8. \A t \in access \cup refresh : holder[t] # c
            BY <3>2 DEF IInv, TokensOfPaired
        <3>9. ThreadsOK'
            BY <3>1, <3>2, <3>3, <3>5, <3>8 DEF SessionsOK, ThreadsOK
        <3>10. TokensOK'
            BY <3>1 DEF SessionsOK, TokensOK
        <3>11. EndedOK'
            BY <3>1, <3>2, <3>6 DEF SessionsOK, EndedOK, IInv, TypeOK
        <3> QED
            BY <3>7, <3>9, <3>10, <3>11 DEF SessionsOK
    <2> QED
        BY <1>2, <2>1, <2>2 DEF ConsumeNonce
<1>3. ASSUME NEW h \in Handlers, Register(h)
      PROVE  SessionsOK'
    <2> DEFINE c == req[h].client
    <2>1. c \in Clients /\ InFlight(c) /\ nonceBorn[c] = Spent
        BY <1>3 DEF Register, InFlight, IInv, RequestsOK, SessionsOK, NonceOK
    <2>2. /\ paired' = paired \cup {c} /\ disk'.paired = paired' /\ disk'.refresh = refresh
          /\ UNCHANGED <<nonceBorn, access, refresh, holder, ended>>
        BY <1>3 DEF Register, Saved, ghosts
    <2>3. \A g \in Handlers : req'[g].pc \in {"register", "issue"} =>
              req[g].pc \in {"register", "issue"} /\ req'[g].client = req[g].client
        BY <1>3 DEF Register, IInv, TypeOK
    <2>4. \A d \in Clients : InFlight(d)' => InFlight(d)
        BY <2>3 DEF InFlight
    <2>5. paired \subseteq disk.paired /\ refresh \subseteq disk.refresh
        BY DEF IInv, SessionsSaved
    <2>6. NonceOK'
        BY <2>1, <2>2, <2>4, <2>5 DEF SessionsOK, NonceOK
    <2>7. ThreadsOK'
        BY <2>2, <2>3 DEF SessionsOK, ThreadsOK
    <2>8. TokensOK'
        BY <2>2, <2>5 DEF SessionsOK, TokensOK
    <2>9. EndedOK'
        BY <2>2, <2>4, <2>5 DEF SessionsOK, EndedOK, IInv, TypeOK
    <2> QED
        BY <2>6, <2>7, <2>8, <2>9 DEF SessionsOK
<1>4. ASSUME NEW h \in Handlers, Issue(h)
      PROVE  SessionsOK'
    <2> DEFINE c == req[h].client
    <2>1. c \in Clients /\ InFlight(c) /\ nonceBorn[c] = Spent
        BY <1>4 DEF Issue, InFlight, IInv, RequestsOK, SessionsOK, NonceOK
    <2>2. PICK t \in Unissued :
             /\ holder' = [holder EXCEPT ![t] = c]
             /\ \E left \in Pruned(paired \cup {c}, seen', access \cup {t}, refresh \cup {t},
                                   holder', born') :
                   paired' = left.paired /\ access' = left.access /\ refresh' = left.refresh
        BY <1>4 DEF Issue
    <2>3. /\ paired' \subseteq paired \cup {c}
          /\ access' \subseteq access \cup {t} /\ refresh' \subseteq refresh \cup {t}
        BY <2>2, PrunedSubsets
    <2>4. t \in Tokens /\ holder[t] = NoClient
        BY DEF Unissued
    <2>5. \A u \in Tokens : holder'[u] = IF u = t THEN c ELSE holder[u]
        BY <2>2, <2>4 DEF IInv, TypeOK
    <2>6. /\ disk'.paired = paired' /\ disk'.refresh = refresh'
          /\ UNCHANGED ended /\ req' = [req EXCEPT ![h] = Idle]
          /\ \A d \in Clients : nonceBorn'[d] # Spent => nonceBorn[d] # Spent
        BY <1>4, FreshNoncesFacts DEF Issue, Saved, IInv
    <2>7. /\ \A g \in Handlers : req'[g].pc \in {"register", "issue"} => g # h /\ req'[g] = req[g]
          /\ c \notin ended
          /\ \A u \in access \cup refresh : holder[u] # c
        <3>1. \A g \in Handlers : req'[g].pc \in {"register", "issue"} => g # h /\ req'[g] = req[g]
            BY <2>6 DEF Idle, IInv, TypeOK
        <3>2. c \notin ended /\ \A u \in access \cup refresh : holder[u] # c
            BY <1>4, <2>1 DEF Issue, SessionsOK, ThreadsOK, EndedOK
        <3> QED
            BY <3>1, <3>2
    <2>8. \A d \in Clients : InFlight(d)' => InFlight(d)
        BY <2>7 DEF InFlight
    <2>9. paired \subseteq disk.paired /\ access \subseteq Tokens /\ refresh \subseteq Tokens
        BY DEF IInv, SessionsSaved, TypeOK
    <2>10. NonceOK'
        BY <2>1, <2>3, <2>6, <2>8, <2>9 DEF SessionsOK, NonceOK
    <2>11. ASSUME NEW u \in access' \cup refresh'
           PROVE  \/ u = t /\ holder'[u] = c
                  \/ u \in access \cup refresh /\ holder'[u] = holder[u] /\ holder[u] # c
        <3>1. CASE u = t
            BY <2>4, <2>5, <3>1
        <3>2. CASE u # t
            <4>1. u \in access \cup refresh /\ u \in Tokens
                BY <2>3, <2>9, <3>2
            <4> QED
                BY <2>5, <2>7, <3>2, <4>1
        <3> QED
            BY <3>1, <3>2
    <2>12. ThreadsOK'
        <3> SUFFICES ASSUME NEW g \in Handlers, req'[g].pc \in {"register", "issue"}
                     PROVE  /\ \A f \in Handlers :
                                   req'[f].pc \in {"register", "issue"} /\ req'[f].client = req'[g].client => f = g
                            /\ \A u \in access' \cup refresh' : holder'[u] # req'[g].client
            BY DEF ThreadsOK
        <3>1. g # h /\ req'[g] = req[g] /\ req[g].client # c
            BY <1>4, <2>7 DEF Issue, SessionsOK, ThreadsOK
        <3> QED
            BY <2>7, <2>11, <3>1 DEF SessionsOK, ThreadsOK
    <2>13. \A u, v \in access' \cup refresh' : holder'[u] = holder'[v] => u = v
        BY <2>11 DEF SessionsOK, TokensOK
    <2>14. TokensOK'
        BY <2>6, <2>13 DEF TokensOK
    <2>15. ASSUME NEW d \in ended PROVE \A u \in access' \cup refresh' : holder'[u] # d
        BY <2>7, <2>11, <2>15 DEF SessionsOK, EndedOK
    <2>16. EndedOK'
        BY <2>6, <2>8, <2>15 DEF SessionsOK, EndedOK, IInv, TypeOK
    <2> QED
        BY <2>10, <2>12, <2>14, <2>16 DEF SessionsOK
<1>5. ASSUME NEW h \in Handlers, ListClients(h)
      PROVE  SessionsOK'
    <2>1. PICK left \in Pruned(paired, seen, access, refresh, holder, born) :
             paired' = left.paired /\ access' = left.access /\ refresh' = left.refresh
        BY <1>5 DEF ListClients
    <2>2. /\ paired' \subseteq paired /\ access' \cup refresh' \subseteq access \cup refresh
          /\ refresh' \subseteq refresh
        BY <2>1, PrunedSubsets
    <2>3. /\ UNCHANGED <<holder, ended, seen>>
          /\ disk' = disk \/ disk' = Saved(paired', seen', refresh')
          /\ \A d \in Clients : nonceBorn'[d] # Spent => nonceBorn[d] # Spent
        BY <1>5, FreshNoncesFacts DEF ListClients, IInv
    <2>4. disk'.paired \subseteq disk.paired /\ disk'.refresh \subseteq disk.refresh
        BY <2>2, <2>3 DEF Saved, IInv, SessionsSaved
    <2>5. \A g \in Handlers : req'[g].pc \in {"register", "issue"} =>
              req[g].pc \in {"register", "issue"} /\ req'[g].client = req[g].client
        BY <1>5 DEF ListClients, Idle, IInv, TypeOK
    <2> QED
        BY <2>2, <2>3, <2>4, <2>5, ShrinkingStep DEF IInv, SessionsSaved
<1>6. ASSUME NEW h \in Handlers, RevokeClient(h)
      PROVE  SessionsOK'
    <2> DEFINE c == req[h].client
    <2>1. \A g \in Handlers : req'[g].pc \in {"register", "issue"} =>
              req[g].pc \in {"register", "issue"} /\ req'[g].client = req[g].client
        BY <1>6 DEF RevokeClient, Idle, IInv, TypeOK
    <2>2. CASE c \notin paired
        <3>1. UNCHANGED <<nonceBorn, paired, access, refresh, holder, disk, ended>>
            BY <1>6, <2>2 DEF RevokeClient, ghosts
        <3> QED
            BY <2>1, <3>1, ShrinkingStep DEF IInv, SessionsSaved
    <2>3. CASE c \in paired
        <3>1. /\ refresh' = refresh \ TokensOf(refresh, c) /\ access' = access \ TokensOf(access, c)
              /\ paired' = paired \ {c} /\ disk' = Saved(paired', seen, refresh')
              /\ ended' = (IF InFlight(c) THEN ended ELSE ended \cup {c})
              /\ UNCHANGED <<nonceBorn, holder>>
            BY <1>6, <2>3 DEF RevokeClient, DropTokens
        <3>2. disk'.paired = paired' /\ disk'.refresh = refresh'
            BY <3>1 DEF Saved
        <3>3. \A u \in access' \cup refresh' : u \in access \cup refresh /\ holder[u] # c
            BY <3>1 DEF TokensOf
        <3>4. nonceBorn[c] = Spent
            BY <2>3 DEF SessionsOK, NonceOK, IInv, TypeOK
        <3>5. \A d \in ended' \ ended : d = c /\ ~InFlight(c)
            BY <3>1
        <3> QED
            BY <2>1, <3>1, <3>2, <3>3, <3>4, <3>5, ShrinkingStep DEF IInv, SessionsSaved
    <2> QED
        BY <2>2, <2>3
<1>7. ASSUME NEW t \in Tokens, RotateExpired(t)
      PROVE  SessionsOK'
    <2>1. /\ holder' = holder /\ UNCHANGED ended /\ paired' \subseteq paired
          /\ \A c \in Clients : nonceBorn[c] = Spent => nonceBorn'[c] = Spent
        BY <1>7 DEF RotateExpired, memory, ghosts, Spent, Unused
    <2>2. \A g \in Handlers : req'[g].pc \in {"register", "issue"} =>
              req[g].pc \in {"register", "issue"} /\ req'[g].client = req[g].client
        BY <1>7 DEF RotateExpired, Idle, IInv, TypeOK
    <2>3. access' \cup refresh' \subseteq access \cup refresh /\ refresh' \subseteq refresh
        BY <1>7 DEF RotateExpired, memory
    <2>4. disk' = disk \/ disk' = Saved(paired', seen', refresh')
        BY <1>7 DEF RotateExpired
    <2>5. disk'.paired \subseteq disk.paired /\ disk'.refresh \subseteq disk.refresh
        BY <2>1, <2>3, <2>4 DEF Saved, IInv, SessionsSaved
    <2> QED
        BY <2>1, <2>2, <2>3, <2>5, ShrinkingStep DEF IInv, SessionsSaved
<1>8. ASSUME NEW t \in Tokens, Logout(t)
      PROVE  SessionsOK'
    <2>1. nonceBorn[holder[t]] = Spent /\ ~InFlight(holder[t])
        BY <1>8, Holders DEF Logout
    <2>2. /\ refresh' = refresh \ TokensOf(refresh, holder[t])
          /\ access' = access \ TokensOf(access, holder[t])
          /\ disk' = Saved(paired, seen, refresh') /\ ended' \subseteq ended \cup {holder[t]}
          /\ UNCHANGED <<nonceBorn, paired, holder, req>>
        BY <1>8 DEF Logout, DropTokens
    <2>3. disk'.paired = paired /\ disk'.refresh = refresh'
        BY <2>2 DEF Saved
    <2>4. \A u \in access' \cup refresh' : u \in access \cup refresh /\ holder[u] # holder[t]
        BY <2>2 DEF TokensOf
    <2> QED
        BY <2>1, <2>2, <2>3, <2>4, ShrinkingStep DEF IInv, SessionsSaved
<1>9. ASSUME NEW t \in Tokens, AccessRefused(t)
      PROVE  SessionsOK'
    <2>1. PICK left \in Pruned(paired, seen, access \ {t}, refresh, holder, born) :
             paired' = left.paired /\ access' = left.access /\ refresh' = left.refresh
        BY <1>9 DEF AccessRefused
    <2>2. /\ paired' \subseteq paired /\ access' \cup refresh' \subseteq access \cup refresh
          /\ refresh' \subseteq refresh
        BY <2>1, PrunedSubsets
    <2>3. /\ UNCHANGED <<holder, ended, seen>>
          /\ disk' = disk \/ disk' = Saved(paired', seen', refresh')
          /\ \A d \in Clients : nonceBorn'[d] # Spent => nonceBorn[d] # Spent
        BY <1>9, FreshNoncesFacts DEF AccessRefused, IInv
    <2>4. disk'.paired \subseteq disk.paired /\ disk'.refresh \subseteq disk.refresh
        BY <2>2, <2>3 DEF Saved, IInv, SessionsSaved
    <2>5. \A g \in Handlers : req'[g].pc \in {"register", "issue"} =>
              req[g].pc \in {"register", "issue"} /\ req'[g].client = req[g].client
        BY <1>9 DEF AccessRefused, Idle, IInv, TypeOK
    <2> QED
        BY <2>2, <2>3, <2>4, <2>5, ShrinkingStep DEF IInv, SessionsSaved
<1>10. ASSUME NEW h \in Handlers, NEW t \in Tokens, Rotate(h, t)
      PROVE  SessionsOK'
    <2> DEFINE c == holder[t]
    <2>1. c \in Clients /\ nonceBorn[c] = Spent /\ ~InFlight(c)
        BY <1>10, Holders DEF Rotate
    <2>2. /\ paired' = paired \cup {c} /\ disk'.paired = paired' /\ disk'.refresh = refresh'
          /\ refresh' = refresh \ TokensOf(refresh, c) /\ access' = access \ TokensOf(access, c)
          /\ UNCHANGED <<nonceBorn, holder, ended>>
          /\ req' = [req EXCEPT ![h] = [pc |-> "issue", client |-> c]]
        BY <1>10 DEF Rotate, Saved, DropTokens
    <2>3. \A g \in Handlers : req'[g] = IF g = h THEN [pc |-> "issue", client |-> c] ELSE req[g]
        BY <2>2 DEF IInv, TypeOK
    <2>4. \A d \in Clients : d # c => (InFlight(d)' => InFlight(d))
        BY <2>3 DEF InFlight
    <2>5. /\ paired \subseteq disk.paired /\ refresh \subseteq disk.refresh
          /\ \A u \in access' \cup refresh' : u \in access \cup refresh /\ holder[u] # c
        BY <2>2 DEF IInv, SessionsSaved, TokensOf
    <2>6. NonceOK'
        BY <2>1, <2>2, <2>4, <2>5 DEF SessionsOK, NonceOK
    <2>7. \A g \in Handlers : req[g].pc \in {"register", "issue"} => req[g].client # c
        BY <2>1 DEF InFlight
    <2>8. ThreadsOK'
        <3>1. req'[h].client = c
            BY <2>3
        <3>2. \A g \in Handlers : g # h /\ req'[g].pc \in {"register", "issue"} =>
                  /\ req'[g] = req[g] /\ req[g].client # c
            BY <2>3, <2>7
        <3> QED
            BY <2>2, <2>5, <3>1, <3>2 DEF SessionsOK, ThreadsOK
    <2>9. TokensOK'
        BY <2>2, <2>5 DEF SessionsOK, TokensOK
    <2>10. c \notin ended
        BY <1>10 DEF Rotate, SessionsOK, EndedOK
    <2>11. EndedOK'
        BY <2>2, <2>4, <2>5, <2>10 DEF SessionsOK, EndedOK, IInv, TypeOK
    <2> QED
        BY <2>6, <2>8, <2>9, <2>11 DEF SessionsOK
<1>11. ASSUME NEW h \in Handlers, NEW t \in Tokens, Authorize(h, t)
      PROVE  SessionsOK'
    <2>1. /\ holder' = holder /\ UNCHANGED ended /\ paired' \subseteq paired
          /\ \A c \in Clients : nonceBorn[c] = Spent => nonceBorn'[c] = Spent
        BY <1>11 DEF Authorize, memory, ghosts, Spent, Unused
    <2>2. \A g \in Handlers : req'[g].pc \in {"register", "issue"} =>
              req[g].pc \in {"register", "issue"} /\ req'[g].client = req[g].client
        BY <1>11 DEF Authorize, Idle, IInv, TypeOK
    <2>3. access' \cup refresh' \subseteq access \cup refresh /\ refresh' \subseteq refresh
        BY <1>11 DEF Authorize, memory
    <2>4. disk' = disk \/ disk' = Saved(paired', seen', refresh')
        BY <1>11 DEF Authorize
    <2>5. disk'.paired \subseteq disk.paired /\ disk'.refresh \subseteq disk.refresh
        BY <2>1, <2>3, <2>4 DEF Saved, IInv, SessionsSaved
    <2> QED
        BY <2>1, <2>2, <2>3, <2>5, ShrinkingStep DEF IInv, SessionsSaved
<1>12. ASSUME Restart
      PROVE  SessionsOK'
    <2> DEFINE kept == {t \in disk.refresh : born[t] + RefreshTTL > now}
    <2>1. PICK left \in Pruned(disk.paired, disk.seen, {}, kept, holder, born) :
             paired' = left.paired /\ refresh' = left.refresh
        BY <1>12 DEF Restart
    <2>2. /\ paired' \subseteq disk.paired /\ access' \cup refresh' \subseteq disk.refresh
          /\ disk'.paired \subseteq disk.paired /\ disk'.refresh \subseteq disk.refresh
        <3>1. /\ access' = {} /\ paired' \subseteq disk.paired /\ refresh' \subseteq kept
              /\ disk' = disk \/ disk' = Saved(paired', disk.seen, refresh')
            BY <1>12, <2>1, PrunedSubsets DEF Restart
        <3> QED
            BY <3>1 DEF Saved
    <2>3. /\ \A g \in Handlers : req'[g].pc \notin {"register", "issue"}
          /\ \A c \in Clients : nonceBorn[c] = Spent => nonceBorn'[c] = Spent
        BY <1>12 DEF Restart, Idle, Spent, Unused
    <2> QED
        BY <1>12, <2>2, <2>3, ShrinkingStep DEF Restart
<1>13. ASSUME RestartUnreadable
      PROVE  SessionsOK'
    <2>2. /\ paired' = {} /\ access' \cup refresh' = {}
          /\ disk'.paired = {} /\ disk'.refresh = {}
        BY <1>13 DEF RestartUnreadable, Saved
    <2>3. /\ \A g \in Handlers : req'[g].pc \notin {"register", "issue"}
          /\ \A c \in Clients : nonceBorn[c] = Spent => nonceBorn'[c] = Spent
        BY <1>13 DEF RestartUnreadable, Idle, Spent, Unused
    <2> QED
        BY <1>13, <2>2, <2>3, ShrinkingStep DEF RestartUnreadable
<1>14. ASSUME Tick
      PROVE  SessionsOK'
    <2>1. /\ holder' = holder /\ UNCHANGED ended /\ paired' \subseteq paired
          /\ \A c \in Clients : nonceBorn[c] = Spent => nonceBorn'[c] = Spent
        BY <1>14 DEF Tick, memory, ghosts, Spent, Unused
    <2>2. \A g \in Handlers : req'[g].pc \in {"register", "issue"} =>
              req[g].pc \in {"register", "issue"} /\ req'[g].client = req[g].client
        BY <1>14 DEF Tick, Idle, IInv, TypeOK
    <2>3. access' \cup refresh' \subseteq access \cup refresh /\ refresh' \subseteq refresh
        BY <1>14 DEF Tick, memory
    <2>4. disk' = disk \/ disk' = Saved(paired', seen', refresh')
        BY <1>14 DEF Tick
    <2>5. disk'.paired \subseteq disk.paired /\ disk'.refresh \subseteq disk.refresh
        BY <2>1, <2>3, <2>4 DEF Saved, IInv, SessionsSaved
    <2> QED
        BY <2>1, <2>2, <2>3, <2>5, ShrinkingStep DEF IInv, SessionsSaved
<1>15. ASSUME UNCHANGED vars
      PROVE  SessionsOK'
    <2>1. /\ holder' = holder /\ UNCHANGED ended /\ paired' \subseteq paired
          /\ \A c \in Clients : nonceBorn[c] = Spent => nonceBorn'[c] = Spent
        BY <1>15 DEF vars, memory, ghosts, Spent, Unused
    <2>2. \A g \in Handlers : req'[g].pc \in {"register", "issue"} =>
              req[g].pc \in {"register", "issue"} /\ req'[g].client = req[g].client
        BY <1>15 DEF vars, Idle, IInv, TypeOK
    <2>3. access' \cup refresh' \subseteq access \cup refresh /\ refresh' \subseteq refresh
        BY <1>15 DEF vars, memory
    <2>4. disk' = disk \/ disk' = Saved(paired', seen', refresh')
        BY <1>15 DEF vars
    <2>5. disk'.paired \subseteq disk.paired /\ disk'.refresh \subseteq disk.refresh
        BY <2>1, <2>3, <2>4 DEF Saved, IInv, SessionsSaved
    <2> QED
        BY <2>1, <2>2, <2>3, <2>5, ShrinkingStep DEF IInv, SessionsSaved
<1> QED
    BY <1>1, <1>2, <1>3, <1>4, <1>5, <1>6, <1>7, <1>8, <1>9, <1>10, <1>11, <1>12, <1>13, <1>14, <1>15 DEF Next

----------------------------------------------------------------------------
\* The invariant and what follows from it

\* The gateway starts with nothing paired and an empty file.
LEMMA InitIInv == Init => IInv
<1> SUFFICES ASSUME Init PROVE IInv
    OBVIOUS
<1>1. TypeOK /\ RequestsOK
    BY InitTypes
<1>2. disk.paired = {} /\ disk.refresh = {} /\ disk.seen = seen
    BY DEF Init, Saved
<1> QED
    BY <1>1, <1>2 DEF IInv, Init, TokensOfPaired, SeenOK, GoneFromFile, NoTokenResurrection,
                     SessionsSaved

\* No request is in flight, no nonce spent and nothing paired at the start.
LEMMA InitSessions == Init => SessionsOK
<1> SUFFICES ASSUME Init PROVE SessionsOK
    OBVIOUS
<1>1. disk.paired = {} /\ disk.refresh = {}
    BY DEF Init, Saved
<1>2. \A h \in Handlers : req[h].pc = "idle"
    BY DEF Init, Idle
<1>3. NonceOK
    BY <1>1, <1>2 DEF Init, NonceOK, InFlight
<1>4. ThreadsOK
    BY <1>2 DEF ThreadsOK
<1>5. TokensOK /\ EndedOK
    BY <1>1 DEF Init, TokensOK, EndedOK
<1> QED
    BY <1>3, <1>4, <1>5 DEF SessionsOK

\* The inductive invariant holds in every reachable state.
THEOREM Invariance == Spec => [](IInv /\ SessionsOK)
<1>1. IInv /\ [Next]_vars => IInv'
    BY NextTypes, NextPaired, NextFile DEF IInv
<1>2. IInv /\ IInv' /\ SessionsOK /\ [Next]_vars => SessionsOK'
    BY NextSessions DEF IInv
<1> QED
    BY InitIInv, InitSessions, <1>1, <1>2, PTL DEF Spec

\* Every state is well typed, whatever the clients, tokens, threads and lifetimes.
THEOREM TypeCorrect == Spec => []TypeOK
<1>1. IInv => TypeOK
    BY DEF IInv
<1> QED
    BY <1>1, Invariance, PTL

\* No accepted token is ever left behind by a client that was revoked, evicted or pruned.
THEOREM TokensAreOfPaired == Spec => []TokensOfPaired
<1>1. IInv => TokensOfPaired
    BY DEF IInv
<1> QED
    BY <1>1, Invariance, PTL

\* An invalidated refresh token is never accepted again, whatever crashes and reloads follow.
THEOREM NoTokenResurrected == Spec => []NoTokenResurrection
<1>1. IInv => NoTokenResurrection
    BY DEF IInv
<1> QED
    BY <1>1, Invariance, PTL

\* What memory accepts, every client and every refresh token, is in the file whenever the
\* process may die.
THEOREM SessionsAreSaved == Spec => []SessionsSaved
<1>1. IInv => SessionsSaved
    BY DEF IInv
<1> QED
    BY <1>1, Invariance, PTL

\* A client never holds two sessions, however its requests interleave.
THEOREM OneSessionEach == Spec => []OneSession
<1>1. SessionsOK => OneSession
    BY DEF SessionsOK, TokensOK, OneSession
<1> QED
    BY <1>1, Invariance, PTL

\* A session that ended with no request in flight stays ended.
THEOREM SessionEndsStayFinal == Spec => []SessionEndIsFinal
<1>1. SessionsOK => SessionEndIsFinal
    BY DEF SessionsOK, EndedOK, SessionEndIsFinal
<1> QED
    BY <1>1, Invariance, PTL

----------------------------------------------------------------------------
\* The credentials

\* Every step but the issue of tokens only takes credentials away.  For a restart this is
\* where the file may not hold what memory no longer accepts, unless it is invalidated.
LEMMA NextLapses ==
    ASSUME IInv, FileOK, NoTokenResurrection', [Next]_vars, ~(\E h \in Handlers : Issue(h))
    PROVE  UNCHANGED holder /\ refresh' \subseteq refresh /\ access' \subseteq access
<1>1. ASSUME NEW h \in Handlers, ListClients(h)
      PROVE  UNCHANGED holder /\ refresh' \subseteq refresh /\ access' \subseteq access
    <2>1. PICK left \in Pruned(paired, seen, access, refresh, holder, born) :
             access' = left.access /\ refresh' = left.refresh
        BY <1>1 DEF ListClients
    <2> QED
        BY <1>1, <2>1, PrunedSubsets DEF ListClients
<1>2. ASSUME NEW t \in Tokens, AccessRefused(t)
      PROVE  UNCHANGED holder /\ refresh' \subseteq refresh /\ access' \subseteq access
    <2>1. PICK left \in Pruned(paired, seen, access \ {t}, refresh, holder, born) :
             access' = left.access /\ refresh' = left.refresh
        BY <1>2 DEF AccessRefused
    <2>2. left.access \subseteq access \ {t} /\ left.refresh \subseteq refresh
        BY PrunedSubsets
    <2> QED
        BY <1>2, <2>1, <2>2 DEF AccessRefused
<1>3. ASSUME Restart
      PROVE  UNCHANGED holder /\ refresh' \subseteq refresh /\ access' \subseteq access
    <2> DEFINE kept == {t \in disk.refresh : born[t] + RefreshTTL > now}
    <2>1. PICK left \in Pruned(disk.paired, disk.seen, {}, kept, holder, born) :
             refresh' = left.refresh
        BY <1>3 DEF Restart
    <2>2. left.refresh \subseteq kept
        BY PrunedSubsets
    <2>3. gone \subseteq gone' /\ access' = {} /\ UNCHANGED holder
        BY <1>3 DEF Restart
    <2>4. refresh' \subseteq disk.refresh /\ refresh' \cap gone = {}
        BY <2>1, <2>2, <2>3 DEF NoTokenResurrection
    <2> QED
        BY <2>3, <2>4 DEF FileOK
<1>4. ASSUME NEW h \in Handlers, RevokeClient(h)
      PROVE  UNCHANGED holder /\ refresh' \subseteq refresh /\ access' \subseteq access
    BY <1>4 DEF RevokeClient, DropTokens
<1>5. ASSUME NEW t \in Tokens, RotateExpired(t) \/ Logout(t) \/ \E h \in Handlers : Rotate(h, t)
      PROVE  UNCHANGED holder /\ refresh' \subseteq refresh /\ access' \subseteq access
    BY <1>5 DEF RotateExpired, Logout, Rotate, DropTokens
<1>6. ASSUME NEW h \in Handlers, Register(h) \/ \E t \in Tokens : Authorize(h, t)
      PROVE  UNCHANGED holder /\ refresh' \subseteq refresh /\ access' \subseteq access
    BY <1>6 DEF Register, Authorize
<1>7. ASSUME NEW c \in Clients, Challenge(c) \/ \E h \in Handlers : ConsumeNonce(h, c)
      PROVE  UNCHANGED holder /\ refresh' \subseteq refresh /\ access' \subseteq access
    BY <1>7 DEF Challenge, ConsumeNonce
<1>8. ASSUME RestartUnreadable \/ Tick \/ UNCHANGED vars
      PROVE  UNCHANGED holder /\ refresh' \subseteq refresh /\ access' \subseteq access
    BY <1>8 DEF RestartUnreadable, Tick, vars, memory
<1> QED
    BY <1>1, <1>2, <1>3, <1>4, <1>5, <1>6, <1>7, <1>8 DEF Next

\* A step saves what it leaves, or leaves the file and records what it invalidates.
LEMMA NextFileOK ==
    ASSUME FileOK, [Next]_vars
    PROVE  FileOK'
<1>1. CASE disk'.refresh = refresh'
    BY <1>1 DEF FileOK
<1>2. CASE disk' = disk /\ gone \cup (refresh \ refresh') \subseteq gone'
    BY <1>2 DEF FileOK
<1>3. ASSUME NEW h \in Handlers, Register(h) \/ Issue(h) \/ ListClients(h) \/ RevokeClient(h)
      PROVE  FileOK'
    <2>1. Register(h) => disk'.refresh = refresh'
        BY DEF Register, Saved
    <2>2. Issue(h) => disk'.refresh = refresh'
        BY DEF Issue, Saved
    <2>3. ListClients(h) => disk'.refresh = refresh' \/ (disk' = disk /\ gone' = gone \cup (refresh \ refresh'))
        BY DEF ListClients, Saved
    <2>4. RevokeClient(h) => disk'.refresh = refresh' \/ (disk' = disk /\ UNCHANGED <<gone, refresh>>)
        BY DEF RevokeClient, Saved, ghosts
    <2> QED
        BY <1>1, <1>2, <1>3, <2>1, <2>2, <2>3, <2>4
<1>4. ASSUME NEW t \in Tokens,
             RotateExpired(t) \/ Logout(t) \/ AccessRefused(t) \/ \E h \in Handlers : Rotate(h, t) \/ Authorize(h, t)
      PROVE  FileOK'
    <2>1. RotateExpired(t) \/ Logout(t) => disk'.refresh = refresh'
        BY DEF RotateExpired, Logout, Saved
    <2>2. (\E h \in Handlers : Rotate(h, t)) => disk'.refresh = refresh'
        BY DEF Rotate, Saved
    <2>3. AccessRefused(t) => disk' = disk /\ gone' = gone \cup (refresh \ refresh')
        BY DEF AccessRefused
    <2>4. (\E h \in Handlers : Authorize(h, t)) => UNCHANGED <<disk, gone, refresh>>
        BY DEF Authorize, ghosts
    <2> QED
        BY <1>1, <1>2, <1>4, <2>1, <2>2, <2>3, <2>4
<1>5. ASSUME NEW c \in Clients, Challenge(c) \/ \E h \in Handlers : ConsumeNonce(h, c)
      PROVE  FileOK'
    BY <1>2, <1>5 DEF Challenge, ConsumeNonce, ghosts
<1>6. CASE Restart
    <2>1. disk'.refresh = refresh' \/ (disk' = disk /\ gone' = gone \cup (refresh \ refresh'))
        BY <1>6 DEF Restart, Saved
    <2> QED
        BY <1>1, <1>2, <2>1
<1>7. CASE RestartUnreadable
    BY <1>1, <1>7 DEF RestartUnreadable, Saved
<1>8. CASE Tick \/ UNCHANGED vars
    BY <1>2, <1>8 DEF Tick, vars, memory, ghosts
<1> QED
    BY <1>3, <1>4, <1>5, <1>6, <1>7, <1>8 DEF Next

\* What the issue of tokens does: to a client that holds none it gives one new pair, in
\* place of nobody's.
LEMMA IssueFacts ==
    ASSUME IInv, SessionsOK, NEW h \in Handlers, Issue(h)
    PROVE  \E c \in Clients, t \in Unissued :
              /\ holder' = [holder EXCEPT ![t] = c]
              /\ t \notin access /\ t \notin refresh
              /\ \A u \in access \cup refresh : holder[u] # c
              /\ \E keep \in SUBSET access : access' = keep \cup {t}
              /\ \E keep \in SUBSET refresh : refresh' = keep \cup {t}
<1> DEFINE c == req[h].client
<1>1. PICK t \in Unissued :
         /\ holder' = [holder EXCEPT ![t] = c]
         /\ born' = [born EXCEPT ![t] = now]
         /\ \E left \in Pruned(paired \cup {c}, seen', access \cup {t}, refresh \cup {t},
                               holder', born') :
               paired' = left.paired /\ access' = left.access /\ refresh' = left.refresh
    BY DEF Issue
<1>2. PICK left \in Pruned(paired \cup {c}, seen', access \cup {t}, refresh \cup {t},
                           holder', born') :
         access' = left.access /\ refresh' = left.refresh
    BY <1>1
<1>3. c \in Clients /\ t \in Tokens /\ holder[t] = NoClient /\ seen'[c] = now
    BY DEF Issue, IInv, RequestsOK, TypeOK, Unissued
<1>4. \A u \in access \cup refresh : holder[u] # c /\ holder[u] # NoClient
    BY ConstantsOK DEF ConstantsOK, Issue, SessionsOK, ThreadsOK, IInv, TokensOfPaired, TypeOK
<1>5. holder'[t] = c /\ born'[t] = now
    BY <1>1, <1>3 DEF IInv, TypeOK
<1>6. /\ ~(now - seen'[holder'[t]] > StaleTTL)
      /\ born'[t] + AccessTTL >= now /\ born'[t] + RefreshTTL >= now
    BY <1>3, <1>5, ConstantsOK DEF ConstantsOK, IInv, TypeOK
<1>7. t \in left.access /\ t \in left.refresh
    BY <1>6, PrunedKeeps
<1>8. left.access \subseteq access \cup {t} /\ left.refresh \subseteq refresh \cup {t}
    BY PrunedSubsets
<1>9. access' = (access' \cap access) \cup {t} /\ refresh' = (refresh' \cap refresh) \cup {t}
    BY <1>2, <1>7, <1>8
<1>10. access' \cap access \in SUBSET access /\ refresh' \cap refresh \in SUBSET refresh
    OBVIOUS
<1>11. t \notin access /\ t \notin refresh
    BY <1>3, <1>4
<1>12. holder' = [holder EXCEPT ![t] = c]
    BY <1>1
<1> QED
    BY <1>3, <1>4, <1>9, <1>10, <1>11, <1>12

\* The abstract issuer's steps, for the refresh tokens and for the access tokens.
LEMMA NextCredentials ==
    ASSUME IInv, SessionsOK, FileOK, IInv', [Next]_vars
    PROVE  [Refreshes!Next]_Refreshes!vars /\ [Accesses!Next]_Accesses!vars
<1>1. CASE \E h \in Handlers : Issue(h)
    <2>1. PICK c \in Clients, t \in Unissued :
              /\ holder' = [holder EXCEPT ![t] = c]
              /\ t \notin access /\ t \notin refresh
              /\ \A u \in access \cup refresh : holder[u] # c
              /\ \E keep \in SUBSET access : access' = keep \cup {t}
              /\ \E keep \in SUBSET refresh : refresh' = keep \cup {t}
        BY <1>1, IssueFacts
    <2>2. /\ t \in Tokens /\ c # NoClient
          /\ \A u \in Tokens : holder'[u] = IF u = t THEN c ELSE holder[u]
        BY <2>1, ConstantsOK DEF ConstantsOK, Unissued, IInv, TypeOK
    <2>3. Unissued' = Unissued \ {t}
        BY <2>2 DEF Unissued
    <2>4. Refreshes!HandOut(c, t)
        <3>1. PICK keep \in SUBSET refresh : refresh' = keep \cup {t}
            BY <2>1
        <3>2. {<<holder[u], u>> : u \in keep} \in SUBSET Credential(refresh)
            BY DEF Credential
        <3>3. Credential(refresh)' = {<<holder[u], u>> : u \in keep} \cup {<<c, t>>}
            BY <2>1, <2>2, <3>1 DEF Credential, IInv, TypeOK
        <3>4. Refreshes!HoldsNone(c)
            BY <2>1 DEF Refreshes!HoldsNone, Credential
        <3> QED
            BY <2>1, <2>3, <3>2, <3>3, <3>4 DEF Refreshes!HandOut
    <2>5. Accesses!HandOut(c, t)
        <3>1. PICK keep \in SUBSET access : access' = keep \cup {t}
            BY <2>1
        <3>2. {<<holder[u], u>> : u \in keep} \in SUBSET Credential(access)
            BY DEF Credential
        <3>3. Credential(access)' = {<<holder[u], u>> : u \in keep} \cup {<<c, t>>}
            BY <2>1, <2>2, <3>1 DEF Credential, IInv, TypeOK
        <3>4. Accesses!HoldsNone(c)
            BY <2>1 DEF Accesses!HoldsNone, Credential
        <3> QED
            BY <2>1, <2>3, <3>2, <3>3, <3>4 DEF Accesses!HandOut
    <2> QED
        BY <2>1, <2>2, <2>4, <2>5 DEF Refreshes!Next, Accesses!Next
<1>2. CASE ~ \E h \in Handlers : Issue(h)
    <2>1. UNCHANGED holder /\ refresh' \subseteq refresh /\ access' \subseteq access
        BY <1>2, NextLapses DEF IInv
    <2>2. Unissued' = Unissued
        BY <2>1 DEF Unissued
    <2>3. Refreshes!Lapse
        BY <2>1, <2>2 DEF Refreshes!Lapse, Credential
    <2>4. Accesses!Lapse
        BY <2>1, <2>2 DEF Accesses!Lapse, Credential
    <2> QED
        BY <2>3, <2>4 DEF Refreshes!Next, Accesses!Next
<1> QED
    BY <1>1, <1>2

\* Refresh and access tokens are each handed out once, to one client that holds none, and
\* never come back, whatever requests interleave and however often the gateway restarts.
THEOREM StoreImplementsCredentials == Spec => ImplementsCredentials
<1>1. Init => Refreshes!Init /\ Accesses!Init /\ FileOK
    BY DEF Init, Refreshes!Init, Accesses!Init, Credential, Unissued, FileOK, Saved
<1>2. FileOK /\ [Next]_vars => FileOK'
    BY NextFileOK
<1>3. IInv /\ SessionsOK /\ FileOK /\ IInv' /\ [Next]_vars
         => [Refreshes!Next]_Refreshes!vars /\ [Accesses!Next]_Accesses!vars
    BY NextCredentials
<1> QED
    BY <1>1, <1>2, <1>3, Invariance, PTL DEF Spec, ImplementsCredentials, Refreshes!Spec, Accesses!Spec

----------------------------------------------------------------------------
\* The limit

\* Pruning leaves no more clients than the limit, or only clients with a token.
LEMMA PrunedLimit ==
    ASSUME NEW p, IsFiniteSet(p), NEW s, NEW a, NEW r, NEW hold, NEW made,
           NEW left \in Pruned(p, s, a, r, hold, made)
    PROVE  \/ Cardinality(left.paired) <= MaxPaired
           \/ \A c \in left.paired : \E t \in left.access \cup left.refresh : hold[t] = c
<1> DEFINE stale == {c \in p : now - s[c] > StaleTTL}
           a2 == {t \in a : made[t] + AccessTTL >= now /\ hold[t] \notin stale}
           r2 == {t \in r : made[t] + RefreshTTL >= now /\ hold[t] \notin stale}
           active == {hold[t] : t \in a2 \cup r2}
           q == p \ stale
           idle == q \ active
           excess == Cardinality(q) - MaxPaired
<1>1. PICK E \in Evictions(q, s, active) :
         left = [paired |-> q \ E, access |-> a2, refresh |-> r2]
    BY DEF Pruned
<1>2. left.paired = q \ E /\ left.access = a2 /\ left.refresh = r2
    BY <1>1
<1>3. /\ E \subseteq idle
      /\ Cardinality(E) = IF excess <= 0 THEN 0
                          ELSE IF excess < Cardinality(idle) THEN excess
                          ELSE Cardinality(idle)
    BY DEF Evictions
<1> HIDE DEF stale, active, a2, r2
<1>4. IsFiniteSet(q) /\ IsFiniteSet(idle) /\ IsFiniteSet(E)
    BY <1>3, FS_Subset
<1>5. /\ Cardinality(q) \in Nat /\ Cardinality(idle) \in Nat /\ Cardinality(E) \in Nat
      /\ MaxPaired \in Nat
    BY <1>4, FS_CardinalityType, ConstantsOK DEF ConstantsOK
<1>6. Cardinality(q \ E) = Cardinality(q) - Cardinality(E)
    <2>1. q \cap E = E
        BY <1>3
    <2>2. Cardinality(q \ E) = Cardinality(q) - Cardinality(q \cap E)
        BY <1>4, FS_Difference
    <2> QED
        BY <2>1, <2>2
<1>7. CASE excess <= 0 \/ excess < Cardinality(idle)
    <2>1. Cardinality(q \ E) <= MaxPaired
        BY <1>3, <1>5, <1>6, <1>7
    <2> QED
        BY <1>2, <2>1
<1>8. CASE ~(excess <= 0) /\ ~(excess < Cardinality(idle))
    <2>1. Cardinality(E) = Cardinality(idle)
        BY <1>3, <1>8
    <2>2. E = idle
        BY <1>3, <1>4, <2>1, FS_Subset
    <2>3. \A c \in q \ E : c \in active
        BY <2>2
    <2> QED
        BY <1>2, <2>3 DEF active
<1> QED
    BY <1>7, <1>8

\* Clients are paired one at a time: there are never infinitely many.
FinitelyPaired == IsFiniteSet(paired) /\ IsFiniteSet(disk.paired)

LEMMA NextFinite ==
    ASSUME FinitelyPaired, [Next]_vars
    PROVE  FinitelyPaired'
<1>1. ASSUME NEW c \in Clients, Challenge(c) \/ \E h \in Handlers : ConsumeNonce(h, c)
      PROVE  FinitelyPaired'
    BY <1>1 DEF Challenge, ConsumeNonce, FinitelyPaired
<1>2. ASSUME NEW S, NEW c, IsFiniteSet(S)
      PROVE  IsFiniteSet(S \cup {c}) /\ \A R \in SUBSET (S \cup {c}) : IsFiniteSet(R)
    BY <1>2, FS_AddElement, FS_Subset
<1>3. ASSUME NEW c, paired' \subseteq paired \cup {c} \/ paired' \subseteq disk.paired,
             disk' = disk \/ disk'.paired = paired'
      PROVE  FinitelyPaired'
    <2>1. IsFiniteSet(paired')
        BY <1>2, <1>3, FS_Subset DEF FinitelyPaired
    <2> QED
        BY <1>3, <2>1 DEF FinitelyPaired
<1>4. ASSUME NEW h \in Handlers, Register(h) \/ Issue(h) \/ ListClients(h) \/ RevokeClient(h)
      PROVE  FinitelyPaired'
    <2>1. Register(h) => paired' = paired \cup {req[h].client} /\ disk'.paired = paired'
        BY DEF Register, Saved
    <2>2. Issue(h) => paired' \subseteq paired \cup {req[h].client} /\ disk'.paired = paired'
        <3> SUFFICES ASSUME Issue(h)
                     PROVE  paired' \subseteq paired \cup {req[h].client} /\ disk'.paired = paired'
            OBVIOUS
        <3>1. PICK t \in Unissued :
                 \E left \in Pruned(paired \cup {req[h].client}, seen', access \cup {t},
                                    refresh \cup {t}, holder', born') : paired' = left.paired
            BY DEF Issue
        <3>2. paired' \subseteq paired \cup {req[h].client}
            BY <3>1, PrunedSubsets
        <3> QED
            BY <3>2 DEF Issue, Saved
    <2>3. ListClients(h) => paired' \subseteq paired /\ (disk' = disk \/ disk'.paired = paired')
        <3> SUFFICES ASSUME ListClients(h)
                     PROVE  paired' \subseteq paired /\ (disk' = disk \/ disk'.paired = paired')
            OBVIOUS
        <3>1. PICK left \in Pruned(paired, seen, access, refresh, holder, born) :
                 paired' = left.paired
            BY DEF ListClients
        <3> QED
            BY <3>1, PrunedSubsets DEF ListClients, Saved
    <2>4. RevokeClient(h) => paired' \subseteq paired /\ (disk' = disk \/ disk'.paired = paired')
        BY DEF RevokeClient, Saved
    <2>5. \A S : S \subseteq paired => S \subseteq paired \cup {req[h].client}
        OBVIOUS
    <2> QED
        BY <1>3, <1>4, <2>1, <2>2, <2>3, <2>4, <2>5
<1>5. ASSUME NEW t \in Tokens,
             RotateExpired(t) \/ Logout(t) \/ AccessRefused(t) \/ \E h \in Handlers : Rotate(h, t) \/ Authorize(h, t)
      PROVE  FinitelyPaired'
    <2>1. RotateExpired(t) \/ Logout(t) => paired' = paired /\ disk'.paired = paired'
        BY DEF RotateExpired, Logout, Saved
    <2>2. (\E h \in Handlers : Rotate(h, t)) =>
              paired' = paired \cup {holder[t]} /\ disk'.paired = paired'
        BY DEF Rotate, Saved
    <2>3. AccessRefused(t) => paired' \subseteq paired /\ disk' = disk
        <3> SUFFICES ASSUME AccessRefused(t) PROVE paired' \subseteq paired /\ disk' = disk
            OBVIOUS
        <3>1. PICK left \in Pruned(paired, seen, access \ {t}, refresh, holder, born) :
                 paired' = left.paired
            BY DEF AccessRefused
        <3> QED
            BY <3>1, PrunedSubsets DEF AccessRefused
    <2>4. (\E h \in Handlers : Authorize(h, t)) => paired' = paired /\ disk' = disk
        BY DEF Authorize
    <2>5. \A S : S \subseteq paired => S \subseteq paired \cup {holder[t]}
        OBVIOUS
    <2> QED
        BY <1>3, <1>5, <2>1, <2>2, <2>3, <2>4, <2>5
<1>6. CASE Restart
    <2>1. PICK left \in Pruned(disk.paired, disk.seen, {},
                               {t \in disk.refresh : born[t] + RefreshTTL > now}, holder, born) :
             paired' = left.paired
        BY <1>6 DEF Restart
    <2>2. paired' \subseteq disk.paired
        BY <2>1, PrunedSubsets
    <2> QED
        BY <1>3, <1>6, <2>2 DEF Restart, Saved
<1>7. CASE RestartUnreadable
    BY <1>3, <1>7 DEF RestartUnreadable, Saved
<1>8. CASE Tick \/ UNCHANGED vars
    BY <1>8 DEF Tick, vars, memory, FinitelyPaired
<1> QED
    BY <1>1, <1>4, <1>5, <1>6, <1>7, <1>8 DEF Next

\* However many clients use the gateway, a prune leaves no more than the limit, or only such
\* as hold a token: what the setting bounds is the clients that could not ask again anyway.
THEOREM PrunesToLimit == Spec => PrunedToLimit
<1>1. ASSUME FinitelyPaired, Prunes
      PROVE  \/ Cardinality(paired') <= MaxPaired
             \/ \A c \in paired' : \E t \in access' \cup refresh' : holder'[t] = c
    <2>1. ASSUME NEW h \in Handlers, Issue(h)
          PROVE  \/ Cardinality(paired') <= MaxPaired
                 \/ \A c \in paired' : \E t \in access' \cup refresh' : holder'[t] = c
        <3>1. PICK t \in Unissued :
                 \E left \in Pruned(paired \cup {req[h].client}, seen', access \cup {t},
                                    refresh \cup {t}, holder', born') :
                     paired' = left.paired /\ access' = left.access /\ refresh' = left.refresh
            BY <2>1 DEF Issue
        <3>2. IsFiniteSet(paired \cup {req[h].client})
            BY <1>1, FS_AddElement DEF FinitelyPaired
        <3> QED
            BY <3>1, <3>2, PrunedLimit
    <2>2. ASSUME NEW h \in Handlers, ListClients(h)
          PROVE  \/ Cardinality(paired') <= MaxPaired
                 \/ \A c \in paired' : \E t \in access' \cup refresh' : holder'[t] = c
        <3>1. PICK left \in Pruned(paired, seen, access, refresh, holder, born) :
                 paired' = left.paired /\ access' = left.access /\ refresh' = left.refresh
            BY <2>2 DEF ListClients
        <3>2. holder' = holder
            BY <2>2 DEF ListClients
        <3> QED
            BY <1>1, <3>1, <3>2, PrunedLimit DEF FinitelyPaired
    <2>3. ASSUME NEW t \in Tokens, AccessRefused(t)
          PROVE  \/ Cardinality(paired') <= MaxPaired
                 \/ \A c \in paired' : \E u \in access' \cup refresh' : holder'[u] = c
        <3>1. PICK left \in Pruned(paired, seen, access \ {t}, refresh, holder, born) :
                 paired' = left.paired /\ access' = left.access /\ refresh' = left.refresh
            BY <2>3 DEF AccessRefused
        <3>2. holder' = holder
            BY <2>3 DEF AccessRefused
        <3> QED
            BY <1>1, <3>1, <3>2, PrunedLimit DEF FinitelyPaired
    <2>4. ASSUME Restart
          PROVE  \/ Cardinality(paired') <= MaxPaired
                 \/ \A c \in paired' : \E t \in access' \cup refresh' : holder'[t] = c
        <3> DEFINE kept == {t \in disk.refresh : born[t] + RefreshTTL > now}
        <3>1. PICK left \in Pruned(disk.paired, disk.seen, {}, kept, holder, born) :
                 paired' = left.paired /\ refresh' = left.refresh
            BY <2>4 DEF Restart
        <3>2. holder' = holder
            BY <2>4 DEF Restart
        <3>3. left.access \subseteq {}
            BY PrunedSubsets
        <3>4. \/ Cardinality(left.paired) <= MaxPaired
              \/ \A c \in left.paired : \E t \in left.access \cup left.refresh : holder[t] = c
            BY <1>1, PrunedLimit DEF FinitelyPaired
        <3> QED
            BY <3>1, <3>2, <3>3, <3>4
    <2> QED
        BY <1>1, <2>1, <2>2, <2>3, <2>4 DEF Prunes
<1>2. Init => FinitelyPaired
    BY FS_EmptySet DEF Init, Saved, FinitelyPaired
<1>3. FinitelyPaired /\ [Next]_vars => FinitelyPaired'
    BY NextFinite
<1>4. FinitelyPaired => [Prunes => \/ Cardinality(paired') <= MaxPaired
                                   \/ \A c \in paired' : \E t \in access' \cup refresh' : holder'[t] = c]_vars
    BY <1>1
<1> QED
    BY <1>2, <1>3, <1>4, PTL DEF Spec, PrunedToLimit

----------------------------------------------------------------------------
\* What a crash may cost

\* The ways SessionsKept names in which a client may lose its session.
Lost(c) ==
    \/ c \in ended'
    \/ \E t \in refresh : holder[t] = c /\ born[t] + RefreshTTL <= now
    \/ now - seen[c] > StaleTTL
    \/ CrashMayLose(c) \/ RestartUnreadable

\* The file knows when a client was last used, up to the life of an access token: every use
\* that is not saved was made with a token handed out after the file was last told.
UseSavedOK ==
    /\ \A c \in Clients : seen[c] <= disk.seen[c] + AccessTTL
    /\ \A t \in access : born[t] <= disk.seen[holder[t]]

\* A step that saves the times of use, or changes none of them, keeps that.
LEMMA UseSavedStep ==
    ASSUME IInv, IInv', UseSavedOK, access' \subseteq access, UNCHANGED <<holder, born>>,
           \/ disk'.seen = seen' /\ \A c \in Clients : seen[c] <= seen'[c]
           \/ disk'.seen = disk.seen /\ seen' = seen
    PROVE  UseSavedOK'
<1>1. \A c \in Clients : /\ seen[c] \in Int /\ disk.seen[c] \in Int
                         /\ seen'[c] \in Int /\ disk'.seen[c] \in Int
                         /\ disk.seen[c] <= seen[c]
    BY DEF IInv, TypeOK, SeenOK
<1>2. \A t \in access : holder[t] \in Clients /\ born[t] \in Int
    BY DEF IInv, TypeOK, TokensOfPaired
<1>3. \A c \in Clients : seen'[c] <= disk'.seen[c] + AccessTTL /\ disk.seen[c] <= disk'.seen[c]
    BY <1>1, ConstantsOK DEF ConstantsOK, UseSavedOK
<1>4. \A t \in access' : born'[t] <= disk'.seen[holder'[t]]
    <2> TAKE t \in access'
    <2>1. /\ holder'[t] = holder[t] /\ born'[t] = born[t] /\ born[t] <= disk.seen[holder[t]]
          /\ holder[t] \in Clients /\ born[t] \in Int
        BY <1>2 DEF UseSavedOK
    <2>2. /\ disk.seen[holder[t]] <= disk'.seen[holder[t]]
          /\ disk.seen[holder[t]] \in Int /\ disk'.seen[holder[t]] \in Int
        BY <2>1, <1>1, <1>3
    <2> QED
        BY <2>1, <2>2
<1> QED
    BY <1>3, <1>4 DEF UseSavedOK

\* Every step keeps it.
LEMMA NextUseSaved ==
    ASSUME IInv, IInv', SessionsOK, UseSavedOK, [Next]_vars
    PROVE  UseSavedOK'
<1>0. now \in Int /\ seen \in [Clients -> 0..MaxTime] /\ seen' \in [Clients -> 0..MaxTime]
      /\ \A c \in Clients : seen[c] <= now
    BY DEF IInv, TypeOK, SeenOK
<1>1. ASSUME NEW c \in Clients, Challenge(c) \/ \E h \in Handlers : ConsumeNonce(h, c)
      PROVE  UseSavedOK'
    BY <1>1, UseSavedStep DEF Challenge, ConsumeNonce
<1>2. ASSUME NEW h \in Handlers, Register(h)
      PROVE  UseSavedOK'
    <2>1. disk'.seen = seen' /\ UNCHANGED <<access, holder, born>>
        BY <1>2 DEF Register, Saved
    <2>2. \A c \in Clients : seen[c] <= seen'[c]
        BY <1>0, <1>2 DEF Register
    <2> QED
        BY <2>1, <2>2, UseSavedStep
<1>3. ASSUME NEW h \in Handlers, Issue(h)
      PROVE  UseSavedOK'
    <2> DEFINE d == req[h].client
    <2>1. disk'.seen = seen' /\ seen' = [seen EXCEPT ![d] = now]
        BY <1>3 DEF Issue, Saved
    <2>2. PICK t \in Unissued :
             /\ holder' = [holder EXCEPT ![t] = d]
             /\ born' = [born EXCEPT ![t] = now]
             /\ \E left \in Pruned(paired \cup {d}, seen', access \cup {t}, refresh \cup {t},
                                   holder', born') : access' = left.access
        BY <1>3 DEF Issue
    <2>3. access' \subseteq access \cup {t}
        BY <2>2, PrunedSubsets
    <2>4. d \in Clients /\ t \in Tokens
        BY <1>3 DEF Issue, IInv, RequestsOK, Unissued
    <2>5. \A c \in Clients : seen'[c] <= disk'.seen[c] + AccessTTL
        BY <1>0, <2>1, ConstantsOK DEF ConstantsOK
    <2>6. ASSUME NEW u \in access' PROVE born'[u] <= disk'.seen[holder'[u]]
        <3>1. CASE u = t
            <4>1. holder'[u] = d /\ born'[u] = now /\ seen'[d] = now
                BY <1>0, <2>1, <2>2, <2>4, <3>1 DEF IInv, TypeOK
            <4> QED
                BY <1>0, <2>1, <4>1
        <3>2. CASE u # t
            <4>1. /\ u \in access /\ holder'[u] = holder[u] /\ born'[u] = born[u]
                  /\ holder[u] \in Clients /\ born[u] \in Int
                BY <2>2, <2>3, <2>6, <3>2 DEF IInv, TypeOK, TokensOfPaired
            <4>2. /\ born[u] <= disk.seen[holder[u]] /\ disk.seen[holder[u]] <= seen[holder[u]]
                  /\ disk.seen[holder[u]] \in Int
                BY <4>1 DEF UseSavedOK, IInv, SeenOK, TypeOK
            <4>3. seen[holder[u]] <= seen'[holder[u]] /\ seen'[holder[u]] \in Int
                  /\ seen[holder[u]] \in Int
                BY <1>0, <2>1, <4>1
            <4> QED
                BY <2>1, <4>1, <4>2, <4>3
        <3> QED
            BY <3>1, <3>2
    <2> QED
        BY <2>5, <2>6 DEF UseSavedOK
<1>4. ASSUME NEW h \in Handlers, ListClients(h)
      PROVE  UseSavedOK'
    <2>1. PICK left \in Pruned(paired, seen, access, refresh, holder, born) : access' = left.access
        BY <1>4 DEF ListClients
    <2>2. access' \subseteq access
        BY <2>1, PrunedSubsets
    <2>3. UNCHANGED <<seen, holder, born>> /\ (disk'.seen = seen' \/ disk' = disk)
        BY <1>4 DEF ListClients, Saved
    <2> QED
        BY <1>0, <2>2, <2>3, UseSavedStep
<1>5. ASSUME NEW h \in Handlers, RevokeClient(h)
      PROVE  UseSavedOK'
    <2>1. /\ access' \subseteq access /\ UNCHANGED <<seen, holder, born>>
          /\ disk'.seen = seen' \/ disk' = disk
        BY <1>5 DEF RevokeClient, DropTokens, Saved
    <2> QED
        BY <1>0, <2>1, UseSavedStep
<1>6. ASSUME NEW t \in Tokens, RotateExpired(t) \/ Logout(t)
      PROVE  UseSavedOK'
    <2>1. access' \subseteq access /\ UNCHANGED <<seen, holder, born>> /\ disk'.seen = seen'
        BY <1>6 DEF RotateExpired, Logout, DropTokens, Saved
    <2> QED
        BY <1>0, <2>1, UseSavedStep
<1>7. ASSUME NEW t \in Tokens, AccessRefused(t)
      PROVE  UseSavedOK'
    <2>1. PICK left \in Pruned(paired, seen, access \ {t}, refresh, holder, born) :
             access' = left.access
        BY <1>7 DEF AccessRefused
    <2>2. access' \subseteq access
        BY <2>1, PrunedSubsets
    <2> QED
        BY <1>7, <2>2, UseSavedStep DEF AccessRefused
<1>8. ASSUME NEW h \in Handlers, NEW t \in Tokens, Rotate(h, t)
      PROVE  UseSavedOK'
    <2>1. access' \subseteq access /\ UNCHANGED <<holder, born>> /\ disk'.seen = seen'
        BY <1>8 DEF Rotate, DropTokens, Saved
    <2>2. \A c \in Clients : seen[c] <= seen'[c]
        BY <1>0, <1>8 DEF Rotate
    <2> QED
        BY <2>1, <2>2, UseSavedStep
<1>9. ASSUME NEW h \in Handlers, NEW t \in Tokens, Authorize(h, t)
      PROVE  UseSavedOK'
    <2>1. /\ t \in access /\ ~AccessExpired(t) /\ UNCHANGED <<now, access, holder, born, disk>>
          /\ seen' = seen \/ seen' = [seen EXCEPT ![holder[t]] = now]
        BY <1>9 DEF Authorize
    <2>2. /\ born[t] <= disk.seen[holder[t]] /\ holder[t] \in Clients
          /\ born[t] \in Int /\ disk.seen[holder[t]] \in Int
        BY <2>1 DEF UseSavedOK, IInv, TypeOK, TokensOfPaired
    <2>3. now <= disk.seen[holder[t]] + AccessTTL
        BY <1>0, <2>1, <2>2, ConstantsOK DEF ConstantsOK, AccessExpired
    <2>4. \A c \in Clients : seen'[c] <= disk'.seen[c] + AccessTTL
        BY <1>0, <2>1, <2>3 DEF UseSavedOK
    <2> QED
        BY <2>1, <2>4 DEF UseSavedOK
<1>10. ASSUME Restart
      PROVE  UseSavedOK'
    <2>1. disk'.seen = disk.seen /\ seen' = disk.seen /\ access' = {}
        BY <1>10 DEF Restart, Saved
    <2>2. \A c \in Clients : seen'[c] <= disk'.seen[c] + AccessTTL
        BY <1>0, <2>1, ConstantsOK DEF ConstantsOK
    <2> QED
        BY <2>1, <2>2 DEF UseSavedOK
<1>11. ASSUME RestartUnreadable
      PROVE  UseSavedOK'
    <2>1. access' \subseteq access /\ UNCHANGED <<seen, holder, born>> /\ disk'.seen = seen'
        BY <1>11 DEF RestartUnreadable, Saved
    <2> QED
        BY <1>0, <2>1, UseSavedStep
<1>12. ASSUME Tick \/ UNCHANGED vars
      PROVE  UseSavedOK'
    BY <1>12, UseSavedStep DEF Tick, vars, memory
<1> QED
    BY <1>1, <1>2, <1>3, <1>4, <1>5, <1>6, <1>7, <1>8, <1>9, <1>10, <1>11, <1>12 DEF Next

\* A token a prune drops is past its time, or its client was not used for StaleTTL.
LEMMA LostToPruning ==
    ASSUME IInv, NEW c \in Clients, NEW t \in refresh, holder[t] = c,
           \/ ~(born[t] + RefreshTTL >= now)
           \/ now - seen[c] > StaleTTL
    PROVE  Lost(c)
<1>1. born[t] \in Int /\ now \in Int
    BY DEF IInv, TypeOK
<1> QED
    BY <1>1, ConstantsOK DEF ConstantsOK, Lost

\* A client that holds a session and no longer does after a step has lost it for one of the
\* reasons SessionsKept names.
LEMMA NextLosses ==
    ASSUME IInv, SessionsOK, UseSavedOK, [Next]_vars,
           NEW c \in Clients, HoldsSession(c), ~HoldsSession(c)'
    PROVE  Lost(c)
<1>0. /\ ~InFlight(c)' /\ \A u \in refresh' : holder'[u] # c
      /\ req \in [Handlers -> [pc : {"idle", "register", "issue", "list", "revoke"},
                               client : Clients \cup {NoClient}]]
    BY DEF HoldsSession, IInv, TypeOK
<1>a. ASSUME NEW h \in Handlers,
             req[h].pc \in {"register", "issue"} => req[h].client # c,
             \A g \in Handlers \ {h} : req'[g] = req[g]
      PROVE  \E u \in refresh : holder[u] = c
    BY <1>0, <1>a DEF HoldsSession, InFlight
<1>1. ASSUME NEW d \in Clients, Challenge(d)
      PROVE  Lost(c)
    BY <1>1 DEF Challenge, HoldsSession, InFlight
<1>2. ASSUME NEW h \in Handlers, NEW d \in Clients, ConsumeNonce(h, d)
      PROVE  Lost(c)
    <2>1. /\ req[h].pc = "idle" /\ \A g \in Handlers \ {h} : req'[g] = req[g]
          /\ UNCHANGED <<refresh, holder>>
        BY <1>0, <1>2 DEF ConsumeNonce
    <2> QED
        BY <1>0, <1>a, <2>1
<1>3. ASSUME NEW h \in Handlers, Register(h)
      PROVE  Lost(c)
    <2>1. /\ \A g \in Handlers : req'[g].client = req[g].client
          /\ \A g \in Handlers \ {h} : req'[g] = req[g]
          /\ req'[h].pc = "issue" /\ UNCHANGED <<refresh, holder>>
        BY <1>0, <1>3 DEF Register
    <2>2. req[h].client # c
        BY <1>0, <2>1 DEF InFlight
    <2> QED
        BY <1>0, <1>a, <2>1, <2>2
<1>4. ASSUME NEW h \in Handlers, Issue(h)
      PROVE  Lost(c)
    <2> DEFINE d == req[h].client
    <2>1. PICK t \in Unissued :
             /\ holder' = [holder EXCEPT ![t] = d]
             /\ born' = [born EXCEPT ![t] = now]
             /\ \E left \in Pruned(paired \cup {d}, seen', access \cup {t}, refresh \cup {t},
                                   holder', born') :
                   access' = left.access /\ refresh' = left.refresh
        BY <1>4 DEF Issue
    <2>2. /\ seen' = [seen EXCEPT ![d] = now] /\ d \in Clients
          /\ \A g \in Handlers \ {h} : req'[g] = req[g]
        BY <1>0, <1>4 DEF Issue, IInv, RequestsOK
    <2>3. d # c
        <3>1. PICK left \in Pruned(paired \cup {d}, seen', access \cup {t}, refresh \cup {t},
                                   holder', born') : refresh' = left.refresh
            BY <2>1
        <3>2. /\ t \in Tokens /\ holder'[t] = d /\ born'[t] = now /\ seen'[d] = now
              /\ now \in Int
            BY <2>1, <2>2 DEF Unissued, IInv, TypeOK
        <3>3. ~(now - seen'[holder'[t]] > StaleTTL) /\ born'[t] + RefreshTTL >= now
            BY <3>2, ConstantsOK DEF ConstantsOK
        <3>4. t \in left.refresh
            BY <3>3, PrunedKeeps
        <3> QED
            BY <1>0, <3>1, <3>2, <3>4
    <2>4. PICK u \in refresh : holder[u] = c
        BY <1>a, <2>2, <2>3
    <2>5. u # t /\ u \in Tokens
        BY <2>4, ConstantsOK DEF ConstantsOK, Unissued, IInv, TypeOK
    <2>6. holder'[u] = c /\ born'[u] = born[u] /\ seen'[c] = seen[c]
        BY <2>1, <2>2, <2>3, <2>4, <2>5 DEF IInv, TypeOK
    <2>7. PICK left \in Pruned(paired \cup {d}, seen', access \cup {t}, refresh \cup {t},
                               holder', born') : refresh' = left.refresh
        BY <2>1
    <2>8. u \in (refresh \cup {t}) \ left.refresh
        BY <1>0, <2>4, <2>6, <2>7
    <2>9. ~(born'[u] + RefreshTTL >= now) \/ now - seen'[holder'[u]] > StaleTTL
        BY <2>8, PrunedRefresh
    <2> QED
        BY <2>4, <2>6, <2>9, LostToPruning
<1>5. ASSUME NEW h \in Handlers, ListClients(h)
      PROVE  Lost(c)
    <2>1. /\ req[h].pc = "list" /\ \A g \in Handlers \ {h} : req'[g] = req[g]
          /\ UNCHANGED holder
        BY <1>0, <1>5 DEF ListClients
    <2>2. PICK u \in refresh : holder[u] = c
        BY <1>a, <2>1
    <2>3. PICK left \in Pruned(paired, seen, access, refresh, holder, born) : refresh' = left.refresh
        BY <1>5 DEF ListClients
    <2>4. u \in refresh \ left.refresh
        BY <1>0, <2>1, <2>2, <2>3
    <2>5. ~(born[u] + RefreshTTL >= now) \/ now - seen[c] > StaleTTL
        BY <2>2, <2>4, PrunedRefresh
    <2> QED
        BY <2>2, <2>5, LostToPruning
<1>6. ASSUME NEW h \in Handlers, RevokeClient(h)
      PROVE  Lost(c)
    <2> DEFINE d == req[h].client
    <2>1. /\ req[h].pc = "revoke" /\ \A g \in Handlers \ {h} : req'[g] = req[g]
          /\ UNCHANGED holder
        BY <1>0, <1>6 DEF RevokeClient
    <2>2. PICK u \in refresh : holder[u] = c
        BY <1>a, <2>1
    <2>3. d \in paired /\ d = c
        BY <1>0, <1>6, <2>1, <2>2 DEF RevokeClient, DropTokens, TokensOf
    <2>4. ~InFlight(c)
        BY <1>0, <2>1 DEF InFlight
    <2> QED
        BY <1>6, <2>3, <2>4 DEF RevokeClient, Lost
<1>7. ASSUME NEW t \in Tokens, RotateExpired(t)
      PROVE  Lost(c)
    <2>1. UNCHANGED <<req, holder>> /\ refresh' = refresh \ {t} /\ RefreshExpired(t)
        BY <1>7 DEF RotateExpired
    <2>2. PICK u \in refresh : holder[u] = c
        BY <1>0, <2>1 DEF HoldsSession, InFlight
    <2>3. u = t
        BY <1>0, <2>1, <2>2
    <2>4. born[u] \in Int /\ now \in Int
        BY <2>2 DEF IInv, TypeOK
    <2>5. ~(born[u] + RefreshTTL >= now)
        BY <2>1, <2>3, <2>4, ConstantsOK DEF ConstantsOK, RefreshExpired
    <2> QED
        BY <2>2, <2>5, LostToPruning
<1>8. ASSUME NEW t \in Tokens, Logout(t)
      PROVE  Lost(c)
    <2>1. UNCHANGED <<req, holder>> /\ refresh' = refresh \ TokensOf(refresh, holder[t])
        BY <1>8 DEF Logout, DropTokens
    <2>2. ~InFlight(c)
        BY <1>0, <2>1 DEF InFlight
    <2>3. PICK u \in refresh : holder[u] = c
        BY <2>2 DEF HoldsSession
    <2>4. holder[t] = c
        BY <1>0, <2>1, <2>3 DEF TokensOf
    <2> QED
        BY <1>8, <2>2, <2>4 DEF Logout, Lost
<1>9. ASSUME NEW t \in Tokens, AccessRefused(t)
      PROVE  Lost(c)
    <2>1. UNCHANGED <<req, holder>>
        BY <1>9 DEF AccessRefused
    <2>2. PICK u \in refresh : holder[u] = c
        BY <1>0, <2>1 DEF HoldsSession, InFlight
    <2>3. PICK left \in Pruned(paired, seen, access \ {t}, refresh, holder, born) :
             refresh' = left.refresh
        BY <1>9 DEF AccessRefused
    <2>4. u \in refresh \ left.refresh
        BY <1>0, <2>1, <2>2, <2>3
    <2>5. ~(born[u] + RefreshTTL >= now) \/ now - seen[c] > StaleTTL
        BY <2>2, <2>4, PrunedRefresh
    <2> QED
        BY <2>2, <2>5, LostToPruning
<1>10. ASSUME NEW h \in Handlers, NEW t \in Tokens, Rotate(h, t)
      PROVE  Lost(c)
    <2>1. /\ req[h].pc = "idle" /\ \A g \in Handlers \ {h} : req'[g] = req[g]
          /\ req'[h] = [pc |-> "issue", client |-> holder[t]]
          /\ UNCHANGED holder /\ refresh' = refresh \ TokensOf(refresh, holder[t])
        BY <1>0, <1>10 DEF Rotate, DropTokens
    <2>2. holder[t] # c
        BY <1>0, <2>1 DEF InFlight
    <2>3. PICK u \in refresh : holder[u] = c
        BY <1>a, <2>1
    <2>4. u \in refresh'
        BY <2>1, <2>2, <2>3 DEF TokensOf
    <2> QED
        BY <1>0, <2>1, <2>3, <2>4
<1>11. ASSUME NEW h \in Handlers, NEW t \in Tokens, Authorize(h, t)
      PROVE  Lost(c)
    <2>1. /\ req[h].pc = "idle" /\ \A g \in Handlers \ {h} : req'[g] = req[g]
          /\ UNCHANGED <<refresh, holder>>
        BY <1>0, <1>11 DEF Authorize
    <2> QED
        BY <1>0, <1>a, <2>1
<1>12. ASSUME Restart
      PROVE  Lost(c)
    <2>1. CASE \A u \in refresh : holder[u] # c
        BY <1>12, <2>1 DEF CrashMayLose, Lost
    <2>2. ASSUME NEW u \in refresh, holder[u] = c, ~(born[u] + RefreshTTL <= now)
          PROVE  Lost(c)
        <3> DEFINE kept == {t \in disk.refresh : born[t] + RefreshTTL > now}
        <3>1. u \in disk.refresh /\ u \in Tokens
            BY DEF IInv, SessionsSaved, TypeOK
        <3>2. born[u] \in Int /\ now \in Int /\ seen[c] \in Int /\ disk.seen[c] \in Int
            BY <3>1 DEF IInv, TypeOK
        <3>3. u \in kept
            BY <2>2, <3>1, <3>2, ConstantsOK DEF ConstantsOK
        <3>4. PICK left \in Pruned(disk.paired, disk.seen, {}, kept, holder, born) :
                 refresh' = left.refresh
            BY <1>12 DEF Restart
        <3>5. UNCHANGED holder
            BY <1>12 DEF Restart
        <3>6. u \in kept \ left.refresh
            BY <1>0, <2>2, <3>3, <3>4, <3>5
        <3>7. ~(born[u] + RefreshTTL >= now) \/ now - disk.seen[holder[u]] > StaleTTL
            BY <3>6, PrunedRefresh
        <3>8. now - disk.seen[c] > StaleTTL
            BY <2>2, <3>2, <3>7, ConstantsOK DEF ConstantsOK
        <3>9. seen[c] <= disk.seen[c] + AccessTTL
            BY DEF UseSavedOK
        <3>10. now - seen[c] > StaleTTL - AccessTTL
            BY <3>2, <3>8, <3>9, ConstantsOK DEF ConstantsOK
        <3> QED
            BY <1>12, <3>10 DEF CrashMayLose, Lost
    <2> QED
        BY <2>1, <2>2 DEF Lost
<1>13. ASSUME RestartUnreadable
      PROVE  Lost(c)
    BY <1>13 DEF Lost
<1>14. ASSUME Tick \/ UNCHANGED vars
      PROVE  Lost(c)
    BY <1>14 DEF Tick, vars, memory, HoldsSession, InFlight
<1> QED
    BY <1>1, <1>2, <1>3, <1>4, <1>5, <1>6, <1>7, <1>8, <1>9, <1>10, <1>11, <1>12, <1>13, <1>14 DEF Next

\* For any clients, limits and lifetimes: a session ends by a logout, a revocation, its own
\* age, StaleTTL without use, the loss of the whole file, or a crash within the limits
\* CrashMayLose states, and by nothing else.
THEOREM SessionsAreKept == Spec => SessionsKept
<1>1. Init => UseSavedOK
    BY InitIInv, ConstantsOK DEF ConstantsOK, Init, Saved, UseSavedOK, IInv, TypeOK
<1>2. IInv /\ IInv' /\ SessionsOK /\ UseSavedOK /\ [Next]_vars => UseSavedOK'
    BY NextUseSaved
<1>3. IInv /\ SessionsOK /\ UseSavedOK /\ [Next]_vars =>
         [\A c \in Clients : HoldsSession(c) /\ ~HoldsSession(c)' =>
             \/ c \in ended'
             \/ \E t \in refresh : holder[t] = c /\ born[t] + RefreshTTL <= now
             \/ now - seen[c] > StaleTTL
             \/ CrashMayLose(c) \/ RestartUnreadable]_vars
    BY NextLosses DEF Lost
<1> QED
    BY <1>1, <1>2, <1>3, Invariance, PTL DEF Spec, SessionsKept
=============================================================================
