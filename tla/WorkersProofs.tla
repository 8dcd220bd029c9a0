--------------------------- MODULE WorkersProofs ---------------------------
(***************************************************************************)
(* Theorems about Workers: its limits hold, an advertiser is created once, *)
(* and requests that wait for each other's threads, connections and rows   *)
(* are let go by the pool's timeout, or never all wait at all.             *)
(***************************************************************************)
EXTENDS Workers, FiniteSetTheorems, TLAPS

Size == database_pool_size + database_max_overflow

\* The session has done its work and not ended.
Holds(r) ==
  pc[r] \in {"busy", "reply", "commit"} \/ (pc[r] = "send" /\ Home[r] \in ReplyFirst)

\* What a request occupies at which label.
Occupies(r) ==
  /\ r \in threads <=> pc[r] \in {"connect", "work", "busy"}
  /\ pc[r] = "work" \/ (Holds(r) /\ r \notin Probe) => r \in connections
  /\ r \in connections => (pc[r] \in {"work", "rollback"} \/ Holds(r)) /\ r \notin Probe
  /\ r \in inserted => (Holds(r) \/ pc[r] = "rollback") /\ Writes(r)
  /\ Holds(r) /\ Writes(r) => r \in inserted
  /\ pc[r] \in {"connect", "work", "busy", "send", "commit", "rollback"} => r \notin Probe

\* Where a request is whose row is stored or whose 201 has been sent: the latter
\* implies the former in a container that commits first.
Answers(r) ==
  /\ r \in stored => /\ Writes(r) /\ r \notin inserted
                     /\ \/ pc[r] \in {"done", "rollback", "failed"}
                        \/ pc[r] = "send" /\ Home[r] \notin ReplyFirst
  /\ r \in created => /\ Writes(r)
                      /\ \/ pc[r] = "done"
                         \/ /\ pc[r] \in {"commit", "rollback", "failed"}
                            /\ Home[r] \in ReplyFirst
  /\ Writes(r) /\ pc[r] = "done" => r \in stored
  /\ Writes(r) /\ pc[r] = "send" /\ Home[r] \notin ReplyFirst => r \in stored

\* One session at a time has inserted an external_ref, and none a stored one;
\* what a 409 reports is stored.
Alone ==
  /\ \A r, q \in inserted : external_ref[r] = external_ref[q] => r = q
  /\ \A r, q \in stored : external_ref[r] = external_ref[q] => r = q
  /\ \A r \in inserted, q \in stored : external_ref[r] # external_ref[q]
  /\ \A r \in Request : pc[r] = "conflict" => Exists(external_ref[r])

Inv ==
  /\ TypeOK
  /\ \A r \in Request : Occupies(r) /\ Answers(r)
  /\ Alone
-----------------------------------------------------------------------------
\* What is counted is finite, and a subset counts less.
LEMMA Counted ==
  ASSUME NEW T \in SUBSET Request, NEW S \in SUBSET T, NEW c
  PROVE  /\ IsFiniteSet(At(T, c)) /\ Cardinality(At(T, c)) \in Nat
         /\ IsFiniteSet(At(S, c)) /\ Cardinality(At(S, c)) \in Nat
         /\ Cardinality(At(S, c)) <= Cardinality(At(T, c))
<1>1. IsFiniteSet(T)
  BY RequestAssumption, FS_Subset
<1>2. At(T, c) \in SUBSET T /\ At(S, c) \in SUBSET At(T, c)
  BY DEF At
<1>3. IsFiniteSet(At(T, c))
  BY <1>1, <1>2, FS_Subset
<1>4. IsFiniteSet(At(S, c)) /\ Cardinality(At(S, c)) <= Cardinality(At(T, c))
  BY <1>2, <1>3, FS_Subset
<1>5. QED
  BY <1>3, <1>4, FS_CardinalityType

\* One more keeps a bound that was not reached.
LEMMA OneMore ==
  ASSUME NEW T \in SUBSET Request, NEW r \in Request, NEW n \in Nat,
         \A c \in Container : Cardinality(At(T, c)) <= n,
         Cardinality(At(T, Home[r])) < n
  PROVE  \A c \in Container : Cardinality(At(T \cup {r}, c)) <= n
<1>1. SUFFICES ASSUME NEW c \in Container PROVE Cardinality(At(T \cup {r}, c)) <= n
  OBVIOUS
<1>2. CASE Home[r] = c
  <2>1. At(T \cup {r}, c) = At(T, c) \cup {r}
    BY <1>2 DEF At
  <2> DEFINE S == At(T, c)
             k == Cardinality(S)
             m == Cardinality(S \cup {r})
  <2>2. IsFiniteSet(S) /\ k \in Nat
    BY Counted
  <2>3. m = IF r \in S THEN k ELSE k + 1
    BY <2>2, FS_AddElement, Zenon
  <2>4. k < n
    BY <1>2
  <2> HIDE DEF S, k, m
  <2>5. m <= n
    BY <2>2, <2>3, <2>4
  <2>6. QED
    BY <2>1, <2>5 DEF S, m
<1>3. CASE Home[r] # c
  <2>1. At(T \cup {r}, c) = At(T, c)
    BY <1>3 DEF At
  <2>2. QED
    BY <2>1
<1>4. QED
  BY <1>2, <1>3

Bounded(T, n) == \A c \in Container : Cardinality(At(T, c)) <= n

\* Fewer keep it as well.
LEMMA Fewer ==
  ASSUME NEW T \in SUBSET Request, NEW S \in SUBSET T, NEW n \in Nat, Bounded(T, n)
  PROVE  Bounded(S, n)
<1>1. SUFFICES ASSUME NEW c \in Container PROVE Cardinality(At(S, c)) <= n
  BY DEF Bounded
<1>2. Cardinality(At(T, c)) <= n
  BY DEF Bounded
<1>3. QED
  BY <1>2, Counted

\* Both limits are positive numbers.
LEMMA Limits == total_tokens \in Nat /\ total_tokens >= 1 /\ Size \in Nat /\ Size >= 1
BY SettingsAssumption DEF Size

\* The type invariant in named parts.
LEMMA TypeParts ==
  TypeOK <=> /\ pc \in [Request -> Label]
             /\ threads \subseteq Request /\ connections \subseteq Request
             /\ inserted \subseteq Request /\ stored \subseteq Request
             /\ created \subseteq Request
             /\ Bounded(threads, total_tokens) /\ Bounded(connections, Size)
BY DEF TypeOK, Bounded, Size

\* The invariant holds at the start.
LEMMA InitInv == Init => Inv
<1> SUFFICES ASSUME Init PROVE Inv
  OBVIOUS
<1>1. Bounded({}, total_tokens) /\ Bounded({}, Size)
  <2>1. \A c \in Container : At({}, c) = {}
    BY DEF At
  <2>2. QED
    BY <2>1, FS_EmptySet, Limits DEF Bounded
<1>2. TypeOK
  BY <1>1, TypeParts DEF Init, Label
<1>3. \A r \in Request : Occupies(r) /\ Answers(r)
  BY DEF Init, Occupies, Holds, Answers
<1>4. Alone
  BY DEF Init, Alone
<1>5. QED
  BY <1>2, <1>3, <1>4 DEF Inv

\* What the lemmas on the actions use of the invariant.
LEMMA Unpacked ==
  ASSUME Inv, NEW s \in Request
  PROVE  /\ pc \in [Request -> Label] /\ pc[s] \in Label
         /\ threads \in SUBSET Request /\ threads \ {s} \in SUBSET threads
         /\ connections \in SUBSET Request /\ connections \ {s} \in SUBSET connections
         /\ inserted \subseteq Request /\ stored \subseteq Request /\ created \subseteq Request
         /\ Bounded(threads, total_tokens) /\ Bounded(threads \ {s}, total_tokens)
         /\ Bounded(connections, Size) /\ Bounded(connections \ {s}, Size)
         /\ Occupies(s) /\ Answers(s)
<1>1. /\ pc \in [Request -> Label]
      /\ threads \subseteq Request /\ connections \subseteq Request
      /\ inserted \subseteq Request /\ stored \subseteq Request /\ created \subseteq Request
      /\ Bounded(threads, total_tokens) /\ Bounded(connections, Size)
  BY TypeParts DEF Inv
<1>2. threads \ {s} \in SUBSET threads /\ connections \ {s} \in SUBSET connections
  OBVIOUS
<1>3. Bounded(threads \ {s}, total_tokens) /\ Bounded(connections \ {s}, Size)
  BY <1>1, <1>2, Fewer, Limits
<1>4. Occupies(s) /\ Answers(s)
  BY DEF Inv
<1>5. QED
  BY <1>1, <1>2, <1>3, <1>4

\* The step of one request that neither inserts nor stores a row, nor answers 409.
LEMMA OwnStep ==
  ASSUME Inv, NEW s \in Request, NEW l \in Label, Goto(s, l),
         threads' \in {threads, threads \cup {s}, threads \ {s}},
         threads' = threads \cup {s} => s \in threads \/ FreeThread(s),
         connections' \in {connections, connections \cup {s}, connections \ {s}},
         connections' = connections \cup {s} => s \in connections \/ FreeConnection(s),
         inserted' \in {inserted, inserted \ {s}},
         stored' = stored,
         created' \in {created, created \cup {s}},
         l # "conflict",
         Occupies(s)', Answers(s)'
  PROVE  Inv'
<1>1. pc' = [pc EXCEPT ![s] = l] /\ pc \in [Request -> Label]
  BY Unpacked DEF Goto
<1>2. /\ threads' \subseteq Request /\ connections' \subseteq Request
      /\ inserted' \subseteq inserted
      /\ \A r \in Request \ {s} : /\ r \in threads' <=> r \in threads
                                  /\ r \in connections' <=> r \in connections
                                  /\ r \in inserted' <=> r \in inserted
                                  /\ r \in created' <=> r \in created
  BY Unpacked
<1>3. Bounded(threads', total_tokens)
  <2>1. CASE threads' = threads \cup {s} /\ s \notin threads
    BY <2>1, OneMore, Limits, Unpacked DEF Bounded, FreeThread
  <2>2. CASE threads' = threads \/ threads' = threads \ {s}
    BY <2>2, Unpacked
  <2>3. CASE threads' = threads \cup {s} /\ s \in threads
    <3>1. threads' = threads
      BY <2>3
    <3>2. QED
      BY <3>1, Unpacked
  <2>4. QED
    BY <2>1, <2>2, <2>3
<1>4. Bounded(connections', Size)
  <2>1. CASE connections' = connections \cup {s} /\ s \notin connections
    BY <2>1, OneMore, Limits, Unpacked DEF Bounded, FreeConnection, Size
  <2>2. CASE connections' = connections \/ connections' = connections \ {s}
    BY <2>2, Unpacked
  <2>3. CASE connections' = connections \cup {s} /\ s \in connections
    <3>1. connections' = connections
      BY <2>3
    <3>2. QED
      BY <3>1, Unpacked
  <2>4. QED
    BY <2>1, <2>2, <2>3
<1>5. TypeOK'
  <2>1. pc' \in [Request -> Label] /\ inserted' \subseteq Request /\ stored' \subseteq Request
        /\ created' \subseteq Request
    BY <1>1, <1>2, Unpacked
  <2>2. QED
    BY <1>2, <1>3, <1>4, <2>1 DEF TypeOK, Bounded, Size
<1>6. ASSUME NEW r \in Request PROVE Occupies(r)' /\ Answers(r)'
  <2>1. CASE r = s
    BY <2>1
  <2>2. CASE r # s
    <3>1. /\ Occupies(r) /\ Answers(r) /\ pc'[r] = pc[r] /\ stored' = stored
          /\ r \in threads' <=> r \in threads
          /\ r \in connections' <=> r \in connections
          /\ r \in inserted' <=> r \in inserted
          /\ r \in created' <=> r \in created
      BY <1>1, <1>2, <2>2 DEF Inv
    <3>2. QED
      BY <3>1 DEF Occupies, Holds, Answers, Writes
  <2>3. QED
    BY <2>1, <2>2
<1>7. Alone'
  <2>1. \A r \in Request : pc'[r] = "conflict" => pc[r] = "conflict"
    BY <1>1
  <2>2. QED
    BY <1>2, <2>1 DEF Inv, Alone, Exists
<1>8. QED
  BY <1>5, <1>6, <1>7 DEF Inv

\* The steps that OwnStep covers.
LEMMA SmallSteps ==
  ASSUME Inv, NEW s \in Request,
         \/ Receive(s) \/ Health(s) \/ Call(s) \/ Connect(s) \/ ConnectFails(s) \/ Select(s)
         \/ Misses(s) \/ StatementFails(s) \/ Return(s) \/ Validate(s) \/ SendReply(s)
         \/ CommitFails(s) \/ Rollback(s)
  PROVE  Inv'
<1>1. Occupies(s) /\ Answers(s) /\ pc \in [Request -> Label]
  BY Unpacked
<1>2. s \in Probe => ~Writes(s)
  BY RequestAssumption DEF Writes
<1>3. CASE Receive(s)
  <2>1. Occupies(s)' /\ Answers(s)'
    BY <1>1, <1>2, <1>3 DEF Receive, Goto, Occupies, Holds, Answers, rows, Writes
  <2>2. Goto(s, "call") /\ "call" \in Label
    BY <1>3 DEF Receive, Label
  <2>3. QED
    BY <1>3, <2>1, <2>2, OwnStep DEF rows, Receive
<1>4. CASE Health(s)
  <2>1. Occupies(s)' /\ Answers(s)'
    BY <1>1, <1>2, <1>4 DEF Health, Goto, Occupies, Holds, Answers, rows, Writes
  <2>2. Goto(s, "reply") /\ "reply" \in Label
    BY <1>4 DEF Health, Label
  <2>3. QED
    BY <1>4, <2>1, <2>2, OwnStep DEF rows, Health
<1>5. CASE Call(s)
  <2>1. Occupies(s)' /\ Answers(s)'
    BY <1>1, <1>2, <1>5 DEF Call, Goto, Occupies, Holds, Answers, rows, Writes
  <2>2. Goto(s, "connect") /\ "connect" \in Label
    BY <1>5 DEF Call, Label
  <2>3. QED
    BY <1>5, <2>1, <2>2, OwnStep DEF rows, Call
<1>6. CASE Connect(s)
  <2>1. Occupies(s)' /\ Answers(s)'
    BY <1>1, <1>2, <1>6 DEF Connect, Goto, Occupies, Holds, Answers, rows, Writes
  <2>2. Goto(s, "work") /\ "work" \in Label
    BY <1>6 DEF Connect, Label
  <2>3. QED
    BY <1>6, <2>1, <2>2, OwnStep DEF rows, Connect
<1>7. CASE ConnectFails(s)
  <2>1. Occupies(s)' /\ Answers(s)'
    BY <1>1, <1>2, <1>7 DEF ConnectFails, Goto, Occupies, Holds, Answers, rows, Writes
  <2>2. Goto(s, "failed") /\ "failed" \in Label
    BY <1>7 DEF ConnectFails, Label
  <2>3. QED
    BY <1>7, <2>1, <2>2, OwnStep DEF rows, ConnectFails
<1>8. CASE Select(s)
  <2>1. Occupies(s)' /\ Answers(s)'
    BY <1>1, <1>2, <1>8 DEF Select, Goto, Occupies, Holds, Answers, rows, Writes
  <2>2. Goto(s, "busy") /\ "busy" \in Label
    BY <1>8 DEF Select, Label
  <2>3. QED
    BY <1>8, <2>1, <2>2, OwnStep DEF rows, Select
<1>9. CASE Misses(s)
  <2>1. Occupies(s)' /\ Answers(s)'
    BY <1>1, <1>2, <1>9 DEF Misses, Raise, Goto, Occupies, Holds, Answers, rows, Writes
  <2>2. Goto(s, "rollback") /\ "rollback" \in Label
    BY <1>9 DEF Misses, Raise, Label
  <2>3. QED
    BY <1>9, <2>1, <2>2, OwnStep DEF rows, Misses, Raise
<1>10. CASE StatementFails(s)
  <2>1. Occupies(s)' /\ Answers(s)'
    BY <1>1, <1>2, <1>10 DEF StatementFails, Raise, Goto, Occupies, Holds, Answers, rows, Writes
  <2>2. Goto(s, "rollback") /\ "rollback" \in Label
    BY <1>10 DEF StatementFails, Raise, Label
  <2>3. QED
    BY <1>10, <2>1, <2>2, OwnStep DEF rows, StatementFails, Raise
<1>11. CASE Return(s)
  <2>1. Occupies(s)' /\ Answers(s)'
    BY <1>1, <1>2, <1>11 DEF Return, Goto, Occupies, Holds, Answers, rows, Writes
  <2>2. Goto(s, "reply") /\ "reply" \in Label
    BY <1>11 DEF Return, Label
  <2>3. QED
    BY <1>11, <2>1, <2>2, OwnStep DEF rows, Return
<1>12. CASE CommitFails(s)
  <2>1. Occupies(s)' /\ Answers(s)'
    BY <1>1, <1>2, <1>12 DEF CommitFails, Goto, Occupies, Holds, Answers, rows, Writes
  <2>2. Goto(s, "rollback") /\ "rollback" \in Label
    BY <1>12 DEF CommitFails, Label
  <2>3. QED
    BY <1>12, <2>1, <2>2, OwnStep DEF rows, CommitFails
<1>13. CASE Rollback(s)
  <2>1. Occupies(s)' /\ Answers(s)'
    BY <1>1, <1>2, <1>13 DEF Rollback, Goto, Occupies, Holds, Answers, rows, Writes
  <2>2. Goto(s, "failed") /\ "failed" \in Label
    BY <1>13 DEF Rollback, Label
  <2>3. QED
    BY <1>13, <2>1, <2>2, OwnStep DEF rows, Rollback
<1>14. CASE Validate(s)
  <2>1. PICK l \in {"done", "send", "commit"} :
          /\ Goto(s, l)
          /\ l = "done" <=> s \in Probe
          /\ l = "send" <=> s \notin Probe /\ Home[s] \in ReplyFirst
    BY <1>14 DEF Validate
  <2>2. Occupies(s)' /\ Answers(s)'
    <3>1. pc[s] = "reply" /\ pc' = [pc EXCEPT ![s] = l]
          /\ UNCHANGED <<threads, connections, inserted, stored, created>>
      BY <1>14, <2>1 DEF Validate, Goto, rows
    <3>2. pc'[s] = l
      BY <1>1, <3>1
    <3>3. Occupies(s)'
      BY <1>1, <1>2, <2>1, <3>1, <3>2 DEF Occupies, Holds, Writes
    <3>4. Answers(s)'
      BY <1>1, <1>2, <2>1, <3>1, <3>2 DEF Answers, Writes
    <3>5. QED
      BY <3>3, <3>4
  <2>3. l \in Label /\ l # "conflict"
    BY <2>1 DEF Label
  <2>4. QED
    BY <1>14, <2>1, <2>2, <2>3, OwnStep DEF Validate, rows
<1>15. CASE SendReply(s)
  <2>1. PICK l \in {"done", "commit"} :
          Goto(s, l) /\ (l = "commit" <=> Home[s] \in ReplyFirst)
    BY <1>15 DEF SendReply
  <2>2. Occupies(s)' /\ Answers(s)'
    BY <1>1, <1>2, <1>15, <2>1 DEF SendReply, Goto, Occupies, Holds, Answers, rows, Writes
  <2>3. l \in Label /\ l # "conflict" /\ created' \in {created, created \cup {s}}
    BY <1>15, <2>1 DEF Label, SendReply
  <2>4. QED
    BY <1>15, <2>1, <2>2, <2>3, OwnStep DEF SendReply, rows
<1>16. QED
  BY <1>3, <1>4, <1>5, <1>6, <1>7, <1>8, <1>9, <1>10, <1>11, <1>12, <1>13, <1>14, <1>15

\* An insert is alone in its external_ref.
LEMMA InsertKeeps ==
  ASSUME Inv, NEW s \in Request, Insert(s)
  PROVE  Inv'
<1> USE Unpacked DEF Insert
<1>1. pc' = [pc EXCEPT ![s] = "busy"] /\ pc[s] = "work"
  BY DEF Goto
<1>2. TypeOK'
  <2>1. pc' \in [Request -> Label] /\ inserted' \subseteq Request
    BY <1>1 DEF Label
  <2>2. QED
    BY <2>1 DEF TypeOK, Bounded, Size
<1>3. ASSUME NEW r \in Request PROVE Occupies(r)' /\ Answers(r)'
  BY <1>1 DEF Inv, Occupies, Holds, Answers, rows, Writes, Exists
<1>4. Alone'
  BY <1>1 DEF Inv, Alone, Exists, Locked
<1>5. QED
  BY <1>2, <1>3, <1>4 DEF Inv

\* A conflict is with a stored external_ref.
LEMMA ConflictKeeps ==
  ASSUME Inv, NEW s \in Request, InsertConflicts(s)
  PROVE  Inv'
<1> USE Unpacked DEF InsertConflicts
<1>1. pc' = [pc EXCEPT ![s] = "conflict"] /\ pc[s] = "work"
  BY DEF Goto
<1>2. TypeOK'
  <2>1. pc' \in [Request -> Label]
    BY <1>1 DEF Label
  <2>2. threads' \subseteq Request /\ connections' \subseteq Request
        /\ Bounded(threads', total_tokens) /\ Bounded(connections', Size)
    OBVIOUS
  <2>3. QED
    BY <2>1, <2>2 DEF TypeOK, Bounded, Size, rows
<1>3. ASSUME NEW r \in Request PROVE Occupies(r)' /\ Answers(r)'
  BY <1>1 DEF Inv, Occupies, Holds, Answers, rows, Writes, Exists
<1>4. Alone'
  BY <1>1 DEF Inv, Alone, Exists, rows
<1>5. QED
  BY <1>2, <1>3, <1>4 DEF Inv

\* A commit stores what nobody had stored, whether its session hears of it or not.
LEMMA CommitKeeps ==
  ASSUME Inv, NEW s \in Request, Commit(s) \/ CommitUnacknowledged(s)
  PROVE  Inv'
<1> USE Unpacked
<1>1. PICK l \in {"done", "send", "rollback"} :
        /\ pc' = [pc EXCEPT ![s] = l]
        /\ l = "done" => Home[s] \in ReplyFirst
        /\ l = "send" => Home[s] \notin ReplyFirst
        /\ connections' = IF l = "rollback" THEN connections ELSE connections \ {s}
  BY DEF Commit, CommitUnacknowledged, Goto
<1>2. /\ pc[s] = "commit" /\ inserted' = inserted \ {s}
      /\ threads' = threads /\ created' = created
      /\ stored' = IF Writes(s) THEN stored \cup {s} ELSE stored
  BY DEF Commit, CommitUnacknowledged, Committed
<1>3. Writes(s) => s \in inserted
  BY <1>2 DEF Occupies, Holds
<1>4. TypeOK'
  <2>1. pc' \in [Request -> Label]
    BY <1>1 DEF Label
  <2>2. connections' \subseteq Request /\ inserted' \subseteq Request
        /\ stored' \subseteq Request /\ created' \subseteq Request
        /\ Bounded(connections', Size) /\ Bounded(threads', total_tokens)
    BY <1>1, <1>2
  <2>3. QED
    BY <1>2, <2>1, <2>2 DEF TypeOK, Bounded, Size
<1>5. ASSUME NEW r \in Request PROVE Occupies(r)' /\ Answers(r)'
  <2>1. Occupies(r) /\ Answers(r)
    BY DEF Inv
  <2>2. CASE r = s
    BY <1>1, <1>2, <2>1, <2>2 DEF Occupies, Holds, Answers, Writes
  <2>3. CASE r # s
    <3>1. /\ pc'[r] = pc[r]
          /\ r \in threads' <=> r \in threads
          /\ r \in connections' <=> r \in connections
          /\ r \in inserted' <=> r \in inserted
          /\ r \in stored' <=> r \in stored
          /\ r \in created' <=> r \in created
      BY <1>1, <1>2, <2>3
    <3>2. QED
      BY <2>1, <3>1 DEF Occupies, Holds, Answers, Writes
  <2>4. QED
    BY <2>2, <2>3
<1>6. Alone'
  <2>1. \A r \in Request : pc'[r] = "conflict" => pc[r] = "conflict"
    BY <1>1
  <2>2. QED
    BY <1>2, <1>3, <2>1 DEF Inv, Alone, Exists
<1>7. QED
  BY <1>4, <1>5, <1>6 DEF Inv

\* A crash takes with it what the container's requests occupied.
LEMMA CrashKeeps ==
  ASSUME Inv, NEW c \in Container, Crash(c)
  PROVE  Inv'
<1> USE DEF Crash
<1>1. \A r \in Request :
        \/ Home[r] # c /\ pc'[r] = pc[r]
        \/ Home[r] = c /\ pc'[r] = pc[r] /\ pc[r] \in {"idle", "done", "conflict", "failed"}
        \/ Home[r] = c /\ pc'[r] = "failed" /\ pc[r] \notin {"idle", "done", "conflict", "failed"}
  BY DEF At, InFlight
<1>2. \A r \in Request :
        /\ r \in threads' <=> Home[r] # c /\ r \in threads
        /\ r \in connections' <=> Home[r] # c /\ r \in connections
        /\ r \in inserted' <=> Home[r] # c /\ r \in inserted
  BY TypeParts DEF At, Inv
<1>3. threads' \in SUBSET threads /\ connections' \in SUBSET connections
        /\ inserted' \subseteq inserted
  OBVIOUS
<1>4. TypeOK'
  <2>1. pc' \in [Request -> Label]
    BY TypeParts DEF Inv, Label
  <2>2. Bounded(threads', total_tokens) /\ Bounded(connections', Size)
    BY <1>3, Fewer, Limits, TypeParts DEF Inv
  <2>3. inserted' \subseteq Request /\ threads' \subseteq Request /\ connections' \subseteq Request
        /\ stored' \subseteq Request /\ created' \subseteq Request
    BY <1>3, TypeParts DEF Inv
  <2>4. QED
    BY <2>1, <2>2, <2>3 DEF TypeOK, Bounded, Size
<1>5. ASSUME NEW r \in Request PROVE Occupies(r)' /\ Answers(r)'
  <2>1. Occupies(r) /\ Answers(r)
    BY DEF Inv
  <2>2. /\ r \in threads' <=> Home[r] # c /\ r \in threads
        /\ r \in connections' <=> Home[r] # c /\ r \in connections
        /\ r \in inserted' <=> Home[r] # c /\ r \in inserted
        /\ stored' = stored /\ created' = created
    BY <1>2
  <2>3. CASE pc'[r] = pc[r] /\ (Home[r] # c \/ pc[r] \in {"idle", "done", "conflict", "failed"})
    <3>1. Occupies(r)'
      BY <2>1, <2>2, <2>3 DEF Occupies, Holds, Writes
    <3>2. Answers(r)'
      BY <2>1, <2>2, <2>3 DEF Answers, Writes
    <3>3. QED
      BY <3>1, <3>2
  <2>4. CASE Home[r] = c /\ pc'[r] = "failed" /\ pc[r] \notin {"idle", "done", "conflict", "failed"}
    <3>1. Occupies(r)'
      BY <2>2, <2>4 DEF Occupies, Holds, Writes
    <3>2. Answers(r)'
      BY <2>1, <2>2, <2>4 DEF Answers, Writes
    <3>3. QED
      BY <3>1, <3>2
  <2>5. QED
    BY <1>1, <2>3, <2>4
<1>6. Alone'
  <2>1. \A r \in Request : pc'[r] = "conflict" => pc[r] = "conflict"
    BY <1>1
  <2>2. QED
    BY <1>3, <2>1 DEF Inv, Alone, Exists
<1>7. QED
  BY <1>4, <1>5, <1>6 DEF Inv

\* Every step keeps the invariant.
LEMMA NextInv == Inv /\ [Next]_vars => Inv'
<1> SUFFICES ASSUME Inv, [Next]_vars PROVE Inv'
  OBVIOUS
<1>1. CASE UNCHANGED vars
  BY <1>1 DEF vars, rows, Inv, TypeOK, Occupies, Holds, Answers, Alone, Exists, Writes
<1>2. ASSUME NEW r \in Request, Receive(r) \/ Step(r) \/ Fault(r) PROVE Inv'
  BY <1>2, SmallSteps, InsertKeeps, ConflictKeeps, CommitKeeps DEF Step, Fault, PoolTimeout
<1>3. QED
  BY <1>1, <1>2, CrashKeeps DEF Next, Terminating

\* Inv holds in every reachable state.
THEOREM Invariance == Spec => []Inv
<1>1. QED
  BY InitInv, NextInv, PTL DEF Spec

\* The limiter and the pool are never exceeded, whatever their sizes.
THEOREM WorkerTypes == Spec => []TypeOK
<1>1. Inv => TypeOK
  BY DEF Inv
<1>2. QED
  BY <1>1, Invariance, PTL

\* Of two 201s for one external_ref, one was sent by a container that replies
\* first, and its commit has failed since.
LEMMA FalseReply ==
  ASSUME Inv, NEW r \in created, NEW q \in created,
         external_ref[r] = external_ref[q], r # q
  PROVE  \E l \in {r, q} \ stored :
           Home[l] \in ReplyFirst /\ pc[l] \in {"rollback", "failed"}
<1>1. /\ r \in Request /\ Occupies(r) /\ Answers(r)
      /\ q \in Request /\ Occupies(q) /\ Answers(q)
  BY TypeParts DEF Inv
<1>2. \A l \in {r, q} : l \notin stored =>
        Home[l] \in ReplyFirst /\ pc[l] \in {"commit", "rollback", "failed"}
  BY <1>1 DEF Answers
<1>3. \A l \in {r, q} : pc[l] = "commit" => l \in inserted
  BY <1>1 DEF Answers, Occupies, Holds
<1>4. CASE r \in stored
  BY <1>2, <1>3, <1>4 DEF Inv, Alone
<1>5. CASE q \in stored
  BY <1>2, <1>3, <1>5 DEF Inv, Alone
<1>6. CASE r \notin stored /\ q \notin stored
  BY <1>2, <1>3, <1>6 DEF Inv, Alone
<1>7. QED
  BY <1>4, <1>5, <1>6

\* However many requests race, and in whichever order their containers commit
\* and reply: an advertiser is stored once, every 409 is true, and a 201 is false
\* only if it left a container that replies first and whose commit then failed.
THEOREM CreatedOnce == Spec => []OneCreator
<1>1. ASSUME Inv PROVE OneCreator
  <2>1. \A r \in created : Home[r] \notin ReplyFirst => r \in stored
    <3>1. SUFFICES ASSUME NEW r \in created, Home[r] \notin ReplyFirst PROVE r \in stored
      OBVIOUS
    <3>2. Answers(r)
      BY <1>1, TypeParts DEF Inv
    <3>3. QED
      BY <3>1, <3>2 DEF Answers
  <2>2. QED
    BY <1>1, <2>1, FalseReply DEF Inv, Alone, OneCreator
<1>2. QED
  BY <1>1, Invariance, PTL
-----------------------------------------------------------------------------
\* More elements than a set of a container's requests, one not among them.
LEMMA OneOver ==
  ASSUME NEW T \in SUBSET Request, NEW S \in SUBSET Request, NEW r \in Request,
         NEW c, Home[r] = c, r \notin S, At(S, c) \cup {r} \subseteq At(T, c)
  PROVE  Cardinality(At(S, c)) + 1 <= Cardinality(At(T, c))
<1> DEFINE A == At(S, c)
           B == At(T, c)
           k == Cardinality(A)
           m == Cardinality(A \cup {r})
           n == Cardinality(B)
<1>1. IsFiniteSet(A) /\ k \in Nat /\ IsFiniteSet(B) /\ n \in Nat
  BY Counted
<1>2. r \notin A
  BY DEF At
<1>3. m = k + 1
  BY <1>1, <1>2, FS_AddElement, Zenon
<1>4. m <= n
  BY <1>1, FS_Subset
<1> HIDE DEF A, B, k, m, n
<1>5. k + 1 <= n
  BY <1>1, <1>3, <1>4
<1>6. QED
  BY <1>5 DEF A, B, k, n

\* A set that counts at least one has an element.
LEMMA SomeOne ==
  ASSUME NEW T \in SUBSET Request, NEW c, Cardinality(At(T, c)) >= 1
  PROVE  \E r \in T : Home[r] = c
<1>1. At(T, c) # {}
  BY FS_EmptySet
<1>2. QED
  BY <1>1 DEF At

\* In a stall, whoever waits for a row waits for a request that has done its
\* work and waits for a thread.
LEMMA RowHeldByReply ==
  ASSUME Inv, Stalled, NEW r \in Request, pc[r] = "work"
  PROVE  \E q \in Request : /\ pc[q] = "reply" /\ q \notin Probe /\ ~FreeThread(q)
                            /\ q \in connections /\ q \notin threads
<1>1. r \in InFlight
  BY DEF InFlight
<1>2. Locked(r)
  BY <1>1 DEF Stalled, Blocked
<1>3. PICK q \in inserted : external_ref[q] = external_ref[r]
  BY <1>2 DEF Locked
<1>4. q \in Request /\ Occupies(q)
  BY <1>3, TypeParts DEF Inv
<1>5. (Holds(q) \/ pc[q] = "rollback") /\ Writes(q)
  BY <1>3, <1>4 DEF Occupies
<1>6. Blocked(q)
  BY <1>4, <1>5 DEF Stalled, InFlight, Holds
<1>7. pc[q] = "reply" /\ ~FreeThread(q)
  BY <1>5, <1>6 DEF Blocked, Holds
<1>8. q \notin Probe
  BY <1>5, RequestAssumption DEF Writes
<1>9. QED
  BY <1>4, <1>7, <1>8 DEF Occupies, Holds

\* If the pool is no larger than the limiter, every stall has a request that the
\* pool's timeout lets go: for any number of containers and requests.
THEOREM PoolBreaksStalls == Spec => []StallsTimeOut
<1>1. ASSUME Inv PROVE StallsTimeOut
  <2>1. SUFFICES ASSUME Size <= total_tokens, Stalled, \A r \in InFlight : pc[r] # "connect"
                 PROVE  FALSE
    BY DEF StallsTimeOut, Size
  <2>2. \A r \in InFlight : r \in Request /\ pc[r] \in {"call", "reply", "work"}
                            /\ (pc[r] \in {"call", "reply"} => ~FreeThread(r))
    BY <2>1 DEF Stalled, Blocked, InFlight
  <2>3. \A r \in threads : r \in Request /\ pc[r] = "work" /\ r \in connections
    <3>1. \A r \in threads : r \in Request /\ Occupies(r)
      BY <1>1, TypeParts DEF Inv
    <3>2. \A r \in threads : r \in InFlight
      BY <3>1 DEF Occupies, InFlight
    <3>3. QED
      BY <2>2, <3>1, <3>2 DEF Occupies
  <2>4. \E r \in Request : pc[r] = "work"
    <3>1. PICK r \in InFlight : TRUE
      BY <2>1 DEF Stalled
    <3>2. CASE pc[r] = "work"
      BY <2>2, <3>2
    <3>3. CASE pc[r] # "work"
      <4>1. ~(Cardinality(At(threads, Home[r])) < total_tokens)
        BY <2>2, <3>3 DEF FreeThread
      <4>2. Cardinality(At(threads, Home[r])) \in Nat /\ threads \in SUBSET Request
        BY <1>1, Counted, TypeParts DEF Inv
      <4>3. Cardinality(At(threads, Home[r])) >= 1
        BY <4>1, <4>2, Limits
      <4>4. QED
        BY <2>3, <4>2, <4>3, SomeOne
    <3>4. QED
      BY <3>2, <3>3
  <2>5. PICK q \in Request : /\ pc[q] = "reply" /\ q \notin Probe /\ ~FreeThread(q)
                             /\ q \in connections /\ q \notin threads
    BY <1>1, <2>1, <2>4, RowHeldByReply
  <2> DEFINE c == Home[q]
  <2>6. threads \in SUBSET Request /\ connections \in SUBSET Request
    BY <1>1, TypeParts DEF Inv
  <2>7. At(threads, c) \cup {q} \subseteq At(connections, c)
    BY <2>3, <2>5, <2>6 DEF At
  <2>8. Cardinality(At(threads, c)) + 1 <= Cardinality(At(connections, c))
    BY <2>5, <2>6, <2>7, OneOver
  <2>9. Cardinality(At(connections, c)) <= Size
    BY <1>1, RequestAssumption, TypeParts DEF Inv, Bounded
  <2>10. ~(Cardinality(At(threads, c)) < total_tokens)
    BY <2>5 DEF FreeThread
  <2>11. Cardinality(At(threads, c)) \in Nat /\ Cardinality(At(connections, c)) \in Nat
    BY <2>6, Counted
  <2>12. QED
    BY <2>1, <2>8, <2>9, <2>10, <2>11, Limits
<1>2. QED
  BY <1>1, Invariance, PTL

\* With a thread for each of its requests no container ever stalls, not even
\* for the pool's timeout.
THEOREM NoStall == Spec => []NoStallBelowThreads
<1>1. ASSUME Inv PROVE NoStallBelowThreads
  <2>1. SUFFICES ASSUME \A c \in Container : Cardinality(At(InFlight, c)) <= total_tokens, Stalled
                 PROVE  FALSE
    BY DEF NoStallBelowThreads
  <2>2. /\ threads \in SUBSET Request /\ connections \in SUBSET Request
        /\ InFlight \in SUBSET Request
        /\ \A r \in Request : Occupies(r)
    BY <1>1, TypeParts DEF Inv, InFlight
  <2>3. ASSUME NEW r \in InFlight, pc[r] \in {"call", "reply"} PROVE FALSE
    <3> DEFINE c == Home[r]
    <3>1. ~(Cardinality(At(threads, c)) < total_tokens)
      BY <2>1, <2>3 DEF Stalled, Blocked, FreeThread
    <3>2. r \notin threads
      BY <2>2, <2>3 DEF Occupies
    <3>3. At(threads, c) \cup {r} \subseteq At(InFlight, c)
      BY <2>2, <2>3 DEF At, Occupies, InFlight
    <3>4. Cardinality(At(threads, c)) + 1 <= Cardinality(At(InFlight, c))
      BY <2>2, <3>2, <3>3, OneOver
    <3>5. Cardinality(At(InFlight, c)) <= total_tokens
      BY <2>1, <2>2, RequestAssumption
    <3>6. Cardinality(At(threads, c)) \in Nat /\ Cardinality(At(InFlight, c)) \in Nat
      BY <2>2, Counted
    <3>7. QED
      BY <3>1, <3>4, <3>5, <3>6, Limits
  <2>4. \A r \in InFlight : pc[r] # "work"
    <3>1. SUFFICES ASSUME NEW r \in InFlight, pc[r] = "work" PROVE FALSE
      OBVIOUS
    <3>2. PICK q \in Request : pc[q] = "reply"
      BY <1>1, <2>1, <2>2, <3>1, RowHeldByReply
    <3>3. QED
      BY <2>3, <3>2 DEF InFlight
  <2>5. PICK r \in InFlight : pc[r] = "connect" /\ ~FreeConnection(r)
    BY <2>1, <2>3, <2>4 DEF Stalled, Blocked
  <2>6. Cardinality(At(connections, Home[r])) \in Nat
    BY <2>2, Counted
  <2>7. Cardinality(At(connections, Home[r])) >= 1
    BY <2>5, <2>6, Limits DEF FreeConnection, Size
  <2>8. PICK q \in connections : Home[q] = Home[r]
    BY <2>2, <2>7, SomeOne
  <2>9. q \in Request /\ pc[q] \in {"work", "busy", "reply", "send", "commit", "rollback"}
    BY <2>2 DEF Occupies, Holds
  <2>10. q \in InFlight
    BY <2>9 DEF InFlight
  <2>11. Blocked(q)
    BY <2>1, <2>10 DEF Stalled
  <2>12. QED
    BY <2>3, <2>4, <2>9, <2>10, <2>11 DEF Blocked
<1>2. QED
  BY <1>1, Invariance, PTL
=============================================================================
