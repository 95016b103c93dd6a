--------------------------- MODULE CommandsProofs ---------------------------
(***************************************************************************)
(* Proofs about Commands, for every set of commands, connections, files,   *)
(* lines and limits that ConstantsAssumption allows.                       *)
(***************************************************************************)
EXTENDS Commands, FiniteSetTheorems, TLAPS

(* A line that waits for a peer names one that is still unknown; without   *)
(* this the count of unresolved peers would not stay a natural number.     *)
Waiting == \A c \in held["resolve"] : TakesPeer(kind[c]) /\ peers[c] >= 1

TypeInv == TypeOK /\ Waiting

-----------------------------------------------------------------------------
(* Every set of commands is finite, so that its cardinality is a number. *)
LEMMA FiniteCmds ==
  \A S \in SUBSET Cmd : IsFiniteSet(S) /\ Cardinality(S) \in Nat
BY ConstantsAssumption, FS_Subset, FS_CardinalityType

(* in_command_decref leaves its variables well typed. *)
LEMMA SettleType ==
  ASSUME TypeOK, NEW new \in SUBSET Cmd, NEW added \in {0, 1},
         NEW evs \in [Conn -> Int], Settle(new, added, evs)
  PROVE  /\ mem' \in [Cmd -> {"unused", "live", "freed"}]
         /\ allocated' \in Int
         /\ evref' \in [Conn -> Int]
<1>1. Freed(new) \in SUBSET Cmd
  BY DEF Freed, Live
<1>2. mem' \in [Cmd -> {"unused", "live", "freed"}]
  BY DEF Settle, TypeOK
<1>3. allocated' \in Int
  BY <1>1, FiniteCmds DEF Settle, TypeOK
<1>4. ASSUME NEW e \in Conn
      PROVE  /\ Cardinality({c \in new : ev'[c] = e}) \in Nat
             /\ Cardinality({c \in Freed(new) : ev'[c] = e}) \in Nat
  BY <1>1, FiniteCmds
<1>5. evref' \in [Conn -> Int]
  BY <1>4 DEF Settle, TypeOK
<1> QED
  BY <1>2, <1>3, <1>5

(* The variables that interpreting a line may change stay well typed. *)
LEMMA InterpretType ==
  ASSUME TypeOK, NEW c \in Cmd, NEW k \in LineKinds, NEW p \in Nat,
         NEW e \in Conn \cup {NoConn}, NEW refs \in Int,
         NEW new \in SUBSET Cmd, NEW added \in {0, 1},
         Interpret(c, k, p, e, refs, new, added)
  PROVE  /\ mem' \in [Cmd -> {"unused", "live", "freed"}]
         /\ refcnt' \in [Cmd -> Int]
         /\ held' \in [Stages -> SUBSET Cmd]
         /\ left' \in [Cmd -> Int]
         /\ done' \in [Cmd -> Nat]
         /\ allocated' \in Int
         /\ safe_quit' \in BOOLEAN /\ chat_mode' \in BOOLEAN
         /\ conn' \in [Conn -> {"none", "open", "closed"}]
         /\ evref' \in [Conn -> Int]
         /\ notify' \in Conn \cup {NoConn}
         /\ status' \in {"running", "safe_quit", "quit", "fault"}
<1> PICK place \in Places(k, p) : \E n \in HistoryLimits(k, place) :
          InterpretInto(c, k, e, refs, new, added, place, n)
  BY DEF Interpret
<1> PICK n \in HistoryLimits(k, place) :
          InterpretInto(c, k, e, refs, new, added, place, n)
  OBVIOUS
<1>1. Settle(new, added, HandlerEvs(k, e))
  BY DEF InterpretInto
<1>2. Taken(k) \in Int /\ Dropped(k, place) \in Nat
  BY DEF Taken, Dropped
<1>3. n \in Int
  BY ConstantsAssumption DEF HistoryLimits
<1>4. HandlerEvs(k, e) \in [Conn -> Int]
  BY DEF HandlerEvs
<1>5. /\ mem' \in [Cmd -> {"unused", "live", "freed"}]
      /\ allocated' \in Int
      /\ evref' \in [Conn -> Int]
  BY <1>1, <1>4, SettleType
<1>6. refcnt' \in [Cmd -> Int] /\ done' \in [Cmd -> Nat] /\ left' \in [Cmd -> Int]
  BY <1>2, <1>3 DEF TypeOK, InterpretInto
<1>7. held' \in [Stages -> SUBSET Cmd]
  BY DEF TypeOK, InterpretInto
<1>8. safe_quit' \in BOOLEAN /\ chat_mode' \in BOOLEAN
  BY DEF TypeOK, InterpretInto
<1>9. conn' \in [Conn -> {"none", "open", "closed"}] /\ notify' \in Conn \cup {NoConn}
  BY DEF TypeOK, InterpretInto
<1>10. status' \in {"running", "safe_quit", "quit", "fault"}
  BY DEF InterpretInto
<1> QED
  BY <1>5, <1>6, <1>7, <1>8, <1>9, <1>10

(* A line that goes to the resolver is one that takes a peer, and there is *)
(* at least one left to resolve; the other waiting lines are untouched.    *)
LEMMA InterpretWaits ==
  ASSUME TypeOK, NEW c \in Cmd, NEW k \in LineKinds, NEW p \in Nat,
         NEW e \in Conn \cup {NoConn}, NEW refs \in Int,
         NEW new \in SUBSET Cmd, NEW added \in {0, 1},
         Interpret(c, k, p, e, refs, new, added)
  PROVE  /\ c \in held'["resolve"] => p > 0
         /\ held'["resolve"] \ {c} = held["resolve"] \ {c}
<1>1. PICK place \in Places(k, p) :
        held' = [s \in Stages |-> IF s = place THEN held[s] \cup {c} ELSE held[s] \ {c}]
  BY DEF Interpret, InterpretInto
<1>2. "resolve" \in Stages
  BY DEF Stages
<1>3. place = "resolve" => p > 0
  BY ConstantsAssumption DEF Places, Requests, Messages, Done
<1> QED
  BY <1>1, <1>2, <1>3

(* A new line starts with as many unresolved peers as it has peers, and    *)
(* only a line that takes peers has any.                                   *)
LEMMA NewCommandType ==
  ASSUME TypeInv, NEW c \in Cmd, NEW k \in LineKinds, NEW e \in Conn \cup {NoConn},
         NewCommand(c, k, e), script' \in 0 .. ScriptLength, started' \in BOOLEAN
  PROVE  TypeInv'
<1> USE DEF TypeInv
<1>1. PICK p \in PeerCounts(k) :
         /\ peers' = [peers EXCEPT ![c] = p]
         /\ Interpret(c, k, p, e, 1, {c}, Added(e))
  BY DEF NewCommand
<1>2. kind' = [kind EXCEPT ![c] = k] /\ ev' = [ev EXCEPT ![c] = e]
  BY DEF NewCommand
<1>3. p \in 0 .. MaxResolves /\ (p > 0 => TakesPeer(k))
  BY ConstantsAssumption DEF PeerCounts
<1>4. /\ kind' \in [Cmd -> LineKinds]
      /\ peers' \in [Cmd -> 0 .. MaxResolves]
      /\ ev' \in [Cmd -> Conn \cup {NoConn}]
  BY <1>1, <1>2, <1>3 DEF TypeOK
<1>8. p \in Nat /\ {c} \in SUBSET Cmd /\ Added(e) \in {0, 1}
  BY <1>3, ConstantsAssumption DEF Added
<1>9. /\ mem' \in [Cmd -> {"unused", "live", "freed"}]
      /\ refcnt' \in [Cmd -> Int]
      /\ held' \in [Stages -> SUBSET Cmd]
      /\ left' \in [Cmd -> Int]
      /\ done' \in [Cmd -> Nat]
      /\ allocated' \in Int
      /\ safe_quit' \in BOOLEAN /\ chat_mode' \in BOOLEAN
      /\ conn' \in [Conn -> {"none", "open", "closed"}]
      /\ evref' \in [Conn -> Int]
      /\ notify' \in Conn \cup {NoConn}
      /\ status' \in {"running", "safe_quit", "quit", "fault"}
  BY <1>1, <1>8, InterpretType
<1>5. TypeOK'
  BY <1>4, <1>9, Zenon DEF TypeOK
<1>6. /\ c \in held'["resolve"] => p > 0
      /\ held'["resolve"] \ {c} = held["resolve"] \ {c}
  <2>1. TypeOK /\ Interpret(c, k, p, e, 1, {c}, Added(e))
    BY <1>1
  <2>2. 1 \in Int
    OBVIOUS
  <2> HIDE DEF TypeInv
  <2> QED
    BY <2>1, <2>2, <1>8, InterpretWaits
<1>7. Waiting'
  <2> SUFFICES ASSUME NEW d \in held'["resolve"]
               PROVE  TakesPeer(kind'[d]) /\ peers'[d] >= 1
    BY DEF Waiting
  <2>1. d \in Cmd
    BY <1>5 DEF TypeOK, Stages
  <2>2. CASE d = c
    BY <1>1, <1>2, <1>3, <1>6, <2>2 DEF TypeOK
  <2>3. CASE d # c
    BY <1>1, <1>2, <1>6, <2>1, <2>3 DEF TypeOK, Waiting
  <2> QED
    BY <2>2, <2>3
<1> QED
  BY <1>5, <1>7

(* Completing commands keeps every variable well typed. *)
LEMMA CompleteType ==
  ASSUME TypeInv, NEW s \in Stages, NEW S \in SUBSET Cmd, Complete(s, S), UNCHANGED left
  PROVE  TypeInv'
<1> USE DEF TypeInv
<1>1. NoEvs \in [Conn -> Int]
  BY DEF NoEvs
<1>2. /\ mem' \in [Cmd -> {"unused", "live", "freed"}]
      /\ allocated' \in Int
      /\ evref' \in [Conn -> Int]
  BY <1>1, SettleType DEF Complete
<1>3. refcnt' \in [Cmd -> Int] /\ done' \in [Cmd -> Nat]
  BY DEF Complete, TypeOK
<1>4. held' \in [Stages -> SUBSET Cmd]
  BY DEF Complete, TypeOK
<1>5. TypeOK'
  BY <1>2, <1>3, <1>4 DEF Complete, Ended, TypeOK, flagVars
<1>6. held'["resolve"] \subseteq held["resolve"]
  BY DEF Complete, TypeOK, Stages
<1>7. Waiting'
  BY <1>6 DEF Complete, Waiting
<1> QED
  BY <1>5, <1>7

(* Every step keeps the type invariant. *)
LEMMA TypeStep == TypeInv /\ [Next]_vars => TypeInv'
<1> SUFFICES ASSUME TypeInv, [Next]_vars PROVE TypeInv'
  OBVIOUS
<1> USE DEF TypeInv
<1>1. ASSUME NEW c \in Cmd, ReadConsole(c) PROVE TypeInv'
  <2>1. PICK k \in LineKinds : NewCommand(c, k, NoConn)
    BY <1>1 DEF ReadConsole, LineKinds
  <2> QED
    BY <1>1, <2>1, NewCommandType DEF ReadConsole, TypeOK
<1>2. ASSUME NEW c \in Cmd, NEW e \in Conn, ReadSocket(c, e) PROVE TypeInv'
  <2>1. PICK k \in LineKinds : NewCommand(c, k, e)
    BY <1>2, ConstantsAssumption DEF ReadSocket, LineKinds
  <2> QED
    BY <1>2, <2>1, NewCommandType DEF ReadSocket, TypeOK
<1>3. ASSUME NEW c \in Cmd, ScriptLine(c) PROVE TypeInv'
  <2>1. PICK k \in LineKinds : NewCommand(c, k, NoConn)
    BY <1>3, ConstantsAssumption DEF ScriptLine, LineKinds
  <2>2. script' \in 0 .. ScriptLength /\ started' \in BOOLEAN
    BY <1>3, ConstantsAssumption DEF ScriptLine, TypeOK
  <2> QED
    BY <2>1, <2>2, NewCommandType
<1>4. ASSUME NEW c \in Cmd, LuaQuery(c) PROVE TypeInv'
  <2>1. NoEvs \in [Conn -> Int]
    BY DEF NoEvs
  <2>2. /\ mem' \in [Cmd -> {"unused", "live", "freed"}]
        /\ allocated' \in Int
        /\ evref' \in [Conn -> Int]
    BY <1>4, <2>1, SettleType DEF LuaQuery
  <2>3. /\ kind' \in [Cmd -> LineKinds]
        /\ refcnt' \in [Cmd -> Int]
        /\ ev' \in [Cmd -> Conn \cup {NoConn}]
    BY <1>4 DEF LuaQuery, TypeOK, LineKinds, PlainLines
  <2>4. held' \in [Stages -> SUBSET Cmd] /\ held'["resolve"] = held["resolve"]
    BY <1>4 DEF LuaQuery, TypeOK, Stages
  <2>5. TypeOK'
    BY <1>4, <2>2, <2>3, <2>4 DEF LuaQuery, TypeOK, flagVars
  <2>6. Waiting'
    BY <1>4, <2>4 DEF LuaQuery, Waiting, TakesPeer, TypeOK
  <2> QED
    BY <2>5, <2>6
<1>5. ASSUME NEW c \in Cmd, Reply(c) PROVE TypeInv'
  BY <1>5, CompleteType DEF Reply, Stages
<1>6. ASSUME NEW c \in Cmd, MessageQueued(c) PROVE TypeInv'
  <2>1. NoEvs \in [Conn -> Int]
    BY DEF NoEvs
  <2>2. /\ mem' \in [Cmd -> {"unused", "live", "freed"}]
        /\ allocated' \in Int
        /\ evref' \in [Conn -> Int]
    BY <1>6, <2>1, SettleType DEF MessageQueued
  <2>3. refcnt' \in [Cmd -> Int]
    BY <1>6 DEF MessageQueued, TypeOK
  <2>4. held' \in [Stages -> SUBSET Cmd] /\ held'["resolve"] = held["resolve"]
    BY <1>6 DEF MessageQueued, TypeOK, Stages
  <2>5. TypeOK'
    BY <1>6, <2>2, <2>3, <2>4 DEF MessageQueued, Ended, TypeOK, flagVars
  <2>6. Waiting'
    BY <1>6, <2>4 DEF MessageQueued, Waiting
  <2> QED
    BY <2>5, <2>6
<1>7. ASSUME NEW c \in Cmd, MessageSettled(c) PROVE TypeInv'
  BY <1>7, CompleteType DEF MessageSettled, Stages
<1>8. ASSUME NEW c \in Cmd, TimerFires(c) PROVE TypeInv'
  BY <1>8, CompleteType DEF TimerFires, Stages
<1>9. ASSUME NEW c \in Cmd, HistorySlice(c) PROVE TypeInv'
  <2>1. CASE Complete("history", {c}) /\ UNCHANGED left
    BY <2>1, CompleteType DEF Stages
  <2>2. CASE \E n \in 1 .. (left[c] - 1) :
               /\ left' = [left EXCEPT ![c] = @ - n]
               /\ UNCHANGED <<mem, kind, peers, ev, refcnt, held, done, allocated,
                              flagVars, connVars, status>>
    <3>1. left' \in [Cmd -> Int]
      BY <2>2 DEF TypeOK
    <3>2. TypeOK'
      BY <2>2, <3>1 DEF TypeOK, flagVars, connVars
    <3> QED
      BY <2>2, <3>2 DEF Waiting
  <2> QED
    BY <1>9, <2>1, <2>2 DEF HistorySlice
<1>10. ASSUME NEW f \in File, FileSettled(f) PROVE TypeInv'
  <2>1. PICK S \in SUBSET held[f] : Complete(f, S)
    BY <1>10 DEF FileSettled
  <2>2. f \in Stages /\ S \in SUBSET Cmd
    BY DEF Stages, TypeOK
  <2> QED
    BY <1>10, <2>1, <2>2, CompleteType DEF FileSettled
<1>11. ASSUME NEW c \in Cmd, ResolveFailed(c) PROVE TypeInv'
  BY <1>11, CompleteType DEF ResolveFailed, Stages
<1>12. ASSUME NEW c \in Cmd, Resolved(c) PROVE TypeInv'
  <2>1. c \in held["resolve"] /\ peers[c] \in 1 .. MaxResolves
    BY <1>12 DEF Resolved, Waiting, TypeOK
  <2>2. PICK k \in {kind[c], "bad"} :
          Interpret(c, k, IF k = "bad" THEN 0 ELSE peers[c] - 1, ev[c], refcnt[c], {}, 0)
    BY <1>12 DEF Resolved
  <2> DEFINE p == IF k = "bad" THEN 0 ELSE peers[c] - 1
  <2>3. k \in LineKinds /\ p \in Nat /\ ev[c] \in Conn \cup {NoConn} /\ refcnt[c] \in Int
    BY <2>1 DEF TypeOK, LineKinds, PlainLines
  <2>4. peers' \in [Cmd -> 0 .. MaxResolves]
    BY <1>12, <2>1, ConstantsAssumption DEF Resolved, TypeOK
  <2>5. TypeOK'
    BY <1>12, <2>2, <2>3, <2>4, InterpretType DEF Resolved, TypeOK
  <2>6. /\ c \in held'["resolve"] => p > 0
        /\ held'["resolve"] \ {c} = held["resolve"] \ {c}
    BY <2>2, <2>3, InterpretWaits
  <2>7. Waiting'
    <3> SUFFICES ASSUME NEW d \in held'["resolve"]
                 PROVE  TakesPeer(kind'[d]) /\ peers'[d] >= 1
      BY DEF Waiting
    <3>1. d \in Cmd
      BY <2>5 DEF TypeOK, Stages
    <3>2. CASE d = c
      BY <1>12, <2>1, <2>6, <3>2 DEF Resolved, TypeOK, Waiting
    <3>3. CASE d # c
      BY <1>12, <2>6, <3>1, <3>3 DEF Resolved, TypeOK, Waiting
    <3> QED
      BY <3>2, <3>3
  <2> QED
    BY <2>5, <2>7
<1>13. ASSUME NEW e \in Conn, Accept(e) PROVE TypeInv'
  BY <1>13 DEF Accept, TypeOK, Waiting, cmdVars, flagVars
<1>14. ASSUME NEW e \in Conn, Close(e) PROVE TypeInv'
  BY <1>14 DEF Close, TypeOK, Waiting, cmdVars, flagVars
<1>15. ASSUME ConsoleEof \/ SecretPeer PROVE TypeInv'
  BY <1>15 DEF ConsoleEof, SecretPeer, TypeOK, Waiting, cmdVars, flagVars, connVars
<1>16. ASSUME StartScript PROVE TypeInv'
  BY <1>16, ConstantsAssumption DEF StartScript, TypeOK, Waiting, cmdVars, connVars
<1>17. ASSUME UNCHANGED vars PROVE TypeInv'
  BY <1>17 DEF vars, cmdVars, flagVars, connVars, TypeOK, Waiting
<1> QED
  BY <1>1, <1>2, <1>3, <1>4, <1>5, <1>6, <1>7, <1>8, <1>9, <1>10, <1>11, <1>12,
     <1>13, <1>14, <1>15, <1>16, <1>17 DEF Next

(* TypeInv at the start. *)
LEMMA TypeInit == Init => TypeInv
<1> SUFFICES ASSUME Init PROVE TypeInv
  OBVIOUS
<1> USE ConstantsAssumption DEF Init
<1>1. /\ mem \in [Cmd -> {"unused", "live", "freed"}]
      /\ kind \in [Cmd -> LineKinds]
      /\ peers \in [Cmd -> 0 .. MaxResolves]
      /\ ev \in [Cmd -> Conn \cup {NoConn}]
  BY DEF LineKinds, PlainLines
<1>2. /\ refcnt \in [Cmd -> Int]
      /\ held \in [Stages -> SUBSET Cmd]
      /\ left \in [Cmd -> Int]
      /\ done \in [Cmd -> Nat]
  OBVIOUS
<1>3. /\ script \in 0 .. ScriptLength
      /\ conn \in [Conn -> {"none", "open", "closed"}]
      /\ evref \in [Conn -> Int]
  OBVIOUS
<1>4. Waiting
  BY DEF Waiting, Stages
<1>5. /\ allocated \in Int
      /\ notify \in Conn \cup {NoConn}
  OBVIOUS
<1>6. /\ safe_quit \in BOOLEAN /\ chat_mode \in BOOLEAN /\ started \in BOOLEAN
      /\ status \in {"running", "safe_quit", "quit", "fault"}
  BY Zenon
<1> HIDE DEF Init
<1> QED
  BY <1>1, <1>2, <1>3, <1>4, <1>5, <1>6 DEF TypeInv, TypeOK

(* Every variable keeps its type in every behaviour. *)
THEOREM TypeCorrect == Spec => []TypeOK
<1>1. Spec => []TypeInv
  BY TypeInit, TypeStep, PTL DEF Spec
<1>2. TypeInv => TypeOK
  BY DEF TypeInv
<1> QED
  BY <1>1, <1>2, PTL

-----------------------------------------------------------------------------
(***************************************************************************)
(* Reference counts.                                                       *)
(***************************************************************************)

(* The lines whose code keeps the discipline of reference counts: all but  *)
(* a refused JSON line and "/history" in chat mode, which drop a reference *)
(* they never took or keep a pointer without one (see the README).         *)
Disciplined ==
    /\ "chat_history" \notin ConsoleLines
    /\ "json_bad" \notin ConsoleLines \cup SocketLines \cup ScriptLines

CountInv == TypeInv /\ OneHolder

(* Where a command is after its line was interpreted: with one stage, or   *)
(* nowhere, completed and freed.                                           *)
AtRest(c, silent) ==
    \/ /\ mem[c] = "live" /\ refcnt[c] = 1 /\ done[c] = 0 /\ ~silent
       /\ \E s \in Stages : \A t \in Stages : c \in held[t] <=> t = s
    \/ /\ mem[c] = "freed" /\ refcnt[c] = 0
       /\ done[c] = IF silent THEN 0 ELSE 1
       /\ \A t \in Stages : c \notin held[t]

(* The variables OneHolder speaks of do not change for d. *)
SameCounts(d) ==
    /\ mem'[d] = mem[d] /\ refcnt'[d] = refcnt[d] /\ done'[d] = done[d]
    /\ \A t \in Stages : d \in held'[t] <=> d \in held[t]

(* A command interpreted with one reference, new or resumed, is at rest    *)
(* afterwards, and no other command changes.                               *)
LEMMA InterpretCounts ==
  ASSUME TypeOK, OneHolder, NEW c \in Cmd,
         NEW k \in LineKinds \ {"chat_history", "json_bad"}, NEW p \in Nat,
         NEW e \in Conn \cup {NoConn}, NEW new \in SUBSET {c}, NEW added \in {0, 1},
         mem[c] = "live" \/ c \in new, done[c] = 0, p > 0 => TakesPeer(k),
         Interpret(c, k, p, e, 1, new, added)
  PROVE  /\ AtRest(c, k \in Silent)'
         /\ \A d \in Cmd \ {c} : SameCounts(d)
<1>1. PICK place \in Places(k, p) : \E n \in HistoryLimits(k, place) :
          InterpretInto(c, k, e, 1, new, added, place, n)
  BY DEF Interpret
<1>2. PICK n \in HistoryLimits(k, place) :
          InterpretInto(c, k, e, 1, new, added, place, n)
  BY <1>1
<1>3. /\ refcnt' = [refcnt EXCEPT ![c] = 1 + Taken(k) - Dropped(k, place) - 1]
      /\ held' = [s \in Stages |-> IF s = place THEN held[s] \cup {c} ELSE held[s] \ {c}]
      /\ done' = [done EXCEPT ![c] = @ + Dropped(k, place)]
      /\ mem' = [d \in Cmd |-> IF d \in Freed(new) THEN "freed"
                               ELSE IF d \in new THEN "live" ELSE mem[d]]
  BY <1>2 DEF InterpretInto, Settle
<1>4. place \in Stages \cup {Done} /\ (k \in Silent => place = Done)
  BY DEF Places, Requests, Messages, Stages, Silent, TakesPeer
<1>5. Done \notin Stages
  BY ConstantsAssumption DEF Stages, Done
<1>6. \A d \in Cmd \ {c} : SameCounts(d)
  <2> SUFFICES ASSUME NEW d \in Cmd \ {c} PROVE SameCounts(d)
    OBVIOUS
  <2>1. refcnt'[d] = refcnt[d] /\ done'[d] = done[d]
    BY <1>3 DEF TypeOK
  <2>2. \A t \in Stages : d \in held'[t] <=> d \in held[t]
    BY <1>3
  <2>3. d \notin Freed(new)
    BY <2>1 DEF Freed, Live, OneHolder
  <2>4. mem'[d] = mem[d]
    BY <1>3, <2>3
  <2> QED
    BY <2>1, <2>2, <2>4 DEF SameCounts
<1>7. CASE place = Done
  <2>1. refcnt'[c] = 0
    BY <1>3, <1>7 DEF TypeOK, Taken, Dropped, Silent
  <2>2. done'[c] = IF k \in Silent THEN 0 ELSE 1
    BY <1>3, <1>7 DEF TypeOK, Dropped
  <2>3. \A t \in Stages : c \notin held'[t]
    BY <1>3, <1>5, <1>7
  <2>4. mem'[c] = "freed"
    BY <1>3, <2>1 DEF Freed, Live
  <2>5. AtRest(c, k \in Silent)'
    BY <2>1, <2>2, <2>3, <2>4 DEF AtRest
  <2> QED
    BY <1>6, <2>5
<1>8. CASE place # Done
  <2>1. refcnt'[c] = 1
    BY <1>3, <1>4, <1>8 DEF TypeOK, Taken, Dropped, Silent
  <2>2. done'[c] = 0
    BY <1>3, <1>8 DEF TypeOK, Dropped
  <2>3. place \in Stages /\ \A t \in Stages : c \in held'[t] <=> t = place
    BY <1>3, <1>4, <1>8
  <2>4. mem'[c] = "live"
    BY <1>3, <2>1 DEF Freed, Live
  <2>5. AtRest(c, k \in Silent)'
    BY <1>4, <1>8, <2>1, <2>2, <2>3, <2>4 DEF AtRest
  <2> QED
    BY <1>6, <2>5
<1> QED
  BY <1>7, <1>8

(* Only the text of a chat is left without a holder. *)
LostLeaks == \A c \in held["lost"] : kind[c] \in Leaking

(* Interpreting a line loses no other command, and its own only for a text.*)
LEMMA LostOnly ==
  ASSUME NEW c \in Cmd, NEW k, NEW p, NEW e, NEW refs, NEW new, NEW added,
         Interpret(c, k, p, e, refs, new, added), NEW d \in held'["lost"]
  PROVE  (d = c /\ k \in Leaking) \/ (d # c /\ d \in held["lost"])
<1>1. PICK place \in Places(k, p) :
        held' = [s \in Stages |-> IF s = place THEN held[s] \cup {c} ELSE held[s] \ {c}]
  BY DEF Interpret, InterpretInto
<1>2. "lost" \in Stages
  BY DEF Stages
<1>3. place = "lost" => k \in Leaking
  BY ConstantsAssumption DEF Places, Requests, Messages, Done, Leaking
<1> QED
  BY <1>1, <1>2, <1>3

(* What an interpreted line leaves is again one holder for each command.   *)
LEMMA RestHolds ==
  ASSUME TypeOK, OneHolder, NEW c \in Cmd, NEW silent \in BOOLEAN, AtRest(c, silent)',
         silent <=> kind'[c] \in Silent,
         \A d \in Cmd \ {c} : SameCounts(d) /\ kind'[d] = kind[d]
  PROVE  OneHolder'
<1> SUFFICES ASSUME NEW d \in Cmd
             PROVE  /\ mem'[d] = "live" =>
                         /\ refcnt'[d] = 1 /\ done'[d] = 0 /\ kind'[d] \notin Silent
                         /\ \E s \in Stages : \A t \in Stages : d \in held'[t] <=> t = s
                    /\ mem'[d] # "live" => refcnt'[d] = 0 /\ \A t \in Stages : d \notin held'[t]
                    /\ mem'[d] = "unused" => done'[d] = 0
                    /\ mem'[d] = "freed" => done'[d] = IF kind'[d] \in Silent THEN 0 ELSE 1
  BY DEF OneHolder
<1>1. CASE d = c
  BY <1>1 DEF AtRest
<1>2. CASE d # c
  BY <1>2 DEF SameCounts, OneHolder
<1> QED
  BY <1>1, <1>2

(* A new line of a disciplined kind. *)
LEMMA NewCommandCounts ==
  ASSUME TypeInv, OneHolder, NEW c \in Cmd,
         NEW k \in LineKinds \ {"chat_history", "json_bad"},
         NEW e \in Conn \cup {NoConn}, NewCommand(c, k, e)
  PROVE  OneHolder'
<1>1. PICK p \in PeerCounts(k) : Interpret(c, k, p, e, 1, {c}, Added(e))
  BY DEF NewCommand
<1>2. p \in Nat /\ (p > 0 => TakesPeer(k)) /\ Added(e) \in {0, 1}
  BY ConstantsAssumption DEF PeerCounts, Added
<1>3. mem[c] = "unused" /\ kind' = [kind EXCEPT ![c] = k] /\ done[c] = 0
  BY DEF NewCommand, OneHolder
<1>4. /\ AtRest(c, k \in Silent)'
      /\ \A d \in Cmd \ {c} : SameCounts(d)
  <2>1. TypeOK /\ {c} \in SUBSET {c} /\ c \in {c}
    BY DEF TypeInv
  <2> QED
    BY <1>1, <1>2, <1>3, <2>1, InterpretCounts
<1>5. kind'[c] = k /\ \A d \in Cmd \ {c} : kind'[d] = kind[d]
  BY <1>3 DEF TypeInv, TypeOK
<1>6. CASE k \in Silent
  <2>1. AtRest(c, TRUE)'
    BY <1>4, <1>6 DEF AtRest
  <2> QED
    BY <1>4, <1>5, <1>6, <2>1, RestHolds DEF TypeInv
<1>7. CASE k \notin Silent
  <2>1. AtRest(c, FALSE)'
    BY <1>4, <1>7 DEF AtRest
  <2> QED
    BY <1>4, <1>5, <1>7, <2>1, RestHolds DEF TypeInv
<1> QED
  BY <1>6, <1>7

(* A callback that completes the commands in S, all of which stage s held, *)
(* frees exactly these and keeps one holder for each of the others.        *)
LEMMA CompleteCounts ==
  ASSUME TypeInv, OneHolder, NEW s \in Stages, NEW S \in SUBSET Cmd,
         S \subseteq held[s], Complete(s, S)
  PROVE  OneHolder'
<1> SUFFICES ASSUME NEW d \in Cmd
             PROVE  /\ mem'[d] = "live" =>
                         /\ refcnt'[d] = 1 /\ done'[d] = 0 /\ kind'[d] \notin Silent
                         /\ \E r \in Stages : \A t \in Stages : d \in held'[t] <=> t = r
                    /\ mem'[d] # "live" => refcnt'[d] = 0 /\ \A t \in Stages : d \notin held'[t]
                    /\ mem'[d] = "unused" => done'[d] = 0
                    /\ mem'[d] = "freed" => done'[d] = IF kind'[d] \in Silent THEN 0 ELSE 1
  BY DEF OneHolder
<1>1. /\ refcnt' = [c \in Cmd |-> IF c \in S THEN refcnt[c] - 1 ELSE refcnt[c]]
      /\ done' = [c \in Cmd |-> IF c \in S THEN done[c] + 1 ELSE done[c]]
      /\ held' = [held EXCEPT ![s] = @ \ S]
      /\ kind' = kind
      /\ mem' = [c \in Cmd |-> IF c \in Freed({}) THEN "freed" ELSE mem[c]]
  BY DEF Complete, Settle
<1>2. /\ held' \in [Stages -> SUBSET Cmd]
      /\ \A t \in Stages : held'[t] = IF t = s THEN held[s] \ S ELSE held[t]
  BY <1>1 DEF TypeInv, TypeOK
<1>3. CASE d \in S
  <2>1. mem[d] = "live" /\ kind[d] \notin Silent
    BY <1>3 DEF OneHolder
  <2>2. refcnt'[d] = 0 /\ done'[d] = 1
    BY <1>1, <1>3, <2>1 DEF OneHolder
  <2>3. mem'[d] = "freed"
    BY <1>1, <2>1, <2>2 DEF Freed, Live
  <2>4. \A t \in Stages : d \notin held'[t]
    BY <1>2, <1>3, <2>1 DEF OneHolder
  <2> QED
    BY <1>1, <1>3, <2>1, <2>2, <2>3, <2>4
<1>4. CASE d \notin S
  <2>1. refcnt'[d] = refcnt[d] /\ done'[d] = done[d]
    BY <1>1, <1>4
  <2>2. mem'[d] = mem[d]
    BY <1>1, <2>1 DEF Freed, Live, OneHolder
  <2>3. \A t \in Stages : d \in held'[t] <=> d \in held[t]
    BY <1>2, <1>4
  <2> QED
    BY <1>1, <2>1, <2>2, <2>3 DEF OneHolder
<1> QED
  BY <1>3, <1>4

(* Every step of disciplined input keeps one holder for each command. *)
LEMMA CountStep ==
  ASSUME Disciplined PROVE CountInv /\ [Next]_vars => OneHolder'
<1> SUFFICES ASSUME CountInv, [Next]_vars PROVE OneHolder'
  OBVIOUS
<1> USE DEF CountInv
<1>1. ASSUME NEW c \in Cmd, ReadConsole(c) PROVE OneHolder'
  <2>1. PICK k \in LineKinds \ {"chat_history", "json_bad"} : NewCommand(c, k, NoConn)
    BY <1>1 DEF ReadConsole, LineKinds, Disciplined
  <2> QED
    BY <2>1, NewCommandCounts
<1>2. ASSUME NEW c \in Cmd, NEW e \in Conn, ReadSocket(c, e) PROVE OneHolder'
  <2>1. PICK k \in LineKinds \ {"chat_history", "json_bad"} : NewCommand(c, k, e)
    BY <1>2, ConstantsAssumption DEF ReadSocket, LineKinds, PlainLines, JsonLines, Disciplined
  <2> QED
    BY <2>1, NewCommandCounts
<1>3. ASSUME NEW c \in Cmd, ScriptLine(c) PROVE OneHolder'
  <2>1. PICK k \in LineKinds \ {"chat_history", "json_bad"} : NewCommand(c, k, NoConn)
    BY <1>3, ConstantsAssumption DEF ScriptLine, LineKinds, PlainLines, JsonLines, Disciplined
  <2> QED
    BY <2>1, NewCommandCounts
<1>4. ASSUME NEW c \in Cmd, LuaQuery(c) PROVE OneHolder'
  <2>1. /\ mem[c] = "unused" /\ done' = done
        /\ kind' = [kind EXCEPT ![c] = "query"]
        /\ refcnt' = [refcnt EXCEPT ![c] = 1]
        /\ held' = [held EXCEPT !["query"] = @ \cup {c}]
        /\ mem' = [d \in Cmd |-> IF d \in Freed({c}) THEN "freed"
                                 ELSE IF d \in {c} THEN "live" ELSE mem[d]]
    BY <1>4 DEF LuaQuery, Settle
  <2>2. refcnt'[c] = 1 /\ \A d \in Cmd \ {c} : refcnt'[d] = refcnt[d]
    BY <2>1 DEF TypeInv, TypeOK
  <2>3. Freed({c}) = {}
    BY <2>2 DEF Freed, Live, OneHolder
  <2>4. "query" \in Stages /\ kind'[c] = "query"
    BY <2>1 DEF Stages, TypeInv, TypeOK
  <2>5. \A t \in Stages : c \in held'[t] <=> t = "query"
    BY <2>1, <2>4 DEF TypeInv, TypeOK, OneHolder
  <2>6. AtRest(c, FALSE)'
    BY <2>1, <2>2, <2>3, <2>4, <2>5 DEF AtRest, OneHolder
  <2>7. \A d \in Cmd \ {c} : SameCounts(d) /\ kind'[d] = kind[d]
    BY <2>1, <2>2, <2>3, <2>4 DEF SameCounts, TypeInv, TypeOK
  <2>8. kind'[c] \notin Silent
    BY <2>4 DEF Silent
  <2> QED
    BY <2>6, <2>7, <2>8, RestHolds DEF TypeInv
<1>5. ASSUME NEW c \in Cmd, Reply(c) PROVE OneHolder'
  BY <1>5, CompleteCounts DEF Reply, Stages
<1>6. ASSUME NEW c \in Cmd, MessageQueued(c) PROVE OneHolder'
  <2>1. /\ c \in held["query"] /\ done' = done /\ kind' = kind
        /\ refcnt' = [refcnt EXCEPT ![c] = @ + 1 - 1]
        /\ held' = [held EXCEPT !["query"] = @ \ {c}, !["pending"] = @ \cup {c}]
        /\ mem' = [d \in Cmd |-> IF d \in Freed({}) THEN "freed" ELSE mem[d]]
    BY <1>6 DEF MessageQueued, Settle
  <2>2. refcnt' = refcnt
    BY <2>1 DEF TypeInv, TypeOK
  <2>3. Freed({}) = {}
    BY <2>2 DEF Freed, Live, OneHolder
  <2>4. "query" \in Stages /\ "pending" \in Stages
    BY DEF Stages
  <2>5. mem[c] = "live" /\ \A t \in Stages : c \in held[t] <=> t = "query"
    BY <2>1, <2>4 DEF OneHolder
  <2>6. \A t \in Stages : c \in held'[t] <=> t = "pending"
    BY <2>1, <2>4, <2>5 DEF TypeInv, TypeOK
  <2>7. \A d \in Cmd \ {c} : SameCounts(d) /\ kind'[d] = kind[d]
    BY <2>1, <2>2, <2>3, <2>4 DEF SameCounts, TypeInv, TypeOK
  <2>8. AtRest(c, FALSE)' /\ kind'[c] \notin Silent
    BY <2>1, <2>2, <2>3, <2>4, <2>5, <2>6 DEF AtRest, OneHolder
  <2> QED
    BY <2>7, <2>8, RestHolds DEF TypeInv
<1>7. ASSUME NEW c \in Cmd, MessageSettled(c) PROVE OneHolder'
  BY <1>7, CompleteCounts DEF MessageSettled, Stages
<1>8. ASSUME NEW c \in Cmd, TimerFires(c) PROVE OneHolder'
  BY <1>8, CompleteCounts DEF TimerFires, Stages
<1>9. ASSUME NEW c \in Cmd, HistorySlice(c) PROVE OneHolder'
  <2>1. CASE Complete("history", {c})
    BY <1>9, <2>1, CompleteCounts DEF HistorySlice, Stages
  <2>2. CASE UNCHANGED <<mem, kind, peers, ev, refcnt, held, done, allocated,
                         flagVars, connVars, status>>
    BY <2>2 DEF OneHolder
  <2> QED
    BY <1>9, <2>1, <2>2 DEF HistorySlice
<1>10. ASSUME NEW f \in File, FileSettled(f) PROVE OneHolder'
  <2>1. PICK S \in SUBSET held[f] : Complete(f, S)
    BY <1>10 DEF FileSettled
  <2>2. f \in Stages /\ S \in SUBSET Cmd
    BY DEF Stages, TypeInv, TypeOK
  <2> QED
    BY <2>1, <2>2, CompleteCounts
<1>11. ASSUME NEW c \in Cmd, ResolveFailed(c) PROVE OneHolder'
  BY <1>11, CompleteCounts DEF ResolveFailed, Stages
<1>12. ASSUME NEW c \in Cmd, Resolved(c) PROVE OneHolder'
  <2>1. /\ c \in held["resolve"] /\ peers[c] \in 1 .. MaxResolves
        /\ TakesPeer(kind[c]) /\ kind' = kind
    BY <1>12 DEF Resolved, TypeInv, Waiting, TypeOK
  <2>2. PICK k \in {kind[c], "bad"} :
          Interpret(c, k, IF k = "bad" THEN 0 ELSE peers[c] - 1, ev[c], refcnt[c], {}, 0)
    BY <1>12 DEF Resolved
  <2> DEFINE p == IF k = "bad" THEN 0 ELSE peers[c] - 1
  <2>3. mem[c] = "live" /\ refcnt[c] = 1 /\ done[c] = 0 /\ kind[c] \notin Silent
    BY <2>1 DEF OneHolder, Stages
  <2>4. /\ k \in LineKinds \ {"chat_history", "json_bad"} /\ k \notin Silent
        /\ p \in Nat /\ (p > 0 => TakesPeer(k))
    BY <2>1 DEF TakesPeer, LineKinds, PlainLines, Silent
  <2>5. TypeOK /\ {} \in SUBSET {c} /\ ev[c] \in Conn \cup {NoConn}
    BY DEF TypeInv, TypeOK
  <2>6. Interpret(c, k, p, ev[c], 1, {}, 0)
    BY <2>2, <2>3
  <2> HIDE DEF p
  <2>7. /\ AtRest(c, k \in Silent)'
        /\ \A d \in Cmd \ {c} : SameCounts(d)
    BY <2>3, <2>4, <2>5, <2>6, InterpretCounts
  <2>8. AtRest(c, FALSE)'
    BY <2>4, <2>7 DEF AtRest
  <2> QED
    BY <2>1, <2>3, <2>5, <2>7, <2>8, RestHolds
<1>13. ASSUME NEW e \in Conn, Accept(e) PROVE OneHolder'
  BY <1>13 DEF Accept, OneHolder, cmdVars
<1>14. ASSUME NEW e \in Conn, Close(e) PROVE OneHolder'
  BY <1>14 DEF Close, OneHolder, cmdVars
<1>15. ASSUME ConsoleEof \/ SecretPeer PROVE OneHolder'
  BY <1>15 DEF ConsoleEof, SecretPeer, OneHolder, cmdVars
<1>16. ASSUME StartScript PROVE OneHolder'
  BY <1>16 DEF StartScript, OneHolder, cmdVars
<1>17. ASSUME UNCHANGED vars PROVE OneHolder'
  BY <1>17 DEF vars, cmdVars, OneHolder
<1> QED
  BY <1>1, <1>2, <1>3, <1>4, <1>5, <1>6, <1>7, <1>8, <1>9, <1>10, <1>11, <1>12,
     <1>13, <1>14, <1>15, <1>16, <1>17 DEF Next

(* The inductive invariant of the reference counts. *)
LEMMA CountInvariant == ASSUME Disciplined PROVE Spec => []CountInv
<1>1. Init => CountInv
  <2>1. Init => OneHolder
    BY DEF Init, OneHolder
  <2> QED
    BY <2>1, TypeInit DEF CountInv
<1>2. CountInv /\ [Next]_vars => CountInv'
  BY CountStep, TypeStep DEF CountInv
<1> QED
  BY <1>1, <1>2, PTL DEF Spec

(* One holder means a count of one, none a count of zero: a command whose  *)
(* kind does not leak has not lost its holder.                             *)
LEMMA OneHolderExact == OneHolder /\ LostLeaks => RefcntExact
<1> SUFFICES ASSUME OneHolder, LostLeaks, NEW c \in Cmd, kind[c] \notin Leaking
             PROVE  refcnt[c] = Cardinality(Holders(c))
  BY DEF RefcntExact
<1>1. CASE mem[c] = "live"
  <2>1. PICK s \in Stages : \A t \in Stages : c \in held[t] <=> t = s
    BY <1>1 DEF OneHolder
  <2>2. s # "lost"
    BY <2>1 DEF LostLeaks
  <2>3. Holders(c) = {s}
    BY <2>1, <2>2 DEF Holders
  <2> QED
    BY <1>1, <2>3, FS_Singleton DEF OneHolder
<1>2. CASE mem[c] # "live"
  <2>1. Holders(c) = {}
    BY <1>2 DEF OneHolder, Holders
  <2> QED
    BY <1>2, <2>1, FS_EmptySet DEF OneHolder
<1> QED
  BY <1>1, <1>2

(* Every command is completed exactly once before it is freed. *)
THEOREM CompletionCorrect == ASSUME Disciplined PROVE Spec => []CompletedOnce
<1>1. CountInv => CompletedOnce
  <2> SUFFICES ASSUME CountInv, NEW c \in Cmd
               PROVE  /\ mem[c] = "live" => done[c] = 0
                      /\ mem[c] = "freed" /\ kind[c] \notin Silent => done[c] = 1
                      /\ done[c] <= 1
    BY DEF CompletedOnce
  <2>1. mem[c] \in {"unused", "live", "freed"}
    BY DEF CountInv, TypeInv, TypeOK
  <2> QED
    BY <2>1 DEF CountInv, OneHolder
<1> QED
  BY <1>1, CountInvariant, PTL

-----------------------------------------------------------------------------
(***************************************************************************)
(* allocated_commands and the end of a client that is quitting.  Nothing   *)
(* below depends on the discipline of reference counts: in_command_decref  *)
(* subtracts one for each block that it frees, however that came about.    *)
(***************************************************************************)

AllocInv == TypeInv /\ AllocatedCounts

(* The commands that a callback creates are new ones, it changes the       *)
(* connection of no other, and it counts those that have no connection.    *)
Counted(new, added) ==
    /\ \A d \in Cmd \ new : ev'[d] = ev[d]
    /\ \A d \in new : mem[d] = "unused"
    /\ Cardinality({d \in new : ev'[d] = NoConn}) = added

(* The size of a union of two sets that have nothing in common. *)
LEMMA DisjointUnion ==
  ASSUME NEW S, NEW T, IsFiniteSet(S), IsFiniteSet(T), S \cap T = {}
  PROVE  Cardinality(S \cup T) = Cardinality(S) + Cardinality(T)
<1>1. Cardinality(S \cup T) = Cardinality(S) + Cardinality(T) - Cardinality(S \cap T)
  BY FS_Union
<1>2. Cardinality(S \cap T) = 0
  BY FS_EmptySet
<1>3. Cardinality(S) \in Nat /\ Cardinality(T) \in Nat
  BY FS_CardinalityType
<1> QED
  BY <1>1, <1>2, <1>3

(* in_command_decref keeps the balance of allocated_commands. *)
LEMMA SettleAllocated ==
  ASSUME TypeOK, AllocatedCounts, NEW new \in SUBSET Cmd, NEW added \in {0, 1},
         NEW evs, Settle(new, added, evs), Counted(new, added)
  PROVE  AllocatedCounts'
<1> DEFINE A  == {c \in Live : ev[c] = NoConn}
           B  == {c \in Cmd : mem[c] = "freed" /\ ev[c] # NoConn}
           N  == {d \in new : ev'[d] = NoConn}
           F  == Freed(new)
           F0 == {d \in F : ev'[d] = NoConn}
           F1 == {d \in F : ev'[d] # NoConn}
<1>1. /\ allocated = Cardinality(A) - Cardinality(B)
      /\ allocated' = allocated + added - Cardinality(F)
      /\ Cardinality(N) = added
      /\ mem' = [d \in Cmd |-> IF d \in F THEN "freed" ELSE IF d \in new THEN "live" ELSE mem[d]]
  BY DEF AllocatedCounts, Settle, Counted
<1>2. F \subseteq Live \cup new /\ Live \cup new \subseteq Cmd
  BY DEF Freed, Live
<1>3. /\ IsFiniteSet(A) /\ IsFiniteSet(B) /\ IsFiniteSet(N) /\ IsFiniteSet(A \cup N)
      /\ IsFiniteSet(F0) /\ IsFiniteSet(F1)
      /\ Cardinality(A) \in Nat /\ Cardinality(B) \in Nat /\ Cardinality(N) \in Nat
      /\ Cardinality(F0) \in Nat /\ Cardinality(F1) \in Nat /\ Cardinality(A \cup N) \in Nat
  <2>1. /\ A \in SUBSET Cmd /\ B \in SUBSET Cmd /\ N \in SUBSET Cmd
        /\ F0 \in SUBSET Cmd /\ F1 \in SUBSET Cmd /\ (A \cup N) \in SUBSET Cmd
    BY <1>2 DEF Live
  <2> HIDE DEF A, B, N, F0, F1
  <2> QED
    BY <2>1, FiniteCmds
<1>4. {c \in Live : ev[c] = NoConn}' = (A \cup N) \ F
  BY <1>1, <1>2 DEF Live, Counted
<1>5. {c \in Cmd : mem[c] = "freed" /\ ev[c] # NoConn}' = B \cup F1
  BY <1>1, <1>2 DEF Live, Counted
<1>6. /\ A \cap N = {} /\ B \cap F1 = {} /\ F0 \cap F1 = {}
      /\ F = F0 \cup F1 /\ (A \cup N) \cap F = F0
  BY <1>2 DEF Live, Counted
<1> HIDE DEF A, B, N, F, F0, F1
<1>7. Cardinality(A \cup N) = Cardinality(A) + Cardinality(N)
  BY <1>3, <1>6, DisjointUnion
<1>8. Cardinality(B \cup F1) = Cardinality(B) + Cardinality(F1)
  BY <1>3, <1>6, DisjointUnion
<1>9. Cardinality(F) = Cardinality(F0) + Cardinality(F1)
  BY <1>3, <1>6, DisjointUnion
<1>10. Cardinality((A \cup N) \ F) = Cardinality(A \cup N) - Cardinality(F0)
  BY <1>3, <1>6, FS_Difference
<1>11. allocated' = Cardinality((A \cup N) \ F) - Cardinality(B \cup F1)
  BY <1>1, <1>3, <1>7, <1>8, <1>9, <1>10
<1> QED
  BY <1>4, <1>5, <1>11 DEF AllocatedCounts

(* How the three ways to enter in_command_decref count commands. *)
LEMMA NewCommandSettles ==
  ASSUME TypeOK, NEW c \in Cmd, NEW k, NEW e \in Conn \cup {NoConn}, NewCommand(c, k, e)
  PROVE  /\ Settle({c}, Added(e), HandlerEvs(k, e))
         /\ Counted({c}, Added(e))
         /\ ev' = [ev EXCEPT ![c] = e]
         /\ status' = "safe_quit" => Halts({c}, Added(e))
<1>1. /\ ev' = [ev EXCEPT ![c] = e] /\ mem[c] = "unused"
      /\ Settle({c}, Added(e), HandlerEvs(k, e))
      /\ status' = "safe_quit" => Halts({c}, Added(e))
  BY DEF NewCommand, Interpret, InterpretInto
<1>2. {d \in {c} : ev'[d] = NoConn} = IF e = NoConn THEN {c} ELSE {}
  BY <1>1 DEF TypeOK
<1>3. Cardinality({d \in {c} : ev'[d] = NoConn}) = Added(e)
  BY <1>2, FS_Singleton, FS_EmptySet DEF Added
<1> QED
  BY <1>1, <1>3 DEF Counted, TypeOK

(* A query made by a Lua script creates one command of no connection. *)
LEMMA LuaQuerySettles ==
  ASSUME TypeOK, NEW c \in Cmd, LuaQuery(c)
  PROVE  Settle({c}, 1, NoEvs) /\ Counted({c}, 1)
<1>1. Settle({c}, 1, NoEvs) /\ ev' = [ev EXCEPT ![c] = NoConn] /\ mem[c] = "unused"
  BY DEF LuaQuery
<1>2. {d \in {c} : ev'[d] = NoConn} = {c}
  BY <1>1 DEF TypeOK
<1> QED
  BY <1>1, <1>2, FS_Singleton DEF Counted, TypeOK

(* The callbacks that create no command. *)
Callback ==
    \/ \E c \in Cmd : Reply(c) \/ MessageQueued(c) \/ MessageSettled(c) \/ TimerFires(c)
                      \/ ResolveFailed(c) \/ Resolved(c)
                      \/ (\E s \in Stages : Complete(s, {c}))
    \/ \E f \in File : FileSettled(f)

(* A callback completes some commands, creates none and leaves every command's connection as
   it was. *)
LEMMA CallbackSettles ==
  ASSUME TypeOK, Callback
  PROVE  \E evs : /\ Settle({}, 0, evs) /\ Counted({}, 0) /\ ev' = ev
                  /\ status' = "safe_quit" => Halts({}, 0)
<1>1. Cardinality({d \in {} : ev'[d] = NoConn}) = 0
  BY FS_EmptySet
<1>2. ev' = ev => Counted({}, 0)
  BY <1>1 DEF Counted
<1>3. ASSUME NEW s, NEW S, Complete(s, S) PROVE
        /\ Settle({}, 0, NoEvs) /\ ev' = ev
        /\ status' = "safe_quit" => Halts({}, 0)
  BY <1>3 DEF Complete, Ended
<1>4. ASSUME NEW c \in Cmd, MessageQueued(c) PROVE
        /\ Settle({}, 0, NoEvs) /\ ev' = ev
        /\ status' = "safe_quit" => Halts({}, 0)
  BY <1>4 DEF MessageQueued, Ended
<1>5. ASSUME NEW c \in Cmd, Resolved(c) PROVE
        \E evs : /\ Settle({}, 0, evs) /\ ev' = ev
                 /\ status' = "safe_quit" => Halts({}, 0)
  BY <1>5 DEF Resolved, Interpret, InterpretInto
<1> QED
  BY <1>2, <1>3, <1>4, <1>5
  DEF Callback, Reply, MessageSettled, TimerFires, ResolveFailed, FileSettled

(* The steps that neither create nor free a command. *)
Neutral ==
    \/ \E e \in Conn : Accept(e) \/ Close(e)
    \/ StartScript \/ ConsoleEof \/ SecretPeer \/ UNCHANGED vars
    \/ UNCHANGED <<mem, kind, peers, ev, refcnt, held, done, allocated,
                   flagVars, connVars, status>>

(* They allocate and free nothing, and cannot end the program except in a fault. *)
LEMMA NeutralStep ==
  ASSUME Neutral
  PROVE  /\ UNCHANGED <<mem, ev, allocated>>
         /\ status' \in {status, "fault"}
BY DEF Neutral, Accept, Close, StartScript, ConsoleEof, SecretPeer, vars, cmdVars, flagVars, connVars

(* Every step creates one command, completes some, or does neither. *)
LEMMA StepKinds ==
  ASSUME [Next]_vars
  PROVE  \/ \E c \in Cmd, k \in LineKinds : NewCommand(c, k, NoConn)
         \/ \E c \in Cmd, k \in SocketLines, e \in Conn : NewCommand(c, k, e)
         \/ \E c \in Cmd : LuaQuery(c)
         \/ Callback
         \/ Neutral
<1>1. ASSUME NEW c \in Cmd, ReadConsole(c)
      PROVE  \E k \in LineKinds : NewCommand(c, k, NoConn)
  BY <1>1 DEF ReadConsole, LineKinds
<1>2. ASSUME NEW c \in Cmd, ScriptLine(c)
      PROVE  \E k \in LineKinds : NewCommand(c, k, NoConn)
  BY <1>2, ConstantsAssumption DEF ScriptLine, LineKinds
<1>3. ASSUME NEW c \in Cmd, NEW e \in Conn, ReadSocket(c, e)
      PROVE  \E k \in SocketLines : NewCommand(c, k, e)
  BY <1>3 DEF ReadSocket
<1>4. ASSUME NEW c \in Cmd, HistorySlice(c) PROVE Callback \/ Neutral
  BY <1>4 DEF HistorySlice, Callback, Neutral, Stages
<1> QED
  BY <1>1, <1>2, <1>3, <1>4 DEF Next, Callback, Neutral

(* allocated_commands counts what AllocatedCounts says, in every client. *)
LEMMA AllocStep == AllocInv /\ [Next]_vars => AllocatedCounts'
<1> SUFFICES ASSUME AllocInv, [Next]_vars PROVE AllocatedCounts'
  OBVIOUS
<1> USE DEF AllocInv, TypeInv
<1>1. ASSUME NEW c \in Cmd, NEW k, NEW e \in Conn \cup {NoConn}, NewCommand(c, k, e)
      PROVE  AllocatedCounts'
  <2>1. {c} \in SUBSET Cmd /\ Added(e) \in {0, 1}
    BY DEF Added
  <2> QED
    BY <1>1, <2>1, NewCommandSettles, SettleAllocated
<1>2. ASSUME NEW c \in Cmd, LuaQuery(c) PROVE AllocatedCounts'
  <2>1. {c} \in SUBSET Cmd
    OBVIOUS
  <2> QED
    BY <1>2, <2>1, LuaQuerySettles, SettleAllocated
<1>3. CASE Callback
  <2>1. PICK evs : Settle({}, 0, evs) /\ Counted({}, 0)
    BY <1>3, CallbackSettles
  <2>2. {} \in SUBSET Cmd
    OBVIOUS
  <2> QED
    BY <2>1, <2>2, SettleAllocated
<1>4. CASE Neutral
  <2>1. UNCHANGED <<mem, ev, allocated>>
    BY <1>4, NeutralStep
  <2> QED
    BY <2>1 DEF AllocatedCounts, Live
<1> QED
  BY <1>1, <1>2, <1>3, <1>4, StepKinds

(* Nothing is allocated at the start. *)
LEMMA AllocInit == Init => AllocatedCounts
<1> SUFFICES ASSUME Init PROVE AllocatedCounts
  OBVIOUS
<1>1. {c \in Live : ev[c] = NoConn} = {} /\ {c \in Cmd : mem[c] = "freed" /\ ev[c] # NoConn} = {}
  BY DEF Init, Live
<1>2. allocated = 0
  BY DEF Init
<1> QED
  BY <1>1, <1>2, FS_EmptySet DEF AllocatedCounts

(* The counts of allocated objects hold in every state. *)
LEMMA AllocInvariant == Spec => []AllocInv
<1>1. Init => AllocInv
  BY TypeInit, AllocInit DEF AllocInv
<1>2. AllocInv /\ [Next]_vars => AllocInv'
  BY TypeStep, AllocStep DEF AllocInv
<1> QED
  BY <1>1, <1>2, PTL DEF Spec

(* allocated_commands is the number of commands in memory that came from   *)
(* elsewhere than a socket, less the socket's that were freed: the exact   *)
(* measure of what the missing increment in read_incoming costs.           *)
THEOREM AllocatedCorrect == Spec => []AllocatedCounts
<1>1. AllocInv => AllocatedCounts
  BY DEF AllocInv
<1> QED
  BY <1>1, AllocInvariant, PTL

-----------------------------------------------------------------------------
(* Nobody sends commands over a socket. *)
ConsoleOnly == SocketLines = {}

QuitInv ==
    /\ AllocInv
    /\ \A c \in Cmd : ev[c] = NoConn
    /\ QuitWaits

(* Without sockets the client halts only when it has freed its last        *)
(* command: everything in memory was counted, and the count reached zero.  *)
LEMMA HaltsEmpties ==
  ASSUME TypeOK, AllocatedCounts, NEW new \in SUBSET Cmd, NEW added \in {0, 1},
         NEW evs, Settle(new, added, evs), Counted(new, added), Halts(new, added),
         \A c \in Cmd : ev[c] = NoConn /\ ev'[c] = NoConn
  PROVE  Live' = {}
<1> DEFINE All == Live \cup new
           F   == Freed(new)
<1>1. {c \in Live : ev[c] = NoConn} = Live /\ {c \in Cmd : mem[c] = "freed" /\ ev[c] # NoConn} = {}
  BY DEF Live
<1>2. allocated = Cardinality(Live) /\ Cardinality(Live) \in Nat
  <2>1. allocated = Cardinality(Live) - 0
    BY <1>1, FS_EmptySet DEF AllocatedCounts
  <2>2. Live \in SUBSET Cmd
    BY DEF Live
  <2> QED
    BY <2>1, <2>2, FiniteCmds
<1>3. Cardinality(new) = added
  <2>1. {d \in new : ev'[d] = NoConn} = new
    OBVIOUS
  <2> QED
    BY <2>1 DEF Counted
<1>4. IsFiniteSet(Live) /\ IsFiniteSet(new) /\ IsFiniteSet(All)
  BY FiniteCmds DEF Live
<1>5. Live \cap new = {}
  BY DEF Live, Counted
<1>6. Cardinality(All) = allocated + added
  BY <1>2, <1>3, <1>4, <1>5, DisjointUnion
<1>7. allocated + added \in 1 .. Cardinality(F)
  BY DEF Halts
<1>8. F \in SUBSET All
  BY DEF Freed
<1>9. F = All
  <2>1. Cardinality(F) <= Cardinality(All) /\ Cardinality(F) \in Nat /\ Cardinality(All) \in Nat
    <3> HIDE DEF F, All
    <3> QED
      BY <1>4, <1>8, FS_Subset, FS_CardinalityType
  <2>2. Cardinality(F) = Cardinality(All)
    BY <1>2, <1>6, <1>7, <2>1
  <2> HIDE DEF F, All
  <2> QED
    BY <1>4, <1>8, <2>2, FS_Subset
<1>10. mem' = [d \in Cmd |-> IF d \in F THEN "freed" ELSE IF d \in new THEN "live" ELSE mem[d]]
  BY DEF Settle
<1> QED
  BY <1>9, <1>10 DEF Live

(* What quit and safe_quit lines may do to the modes of the program. *)
LEMMA QuitStep ==
  ASSUME ConsoleOnly PROVE QuitInv /\ [Next]_vars => QuitInv'
<1> SUFFICES ASSUME QuitInv, [Next]_vars PROVE QuitInv'
  OBVIOUS
<1>1. AllocInv'
  BY TypeStep, AllocStep DEF QuitInv, AllocInv
<1>2. TypeOK /\ TypeOK' /\ AllocatedCounts /\ \A c \in Cmd : ev[c] = NoConn
  BY <1>1 DEF QuitInv, AllocInv, TypeInv
<1>3. ASSUME NEW c \in Cmd, NEW k, NewCommand(c, k, NoConn) PROVE QuitInv'
  <2>1. /\ Settle({c}, Added(NoConn), HandlerEvs(k, NoConn)) /\ Counted({c}, Added(NoConn))
        /\ ev' = [ev EXCEPT ![c] = NoConn]
        /\ status' = "safe_quit" => Halts({c}, Added(NoConn))
    BY <1>2, <1>3, NewCommandSettles
  <2>2. {c} \in SUBSET Cmd /\ Added(NoConn) \in {0, 1} /\ \A d \in Cmd : ev'[d] = NoConn
    BY <1>2, <2>1 DEF Added, TypeOK
  <2>3. status' = "safe_quit" => Live' = {}
    BY <1>2, <2>1, <2>2, HaltsEmpties
  <2> QED
    BY <1>1, <2>2, <2>3 DEF QuitInv, QuitWaits
<1>4. ASSUME NEW c \in Cmd, LuaQuery(c) PROVE QuitInv'
  <2>1. status' = "running" /\ \A d \in Cmd : ev'[d] = NoConn
    BY <1>2, <1>4 DEF LuaQuery, Idle, TypeOK
  <2> QED
    BY <1>1, <2>1 DEF QuitInv, QuitWaits
<1>5. CASE Callback
  <2>1. PICK evs : /\ Settle({}, 0, evs) /\ Counted({}, 0) /\ ev' = ev
                   /\ status' = "safe_quit" => Halts({}, 0)
    BY <1>2, <1>5, CallbackSettles
  <2>2. {} \in SUBSET Cmd
    OBVIOUS
  <2>3. status' = "safe_quit" => Live' = {}
    BY <1>2, <2>1, <2>2, HaltsEmpties
  <2> QED
    BY <1>1, <1>2, <2>1, <2>3 DEF QuitInv, QuitWaits
<1>6. CASE Neutral
  <2>1. UNCHANGED <<mem, ev>> /\ status' \in {status, "fault"}
    BY <1>6, NeutralStep
  <2>2. QuitWaits'
    BY <2>1 DEF QuitInv, QuitWaits, Live
  <2> QED
    BY <1>1, <1>2, <2>1, <2>2 DEF QuitInv
<1> QED
  BY <1>3, <1>4, <1>5, <1>6, StepKinds DEF ConsoleOnly

(* "safe_quit ... Waits for all queries to end, then quits": in a client   *)
(* without socket commands it never quits with a command outstanding.      *)
THEOREM QuitCorrect == ASSUME ConsoleOnly PROVE Spec => []QuitWaits
<1>1. Init => QuitInv
  BY TypeInit, AllocInit DEF Init, QuitInv, AllocInv, QuitWaits
<1>2. QuitInv => QuitWaits
  BY DEF QuitInv
<1> QED
  BY <1>1, <1>2, QuitStep, PTL DEF Spec


-----------------------------------------------------------------------------
(***************************************************************************)
(* The references to a connection.                                         *)
(***************************************************************************)

(* Every step is one of these; HistoryGoesOn is a slice that asks for more.*)
HistoryGoesOn ==
    UNCHANGED <<mem, kind, peers, ev, refcnt, held, done, allocated, flagVars, connVars, status>>
Completion ==
    \E s \in Stages : \E S \in SUBSET Cmd :
       status = "running" /\ S # {} /\ S \subseteq held[s] /\ Complete(s, S)
ConsoleCommand(c, k) ==
    status = "running" /\ k \in ConsoleLines \cup ScriptLines /\ NewCommand(c, k, NoConn)
SocketCommand(c, k, e) ==
    status = "running" /\ k \in SocketLines /\ conn[e] = "open" /\ NewCommand(c, k, e)

(* Every step is one of a few kinds, by what it does to the open objects, the counts and the
   modes; the later proofs split on these. *)
LEMMA StepCases ==
  ASSUME TypeOK, [Next]_vars
  PROVE  \/ \E c \in Cmd, k \in LineKinds : ConsoleCommand(c, k)
         \/ \E c \in Cmd, k \in LineKinds, e \in Conn : SocketCommand(c, k, e)
         \/ \E c \in Cmd : LuaQuery(c) \/ MessageQueued(c) \/ Resolved(c)
         \/ Completion
         \/ \E e \in Conn : Accept(e) \/ Close(e)
         \/ ConsoleEof \/ SecretPeer \/ StartScript \/ HistoryGoesOn
<1>1. ASSUME NEW c \in Cmd, ReadConsole(c)
      PROVE  \E k \in LineKinds : ConsoleCommand(c, k)
  BY <1>1 DEF ReadConsole, LineKinds, Idle, ConsoleCommand
<1>2. ASSUME NEW c \in Cmd, ScriptLine(c)
      PROVE  \E k \in LineKinds : ConsoleCommand(c, k)
  BY <1>2, ConstantsAssumption DEF ScriptLine, LineKinds, ConsoleCommand
<1>3. ASSUME NEW c \in Cmd, NEW e \in Conn, ReadSocket(c, e)
      PROVE  \E k \in LineKinds : SocketCommand(c, k, e)
  BY <1>3, ConstantsAssumption DEF ReadSocket, LineKinds, Idle, SocketCommand
<1>4. ASSUME NEW c \in Cmd, NEW s \in Stages, c \in held[s], status = "running", Complete(s, {c})
      PROVE  Completion
  BY <1>4 DEF Completion
<1>5. ASSUME NEW c \in Cmd, Reply(c) \/ MessageSettled(c) \/ TimerFires(c) \/ ResolveFailed(c)
      PROVE  Completion
  BY <1>4, <1>5 DEF Reply, MessageSettled, TimerFires, ResolveFailed, Idle, Stages
<1>6. ASSUME NEW c \in Cmd, HistorySlice(c) PROVE Completion \/ HistoryGoesOn
  BY <1>4, <1>6 DEF HistorySlice, Idle, Stages, HistoryGoesOn
<1>7. ASSUME NEW f \in File, FileSettled(f) PROVE Completion
  BY <1>7 DEF FileSettled, Idle, Stages, TypeOK, Completion
<1>8. ASSUME UNCHANGED vars PROVE HistoryGoesOn
  BY <1>8 DEF vars, cmdVars, HistoryGoesOn
<1> QED
  BY <1>1, <1>2, <1>3, <1>5, <1>6, <1>7, <1>8 DEF Next

(* Every step loses no command but one of Leaking. *)
LEMMA LostStep == CountInv /\ LostLeaks /\ [Next]_vars => LostLeaks'
<1> SUFFICES ASSUME CountInv, LostLeaks, [Next]_vars, NEW d \in held'["lost"]
             PROVE  kind'[d] \in Leaking
  BY DEF LostLeaks
<1>0. TypeOK /\ OneHolder /\ TypeOK' /\ "lost" \in Stages
  BY TypeStep DEF CountInv, TypeInv, Stages
<1>a. d \in Cmd
  BY <1>0 DEF TypeOK
<1>b. ASSUME d \in held["lost"], kind'[d] = kind[d] PROVE kind'[d] \in Leaking
  BY <1>b DEF LostLeaks
<1>1. ASSUME NEW c \in Cmd, NEW k, NEW e, NewCommand(c, k, e) PROVE kind'[d] \in Leaking
  <2>1. PICK p \in PeerCounts(k) : Interpret(c, k, p, e, 1, {c}, Added(e))
    BY <1>1 DEF NewCommand
  <2>2. kind'[c] = k /\ (d # c => kind'[d] = kind[d])
    BY <1>0, <1>a, <1>1 DEF NewCommand, TypeOK
  <2> QED
    BY <1>a, <1>b, <2>1, <2>2, LostOnly
<1>2. ASSUME NEW c \in Cmd, LuaQuery(c) PROVE kind'[d] \in Leaking
  <2>1. held'["lost"] = held["lost"] /\ kind' = [kind EXCEPT ![c] = "query"] /\ mem[c] = "unused"
    BY <1>0, <1>2 DEF LuaQuery, TypeOK
  <2>2. d # c
    BY <1>0, <2>1 DEF OneHolder
  <2> QED
    BY <1>0, <1>a, <1>b, <2>1, <2>2 DEF TypeOK
<1>3. ASSUME NEW c \in Cmd, MessageQueued(c) PROVE kind'[d] \in Leaking
  BY <1>0, <1>b, <1>3 DEF MessageQueued, TypeOK
<1>4. ASSUME NEW c \in Cmd, Resolved(c) PROVE kind'[d] \in Leaking
  <2>1. PICK k \in {kind[c], "bad"} :
          Interpret(c, k, IF k = "bad" THEN 0 ELSE peers[c] - 1, ev[c], refcnt[c], {}, 0)
    BY <1>4 DEF Resolved
  <2>2. k \notin Leaking /\ kind' = kind
    BY <1>4, <2>1 DEF Resolved, CountInv, TypeInv, Waiting, TakesPeer, Leaking
  <2> QED
    BY <1>a, <1>b, <2>1, <2>2, LostOnly
<1>5. ASSUME Completion PROVE kind'[d] \in Leaking
  BY <1>0, <1>b, <1>5 DEF Completion, Complete, TypeOK
<1>6. ASSUME UNCHANGED <<held, kind>> PROVE kind'[d] \in Leaking
  BY <1>b, <1>6
<1>7. ASSUME NEW e \in Conn, Accept(e) \/ Close(e) PROVE UNCHANGED <<held, kind>>
  BY <1>7 DEF Accept, Close, cmdVars
<1>8. ASSUME ConsoleEof \/ SecretPeer \/ StartScript \/ HistoryGoesOn
      PROVE  UNCHANGED <<held, kind>>
  BY <1>8 DEF ConsoleEof, SecretPeer, StartScript, HistoryGoesOn, cmdVars
<1> QED
  BY <1>0, <1>1, <1>2, <1>3, <1>4, <1>5, <1>6, <1>7, <1>8, StepCases
  DEF ConsoleCommand, SocketCommand

(* Between callbacks the reference count of every command is the number of *)
(* requests, timers, trees and lists that point to it, so in_command_decref*)
(* frees it neither early nor never; texts typed in chat mode apart, which *)
(* interpreter_chat_mode never frees.                                      *)
THEOREM RefcntCorrect == ASSUME Disciplined PROVE Spec => []RefcntExact
<1>1. Init => LostLeaks
  BY DEF Init, LostLeaks, Stages
<1>2. CountInv /\ LostLeaks => RefcntExact
  BY OneHolderExact DEF CountInv
<1> QED
  BY <1>1, <1>2, LostStep, CountInvariant, PTL DEF Spec

(* Who has a reference to connection e, besides its commands. *)
Owners(e) == (IF conn[e] = "open" THEN 1 ELSE 0) + (IF notify = e THEN 1 ELSE 0)
Writers(e) == {c \in Live : ev[c] = e}

(* in_command_decref gives up one reference for each command it frees.     *)
LEMMA SettleEvRef ==
  ASSUME TypeOK, NEW new \in SUBSET Cmd, NEW added, NEW evs \in [Conn -> Int],
         Settle(new, added, evs), \A d \in Cmd \ new : ev'[d] = ev[d],
         \A d \in new : mem[d] = "unused", NEW e \in Conn,
         evref[e] = Owners(e) + Cardinality(Writers(e)),
         Owners(e)' = Owners(e) + evs[e]
  PROVE  evref'[e] = Owners(e)' + Cardinality(Writers(e))'
<1> DEFINE W == Writers(e)
           N == {d \in new : ev'[d] = e}
           F == {d \in Freed(new) : ev'[d] = e}
<1>1. /\ evref'[e] = evref[e] + evs[e] + Cardinality(N) - Cardinality(F)
      /\ mem' = [d \in Cmd |-> IF d \in Freed(new) THEN "freed"
                               ELSE IF d \in new THEN "live" ELSE mem[d]]
  BY DEF Settle
<1>2. Freed(new) \subseteq Live \cup new /\ Live \cup new \subseteq Cmd
  BY DEF Freed, Live
<1>3. Writers(e)' = (W \cup N) \ F
  BY <1>1, <1>2 DEF Writers, Live
<1>4. W \cap N = {} /\ (W \cup N) \cap F = F
  BY <1>2 DEF Writers, Live
<1>5. W \in SUBSET Cmd /\ N \in SUBSET Cmd /\ F \in SUBSET Cmd /\ W \cup N \in SUBSET Cmd
  BY <1>2 DEF Writers, Live
<1> HIDE DEF W, N, F
<1>6. /\ IsFiniteSet(W) /\ IsFiniteSet(N) /\ IsFiniteSet(F) /\ IsFiniteSet(W \cup N)
      /\ Cardinality(W) \in Nat /\ Cardinality(N) \in Nat /\ Cardinality(F) \in Nat
      /\ Cardinality(W \cup N) \in Nat
  BY <1>5, FiniteCmds
<1>7. Cardinality(W \cup N) = Cardinality(W) + Cardinality(N)
  BY <1>4, <1>6, DisjointUnion
<1>8. Cardinality((W \cup N) \ F) = Cardinality(W \cup N) - Cardinality(F)
  <2> DEFINE A == W \cup N
  <2>1. IsFiniteSet(A) /\ A \cap F = F
    BY <1>4, <1>6
  <2> HIDE DEF A
  <2>2. Cardinality(A \ F) = Cardinality(A) - Cardinality(A \cap F)
    BY <2>1, FS_Difference
  <2>3. Cardinality(A \ F) = Cardinality(A) - Cardinality(F)
    BY <2>1, <2>2
  <2> QED
    BY <2>3 DEF A
<1>9. Cardinality(Writers(e))' = Cardinality((W \cup N) \ F)
  BY <1>3
<1>10. Owners(e) \in Int /\ evs[e] \in Int /\ evref[e] = Owners(e) + Cardinality(W)
  BY DEF Owners, W
<1>11. evref'[e] = Owners(e) + evs[e] + Cardinality((W \cup N) \ F)
  BY <1>1, <1>6, <1>7, <1>8, <1>10
<1> QED
  BY <1>9, <1>11

(* What a handler does to a connection: it swaps notify_ev, or hangs up.   *)
LEMMA HandlerOwners ==
  ASSUME TypeOK, NEW k, NEW e \in Conn \cup {NoConn}, NEW x \in Conn,
         notify' = IF k = "main_session" THEN e ELSE notify,
         conn' = IF k = "safe_quit" /\ Daemonize /\ e # NoConn
                 THEN [conn EXCEPT ![e] = "closed"] ELSE conn,
         e # NoConn => conn[e] = "open"
  PROVE  Owners(x)' = Owners(x) + HandlerEvs(k, e)[x]
<1>1. e # NoConn <=> e \in Conn
  BY ConstantsAssumption
<1>2. conn \in [Conn -> {"none", "open", "closed"}] /\ x # NoConn
  BY ConstantsAssumption DEF TypeOK
<1>3. CASE k = "main_session"
  BY <1>2, <1>3 DEF Owners, HandlerEvs
<1>4. CASE k = "safe_quit"
  BY <1>1, <1>2, <1>4 DEF Owners, HandlerEvs
<1>5. CASE k \notin {"main_session", "safe_quit"}
  BY <1>5 DEF Owners, HandlerEvs
<1> QED
  BY <1>3, <1>4, <1>5

Balanced == \A e \in Conn : evref[e] = Owners(e) + Cardinality(Writers(e))

(* EvRefExact, written as a sum over the open objects. *)
LEMMA EvRefWritten == EvRefExact <=> Balanced
<1>1. ASSUME NEW e \in Conn
      PROVE  (IF conn[e] = "open" THEN 1 ELSE 0) + Cardinality(Writers(e))
               + (IF notify = e THEN 1 ELSE 0) = Owners(e) + Cardinality(Writers(e))
  <2>1. Writers(e) \in SUBSET Cmd
    BY DEF Writers, Live
  <2>2. Cardinality(Writers(e)) \in Nat
    BY <2>1, FiniteCmds
  <2> QED
    BY <2>2 DEF Owners
<1> QED
  BY <1>1 DEF EvRefExact, Writers, Balanced

(* Nothing refers to a connection before it was accepted. *)
Unopened ==
    \A e \in Conn : conn[e] = "none" => notify # e /\ \A c \in Cmd : ev[c] # e

EvInv == TypeInv /\ Balanced /\ Unopened

(* Every step keeps the balance of the references to each connection. *)
LEMMA EvStep == EvInv /\ [Next]_vars => Balanced'
<1> SUFFICES ASSUME EvInv, [Next]_vars, NEW x \in Conn
             PROVE  evref'[x] = Owners(x)' + Cardinality(Writers(x))'
  BY DEF Balanced
<1>0. TypeOK /\ \A e \in Conn : evref[e] = Owners(e) + Cardinality(Writers(e))
  BY DEF EvInv, TypeInv, Balanced
<1>1. ASSUME NEW c \in Cmd, NEW k, NEW e \in Conn \cup {NoConn}, NewCommand(c, k, e),
             e # NoConn => conn[e] = "open"
      PROVE  evref'[x] = Owners(x)' + Cardinality(Writers(x))'
  <2>1. Settle({c}, Added(e), HandlerEvs(k, e)) /\ Counted({c}, Added(e))
    BY <1>0, <1>1, NewCommandSettles
  <2>2. /\ notify' = IF k = "main_session" THEN e ELSE notify
        /\ conn' = IF k = "safe_quit" /\ Daemonize /\ e # NoConn
                   THEN [conn EXCEPT ![e] = "closed"] ELSE conn
    BY <1>1 DEF NewCommand, Interpret, InterpretInto
  <2>3. Owners(x)' = Owners(x) + HandlerEvs(k, e)[x]
    BY <1>0, <1>1, <2>2, HandlerOwners
  <2>4. HandlerEvs(k, e) \in [Conn -> Int] /\ {c} \in SUBSET Cmd
    BY DEF HandlerEvs
  <2> QED
    BY <1>0, <2>1, <2>3, <2>4, SettleEvRef DEF Counted
<1>2. ASSUME Settle({}, 0, NoEvs), UNCHANGED <<ev, conn, notify>>
      PROVE  evref'[x] = Owners(x)' + Cardinality(Writers(x))'
  <2>1. NoEvs \in [Conn -> Int] /\ NoEvs[x] = 0
    BY DEF NoEvs
  <2>2. Owners(x) \in Int
    BY DEF Owners
  <2>3. Owners(x)' = Owners(x) + NoEvs[x]
    BY <1>2, <2>1, <2>2 DEF Owners
  <2>4. {} \in SUBSET Cmd
    OBVIOUS
  <2> QED
    BY <1>0, <1>2, <2>1, <2>3, <2>4, SettleEvRef
<1>3. ASSUME NEW c \in Cmd, LuaQuery(c)
      PROVE  evref'[x] = Owners(x)' + Cardinality(Writers(x))'
  <2>1. Settle({c}, 1, NoEvs) /\ Counted({c}, 1) /\ UNCHANGED <<conn, notify>>
    BY <1>0, <1>3, LuaQuerySettles DEF LuaQuery
  <2>2. NoEvs \in [Conn -> Int] /\ NoEvs[x] = 0
    BY DEF NoEvs
  <2>3. Owners(x) \in Int
    BY DEF Owners
  <2>4. Owners(x)' = Owners(x) + NoEvs[x]
    BY <2>1, <2>2, <2>3 DEF Owners
  <2>5. {c} \in SUBSET Cmd
    OBVIOUS
  <2> QED
    BY <1>0, <2>1, <2>2, <2>4, <2>5, SettleEvRef DEF Counted
<1>4. ASSUME NEW c \in Cmd, MessageQueued(c)
      PROVE  evref'[x] = Owners(x)' + Cardinality(Writers(x))'
  BY <1>2, <1>4 DEF MessageQueued
<1>5. ASSUME Completion
      PROVE  evref'[x] = Owners(x)' + Cardinality(Writers(x))'
  BY <1>2, <1>5 DEF Completion, Complete
<1>6. ASSUME NEW c \in Cmd, Resolved(c)
      PROVE  evref'[x] = Owners(x)' + Cardinality(Writers(x))'
  <2>0. PICK k \in {kind[c], "bad"} : \E p :
          /\ Interpret(c, k, p, ev[c], refcnt[c], {}, 0)
          /\ ev' = ev
    BY <1>6 DEF Resolved
  <2>1. PICK p :
          /\ Interpret(c, k, p, ev[c], refcnt[c], {}, 0)
          /\ ev' = ev
    BY <2>0
  <2>2. k \notin {"main_session", "safe_quit"}
    BY <1>6, <2>0 DEF Resolved, EvInv, TypeInv, Waiting, TakesPeer
  <2>3. Settle({}, 0, HandlerEvs(k, ev[c])) /\ UNCHANGED <<conn, notify>>
    BY <2>1, <2>2 DEF Interpret, InterpretInto
  <2>4. HandlerEvs(k, ev[c]) = NoEvs
    BY <2>2 DEF HandlerEvs, NoEvs
  <2> QED
    BY <1>2, <2>1, <2>3, <2>4
<1>7. ASSUME NEW e \in Conn, Accept(e) \/ Close(e)
      PROVE  evref'[x] = Owners(x)' + Cardinality(Writers(x))'
  <2>1. /\ conn' = [conn EXCEPT ![e] = conn'[e]] /\ evref' = [evref EXCEPT ![e] = evref'[e]]
        /\ UNCHANGED <<mem, ev, notify>>
    BY <1>0, <1>7 DEF Accept, Close, cmdVars, TypeOK
  <2>2. Writers(x)' = Writers(x)
    BY <2>1 DEF Writers, Live
  <2>3. Writers(x) \in SUBSET Cmd
    BY DEF Writers, Live
  <2>4. Cardinality(Writers(x)) \in Nat
    BY <2>3, FiniteCmds
  <2>5. CASE x = e /\ Close(e)
    BY <1>0, <2>1, <2>2, <2>4, <2>5 DEF Close, Owners, TypeOK
  <2>6. CASE x = e /\ Accept(e)
    <3>1. Writers(x) = {} /\ notify # x
      BY <2>6 DEF Accept, Writers, Live, EvInv, Unopened
    <3>2. Cardinality(Writers(x)) = 0
      BY <3>1, FS_EmptySet
    <3> QED
      BY <1>0, <2>1, <2>2, <2>6, <3>1, <3>2 DEF Accept, Owners, TypeOK
  <2>7. CASE x # e
    BY <1>0, <2>1, <2>2, <2>4, <2>7 DEF Owners, TypeOK
  <2> QED
    BY <1>7, <2>5, <2>6, <2>7
<1>8. ASSUME ConsoleEof \/ SecretPeer \/ StartScript \/ HistoryGoesOn
      PROVE  evref'[x] = Owners(x)' + Cardinality(Writers(x))'
  <2>1. UNCHANGED <<mem, ev, conn, evref, notify>>
    BY <1>8 DEF ConsoleEof, SecretPeer, StartScript, HistoryGoesOn, cmdVars, connVars
  <2> QED
    BY <1>0, <2>1 DEF Owners, Writers, Live
<1> QED
  BY <1>0, <1>1, <1>3, <1>4, <1>5, <1>6, <1>7, <1>8, StepCases DEF ConsoleCommand, SocketCommand

(* An object not opened yet stays untouched by every step. *)
LEMMA UnopenedStep == EvInv /\ [Next]_vars => Unopened'
<1> SUFFICES ASSUME EvInv, [Next]_vars PROVE Unopened'
  OBVIOUS
<1>0. TypeOK
  BY DEF EvInv, TypeInv
<1>1. ASSUME NEW c \in Cmd, NEW k, NEW e \in Conn \cup {NoConn}, NewCommand(c, k, e),
             e # NoConn => conn[e] = "open"
      PROVE  Unopened'
  <2>1. /\ notify' \in {notify, e} /\ ev' = [ev EXCEPT ![c] = e]
        /\ conn' \in {conn, [conn EXCEPT ![e] = "closed"]}
    BY <1>1 DEF NewCommand, Interpret, InterpretInto
  <2>2. ev \in [Cmd -> Conn \cup {NoConn}] /\ conn \in [Conn -> {"none", "open", "closed"}]
        /\ NoConn \notin Conn
    BY <1>0, ConstantsAssumption DEF TypeOK
  <2>3. ASSUME NEW x \in Conn, conn'[x] = "none" PROVE conn[x] = "none" /\ x # e
    <3>1. conn[x] = "none"
      BY <2>1, <2>2, <2>3
    <3> QED
      BY <1>1, <2>2, <3>1
  <2> QED
    BY <2>1, <2>2, <2>3 DEF EvInv, Unopened
<1>2. ASSUME UNCHANGED <<ev, conn, notify>> PROVE Unopened'
  BY <1>2 DEF EvInv, Unopened
<1>3. ASSUME NEW c \in Cmd, LuaQuery(c) PROVE Unopened'
  BY <1>0, <1>3, ConstantsAssumption DEF LuaQuery, EvInv, Unopened, TypeOK
<1>4. ASSUME NEW c \in Cmd, MessageQueued(c) PROVE Unopened'
  BY <1>2, <1>4 DEF MessageQueued
<1>5. ASSUME Completion PROVE Unopened'
  BY <1>2, <1>5 DEF Completion, Complete
<1>6. ASSUME NEW c \in Cmd, Resolved(c) PROVE Unopened'
  <2>0. PICK k \in {kind[c], "bad"} : \E p :
          /\ Interpret(c, k, p, ev[c], refcnt[c], {}, 0)
          /\ ev' = ev
    BY <1>6 DEF Resolved
  <2>1. PICK p :
          /\ Interpret(c, k, p, ev[c], refcnt[c], {}, 0)
          /\ ev' = ev
    BY <2>0
  <2>2. k \notin {"main_session", "safe_quit"}
    BY <1>6, <2>0 DEF Resolved, EvInv, TypeInv, Waiting, TakesPeer
  <2>3. UNCHANGED <<conn, notify>>
    BY <2>1, <2>2 DEF Interpret, InterpretInto
  <2> QED
    BY <1>2, <2>1, <2>3
<1>7. ASSUME NEW e \in Conn, Accept(e) \/ Close(e) PROVE Unopened'
  BY <1>0, <1>7 DEF Accept, Close, cmdVars, EvInv, Unopened, TypeOK
<1>8. ASSUME ConsoleEof \/ SecretPeer \/ StartScript \/ HistoryGoesOn PROVE Unopened'
  BY <1>2, <1>8 DEF ConsoleEof, SecretPeer, StartScript, HistoryGoesOn, cmdVars, connVars
<1> QED
  BY <1>0, <1>1, <1>3, <1>4, <1>5, <1>6, <1>7, <1>8, StepCases DEF ConsoleCommand, SocketCommand

(* The inductive invariant of the references holds in every state. *)
LEMMA EvInvariant == Spec => []EvInv
<1>1. Init => EvInv
  <2> SUFFICES ASSUME Init PROVE Balanced /\ Unopened
    BY TypeInit DEF EvInv
  <2>1. \A e \in Conn : e # NoConn
    BY ConstantsAssumption
  <2>2. ASSUME NEW e \in Conn PROVE evref[e] = Owners(e) + Cardinality(Writers(e))
    <3>1. Writers(e) = {}
      BY DEF Init, Writers, Live
    <3>2. Cardinality(Writers(e)) = 0
      BY <3>1, FS_EmptySet
    <3> QED
      BY <2>1, <3>2 DEF Init, Owners
  <2> QED
    BY <2>1, <2>2 DEF Init, Balanced, Unopened
<1>2. EvInv /\ [Next]_vars => EvInv'
  BY TypeStep, EvStep, UnopenedStep DEF EvInv
<1> QED
  BY <1>1, <1>2, PTL DEF Spec

(* The count of an in_ev is one for its open bufferevent, one for each of  *)
(* its commands in memory and one for notify_ev, in every client: it       *)
(* outlives a hang-up exactly as long as an answer may be printed to it.   *)
THEOREM EvRefCorrect == Spec => []EvRefExact
<1>1. EvInv => EvRefExact
  BY EvRefWritten DEF EvInv
<1> QED
  BY <1>1, EvInvariant, PTL

-----------------------------------------------------------------------------
(***************************************************************************)
(* No assertion fails and no freed block is used, as long as the lines     *)
(* keep the discipline of reference counts, the input does not end, no     *)
(* secret chat is known before it has a chat, a history is not asked for   *)
(* with a negative limit, and a client started with -d is told to quit by  *)
(* a socket only, and not to quit safely: these five are what the defects  *)
(* of the code need (see the README).                                      *)
(***************************************************************************)
Sane ==
    /\ Disciplined
    /\ "eof" \notin ConsoleLines
    /\ ~SecretChats
    /\ Limits \subseteq Nat
    /\ Daemonize => /\ "safe_quit" \notin ConsoleLines \cup SocketLines \cup ScriptLines
                    /\ "quit" \notin ConsoleLines \cup ScriptLines

(* A line with which a client started with -d does not hang up on itself.  *)
Harmless(k, e) == Daemonize => k # "safe_quit" /\ (k = "quit" => e # NoConn)

FaultInv == CountInv /\ EvInv /\ NoFault

(* What a line from an open connection, or from none, ends with.           *)
LEMMA InterpretFaultless ==
  ASSUME Sane, FaultInv, OneHolder', EvInv', NEW c \in Cmd, NEW k \in LineKinds,
         NEW p, NEW e \in Conn \cup {NoConn}, NEW refs, NEW new \in SUBSET {c}, NEW added,
         Interpret(c, k, p, e, refs, new, added),
         Harmless(k, e),
         \A x \in new : ev'[x] = e, e # NoConn => conn[e] = "open" \/ new = {}
  PROVE  status' # "fault"
<1>0. PICK place \in Places(k, p) : \E n \in HistoryLimits(k, place) :
        InterpretInto(c, k, e, refs, new, added, place, n)
  BY DEF Interpret
<1>1. PICK n \in HistoryLimits(k, place) :
        InterpretInto(c, k, e, refs, new, added, place, n)
  BY <1>0
<1>2. ~NullEv(k, e)
  BY DEF NullEv, Harmless
<1>3. ~(refcnt'[c] < 0)
  <2>1. refcnt'[c] \in {0, 1}
    BY DEF OneHolder
  <2> QED
    BY <2>1
<1>4. ~(n < 0)
  <2>1. n \in Nat
    BY <1>1, ConstantsAssumption DEF HistoryLimits, Sane
  <2> QED
    BY <2>1
<1>5. ASSUME NEW x \in new, ev'[x] # NoConn, evref'[ev'[x]] = 0 PROVE FALSE
  <2>1. e \in Conn /\ evref'[e] = 0 /\ conn[e] = "open"
    BY <1>5
  <2>2. conn'[e] = "open"
    BY <1>1, <2>1 DEF InterpretInto, Harmless
  <2>3. evref'[e] = Owners(e)' + Cardinality(Writers(e))'
    BY <2>1 DEF EvInv, Balanced
  <2>4. Writers(e)' \in SUBSET Cmd
    BY DEF Writers, Live
  <2>5. Cardinality(Writers(e))' \in Nat
    BY <2>4, FiniteCmds
  <2> QED
    BY <2>1, <2>2, <2>3, <2>5 DEF Owners
<1>6. ~Faults(c, n, place, new)
  BY <1>3, <1>4, <1>5 DEF Faults
<1> QED
  BY <1>1, <1>2, <1>6 DEF InterpretInto

(* No step faults under Sane. *)
LEMMA FaultStep ==
  ASSUME Sane PROVE FaultInv /\ [Next]_vars => NoFault'
<1> SUFFICES ASSUME FaultInv, [Next]_vars PROVE status' # "fault"
  BY DEF NoFault
<1>0. OneHolder' /\ EvInv' /\ TypeOK /\ OneHolder
  BY CountStep, TypeStep, EvStep, UnopenedStep DEF Sane, FaultInv, EvInv, CountInv, TypeInv
<1>1. ASSUME NEW c \in Cmd, NEW k \in LineKinds, ConsoleCommand(c, k) PROVE status' # "fault"
  <2>1. PICK p \in PeerCounts(k) : Interpret(c, k, p, NoConn, 1, {c}, Added(NoConn))
    BY <1>1 DEF ConsoleCommand, NewCommand
  <2>2. ev'[c] = NoConn
    BY <1>0, <1>1 DEF ConsoleCommand, NewCommand, TypeOK
  <2>3. Harmless(k, NoConn)
    BY <1>1 DEF ConsoleCommand, Sane, Harmless
  <2> QED
    BY <1>0, <2>1, <2>2, <2>3, InterpretFaultless
<1>2. ASSUME NEW c \in Cmd, NEW k \in LineKinds, NEW e \in Conn, SocketCommand(c, k, e)
      PROVE  status' # "fault"
  <2>1. PICK p \in PeerCounts(k) : Interpret(c, k, p, e, 1, {c}, Added(e))
    BY <1>2 DEF SocketCommand, NewCommand
  <2>2. ev'[c] = e /\ conn[e] = "open"
    BY <1>0, <1>2 DEF SocketCommand, NewCommand, TypeOK
  <2>3. Harmless(k, e)
    BY <1>0, <1>2, ConstantsAssumption DEF SocketCommand, Sane, Harmless
  <2> QED
    BY <1>0, <2>1, <2>2, <2>3, InterpretFaultless
<1>3. ASSUME NEW c \in Cmd, Resolved(c) PROVE status' # "fault"
  <2>0. PICK k \in {kind[c], "bad"} : \E p : Interpret(c, k, p, ev[c], refcnt[c], {}, 0)
    BY <1>3 DEF Resolved
  <2>1. PICK p : Interpret(c, k, p, ev[c], refcnt[c], {}, 0)
    BY <2>0
  <2>2. k \notin {"quit", "safe_quit"}
    BY <1>3, <2>0 DEF Resolved, FaultInv, EvInv, TypeInv, Waiting, TakesPeer
  <2>3. k \in LineKinds /\ ev[c] \in Conn \cup {NoConn} /\ {} \in SUBSET {c}
    BY <1>0, <2>0 DEF TypeOK, LineKinds, PlainLines
  <2>4. Harmless(k, ev[c])
    BY <2>2 DEF Harmless
  <2> QED
    BY <1>0, <2>1, <2>2, <2>3, <2>4, InterpretFaultless
<1>4. ASSUME NEW c \in Cmd, MessageQueued(c) PROVE status' # "fault"
  BY <1>4 DEF MessageQueued, Ended
<1>5. ASSUME Completion PROVE status' # "fault"
  <2>1. PICK s \in Stages, S \in SUBSET Cmd : S \subseteq held[s] /\ Complete(s, S)
    BY <1>5 DEF Completion
  <2>2. S \subseteq Live
    BY <1>0, <2>1 DEF OneHolder, Live
  <2> QED
    BY <2>1, <2>2 DEF Complete, Ended
<1>6. ASSUME ConsoleEof \/ SecretPeer PROVE FALSE
  BY <1>6 DEF ConsoleEof, SecretPeer, Sane
<1>7. ASSUME \/ \E c \in Cmd : LuaQuery(c)
             \/ \E e \in Conn : Accept(e) \/ Close(e)
             \/ StartScript \/ HistoryGoesOn
      PROVE  status' = status
  BY <1>7 DEF LuaQuery, Accept, Close, StartScript, HistoryGoesOn
<1>8. status # "fault"
  BY DEF FaultInv, NoFault
<1> QED
  BY <1>0, <1>1, <1>2, <1>3, <1>4, <1>5, <1>6, <1>7, <1>8, StepCases

(* Whatever the order of input, replies, updates and hang-ups, a sane      *)
(* client never fails an assertion, reaches no command after it was freed, *)
(* and reads from no connection that the line it ran gave up.              *)
THEOREM NoFaultCorrect == ASSUME Sane PROVE Spec => []NoFault
<1>1. Spec => []CountInv
  BY CountInvariant DEF Sane
<1>2. CountInv /\ EvInv /\ NoFault /\ [Next]_vars => NoFault'
  BY FaultStep DEF FaultInv
<1>3. Init => NoFault
  BY DEF Init, NoFault
<1> QED
  BY <1>1, <1>2, <1>3, EvInvariant, PTL DEF Spec

-----------------------------------------------------------------------------
(***************************************************************************)
(* Without sockets, a sane client implements CommandService: each callback *)
(* opens a command, closes some, or changes nothing that the user sees,    *)
(* and it stops with the very answer that leaves nothing open.             *)
(***************************************************************************)
Closed == {c \in Cmd : mem[c] = "freed"}

(* With something freed, the client halts if and only if it is quitting    *)
(* and nothing is left in memory.                                          *)
LEMMA HaltsExactly ==
  ASSUME TypeOK, AllocatedCounts, NEW new \in SUBSET Cmd, NEW added \in {0, 1},
         NEW evs, Settle(new, added, evs), Counted(new, added), Freed(new) # {},
         \A c \in Cmd : ev[c] = NoConn /\ ev'[c] = NoConn
  PROVE  Halts(new, added) <=> safe_quit' /\ Live' = {}
<1>1. Halts(new, added) => safe_quit' /\ Live' = {}
  BY HaltsEmpties DEF Halts
<1>2. ASSUME safe_quit', Live' = {} PROVE Halts(new, added)
  <2> DEFINE All == Live \cup new
             F   == Freed(new)
  <2>1. {c \in Live : ev[c] = NoConn} = Live /\ {c \in Cmd : mem[c] = "freed" /\ ev[c] # NoConn} = {}
    BY DEF Live
  <2>2. allocated = Cardinality(Live) /\ Cardinality(Live) \in Nat
    <3>1. allocated = Cardinality(Live) - 0
      BY <2>1, FS_EmptySet DEF AllocatedCounts
    <3>2. Live \in SUBSET Cmd
      BY DEF Live
    <3> QED
      BY <3>1, <3>2, FiniteCmds
  <2>3. Cardinality(new) = added
    <3>1. {d \in new : ev'[d] = NoConn} = new
      OBVIOUS
    <3> QED
      BY <3>1 DEF Counted
  <2>4. IsFiniteSet(Live) /\ IsFiniteSet(new)
    BY FiniteCmds DEF Live
  <2>5. Live \cap new = {}
    BY DEF Live, Counted
  <2>6. Cardinality(All) = allocated + added
    BY <2>2, <2>3, <2>4, <2>5, DisjointUnion
  <2>7. mem' = [d \in Cmd |-> IF d \in F THEN "freed" ELSE IF d \in new THEN "live" ELSE mem[d]]
    BY DEF Settle
  <2>8. F = All
    BY <1>2, <2>7 DEF Live, Freed
  <2>9. IsFiniteSet(F) /\ F # {}
    <3>1. F \in SUBSET Cmd
      BY DEF Freed, Live
    <3> QED
      BY <3>1, FiniteCmds
  <2>10. Cardinality(F) \in Nat /\ Cardinality(F) # 0
    <3> HIDE DEF F
    <3> QED
      BY <2>9, FS_EmptySet, FS_CardinalityType
  <2>11. allocated + added = Cardinality(F)
    BY <2>6, <2>8
  <2> HIDE DEF F, All
  <2>12. allocated + added \in 1 .. Cardinality(F)
    BY <2>10, <2>11
  <2> QED
    BY <1>2, <2>12 DEF Halts, F
<1> QED
  BY <1>1, <1>2

(* Closing a command is one step of the abstract service or none. *)
LEMMA ServesClose ==
  ASSUME NEW S \in SUBSET Cmd, S # {}, status = "running",
         S \subseteq Live \/ \E c \in Unused : S \subseteq Live \cup {c},
         Live' = Live \ S, Closed' = Closed \cup S, safe_quit' \in {safe_quit, TRUE},
         status' = IF safe_quit' /\ Live' = {} THEN "safe_quit" ELSE "running"
  PROVE  Service!Next
<1>1. Unused \subseteq Service!Fresh
  BY DEF Unused, Live, Service!Fresh
<1>2. Service!Close(S)
  BY <1>1 DEF Service!Close, Closed
<1> QED
  BY <1>2 DEF Service!Next

ServInv == CountInv /\ NoFault /\ QuitInv

(* A line opens its command, or closes it at once; quit kills the client.  *)
LEMMA NewCommandServes ==
  ASSUME Sane, ServInv, OneHolder', TypeOK', NoFault', NEW c \in Cmd, NEW k \in LineKinds,
         ConsoleCommand(c, k)
  PROVE  Service!Next
<1>0. /\ TypeOK /\ OneHolder /\ AllocatedCounts /\ \A d \in Cmd : ev[d] = NoConn
      /\ status = "running" /\ NewCommand(c, k, NoConn) /\ mem[c] = "unused"
  BY DEF ServInv, CountInv, TypeInv, QuitInv, AllocInv, ConsoleCommand, NewCommand
<1>1. PICK p \in PeerCounts(k) : Interpret(c, k, p, NoConn, 1, {c}, Added(NoConn))
  BY <1>0 DEF NewCommand
<1>2. PICK place \in Places(k, p) : \E n \in HistoryLimits(k, place) :
        InterpretInto(c, k, NoConn, 1, {c}, Added(NoConn), place, n)
  BY <1>1 DEF Interpret
<1>3. /\ Settle({c}, Added(NoConn), HandlerEvs(k, NoConn)) /\ Counted({c}, Added(NoConn))
      /\ \A d \in Cmd : ev'[d] = NoConn
      /\ Added(NoConn) = 1
  <2>1. /\ Settle({c}, Added(NoConn), HandlerEvs(k, NoConn)) /\ Counted({c}, Added(NoConn))
        /\ ev' = [ev EXCEPT ![c] = NoConn]
    BY <1>0, NewCommandSettles
  <2>2. \A d \in Cmd : ev'[d] = NoConn
    BY <1>0, <2>1 DEF TypeOK
  <2>3. Added(NoConn) = 1
    BY DEF Added
  <2> QED
    BY <2>1, <2>2, <2>3
<1>4. /\ refcnt' = [refcnt EXCEPT ![c] = 1 + Taken(k) - Dropped(k, place) - 1]
      /\ safe_quit' = (safe_quit \/ k = "safe_quit")
      /\ mem' = [d \in Cmd |-> IF d \in Freed({c}) THEN "freed"
                               ELSE IF d \in {c} THEN "live" ELSE mem[d]]
      /\ status' = IF k = "quit" THEN "quit"
                   ELSE IF Halts({c}, 1) THEN "safe_quit" ELSE "running"
  BY <1>2, <1>3 DEF InterpretInto, Settle, NoFault
<1>5. Freed({c}) \subseteq {c}
  <2> SUFFICES ASSUME NEW d \in Freed({c}), d # c PROVE FALSE
    OBVIOUS
  <2>1. d \in Live /\ refcnt'[d] = refcnt[d] /\ refcnt'[d] <= 0
    BY <1>0, <1>4 DEF Freed, TypeOK, Live
  <2> QED
    BY <1>0, <2>1 DEF OneHolder, Live
<1>6. k \in {"quit", "safe_quit"} => c \in Freed({c})
  <2> SUFFICES ASSUME k \in {"quit", "safe_quit"} PROVE c \in Freed({c})
    OBVIOUS
  <2>1. p = 0
    BY DEF PeerCounts, TakesPeer
  <2>2. place = Done
    BY <1>2, <2>1 DEF Places, Requests, Messages
  <2>3. refcnt'[c] = 0
    BY <1>0, <1>4, <2>2 DEF TypeOK, Taken, Dropped, Silent
  <2> QED
    BY <2>3 DEF Freed
<1>7. CASE Freed({c}) = {}
  <2>1. ~Halts({c}, 1)
    <3>1. Cardinality(Freed({c})) = 0
      BY <1>7, FS_EmptySet
    <3> QED
      BY <3>1 DEF Halts
  <2>2. status' = "running" /\ safe_quit' = safe_quit
    BY <1>0, <1>4, <1>6, <1>7, <2>1 DEF TypeOK
  <2>3. Live' = Live \cup {c} /\ Closed' = Closed
    BY <1>0, <1>4, <1>7 DEF Live, Closed
  <2>4. c \in Service!Fresh
    BY <1>0 DEF Service!Fresh, Live
  <2>5. Service!Open(c)
    BY <1>0, <2>2, <2>3, <2>4 DEF Service!Open, Closed
  <2> QED
    BY <2>5 DEF Service!Next
<1>8. CASE Freed({c}) = {c}
  <2>1. Live' = Live /\ Closed' = Closed \cup {c} /\ c \in Unused
    BY <1>0, <1>4, <1>8 DEF Live, Closed, Unused
  <2>2. CASE k = "quit"
    <3>1. status' = "quit" /\ safe_quit' = safe_quit
      BY <1>0, <1>4, <2>2 DEF TypeOK
    <3>2. c \in Service!Fresh
      BY <1>0 DEF Service!Fresh, Live
    <3>3. Service!Kill(c)
      BY <1>0, <2>1, <3>1, <3>2 DEF Service!Kill, Closed
    <3> QED
      BY <3>3 DEF Service!Next
  <2>3. CASE k # "quit"
    <3>1. Halts({c}, 1) <=> safe_quit' /\ Live' = {}
      <4>1. {c} \in SUBSET Cmd /\ 1 \in {0, 1} /\ Freed({c}) # {}
        BY <1>8
      <4> QED
        BY <1>0, <1>3, <4>1, HaltsExactly
    <3>2. Live \ {c} = Live
      BY <1>0 DEF Live
    <3>3. safe_quit' \in {safe_quit, TRUE}
      BY <1>4, <1>0 DEF TypeOK
    <3>4. status' = IF safe_quit' /\ Live' = {} THEN "safe_quit" ELSE "running"
      BY <1>4, <2>3, <3>1
    <3> QED
      BY <1>0, <2>1, <3>2, <3>3, <3>4, ServesClose
  <2> QED
    BY <2>2, <2>3
<1> QED
  BY <1>5, <1>7, <1>8

(* A callback that frees the commands in F, all in memory, closes them.    *)
LEMMA FreedServes ==
  ASSUME ServInv, NoFault', NEW evs, Settle({}, 0, evs), UNCHANGED <<ev, safe_quit>>,
         status = "running", Freed({}) # {},
         status' \in {IF Halts({}, 0) THEN "safe_quit" ELSE "running", "fault"}
  PROVE  Service!Next
<1>0. TypeOK /\ AllocatedCounts /\ \A d \in Cmd : ev[d] = NoConn /\ ev'[d] = NoConn
  BY DEF ServInv, CountInv, TypeInv, QuitInv, AllocInv
<1>1. {} \in SUBSET Cmd /\ 0 \in {0, 1} /\ Counted({}, 0)
  BY FS_EmptySet DEF Counted
<1>2. Halts({}, 0) <=> safe_quit' /\ Live' = {}
  BY <1>0, <1>1, HaltsExactly
<1>3. Freed({}) \in SUBSET Cmd /\ Freed({}) \subseteq Live
  BY DEF Freed, Live
<1>4. Live' = Live \ Freed({}) /\ Closed' = Closed \cup Freed({})
  BY <1>3 DEF Settle, Live, Closed
<1>5. status' = IF safe_quit' /\ Live' = {} THEN "safe_quit" ELSE "running"
  BY <1>2 DEF NoFault
<1> QED
  BY <1>3, <1>4, <1>5, ServesClose

(* A step that frees nothing and creates nothing is not seen.              *)
LEMMA FreesNothing ==
  ASSUME NEW evs, Settle({}, 0, evs), Freed({}) = {}, TypeOK
  PROVE  mem' = mem /\ ~Halts({}, 0)
<1>1. mem' = mem
  BY DEF Settle, TypeOK
<1>2. ~Halts({}, 0)
  BY FS_EmptySet DEF Halts
<1> QED
  BY <1>1, <1>2

(* Every step is a step of the abstract service or a stutter. *)
LEMMA ServiceStep ==
  ASSUME Sane, ConsoleOnly
  PROVE  ServInv /\ ServInv' /\ [Next]_vars => [Service!Next]_(Service!vars)
<1> SUFFICES ASSUME ServInv, ServInv', [Next]_vars
             PROVE  Service!Next \/ UNCHANGED Service!vars
  OBVIOUS
<1>0. TypeOK /\ TypeOK' /\ OneHolder /\ OneHolder' /\ NoFault /\ NoFault'
  BY DEF ServInv, CountInv, TypeInv
<1>a. ASSUME UNCHANGED <<mem, safe_quit, status>> PROVE UNCHANGED Service!vars
  BY <1>a DEF Service!vars, Live
<1>1. ASSUME NEW c \in Cmd, NEW k \in LineKinds, ConsoleCommand(c, k) PROVE Service!Next
  BY <1>0, <1>1, NewCommandServes
<1>2. ASSUME NEW c \in Cmd, LuaQuery(c) PROVE Service!Next
  <2>1. /\ mem[c] = "unused" /\ status = "running" /\ UNCHANGED <<safe_quit, status>>
        /\ refcnt' = [refcnt EXCEPT ![c] = 1]
        /\ mem' = [d \in Cmd |-> IF d \in Freed({c}) THEN "freed"
                                 ELSE IF d \in {c} THEN "live" ELSE mem[d]]
    BY <1>2 DEF LuaQuery, Settle, Idle, flagVars
  <2>2. Freed({c}) = {}
    BY <1>0, <2>1 DEF Freed, Live, OneHolder, TypeOK
  <2>3. Live' = Live \cup {c} /\ Closed' = Closed
    BY <2>1, <2>2 DEF Live, Closed
  <2>4. c \in Service!Fresh
    BY <2>1 DEF Service!Fresh, Live
  <2>5. Service!Open(c)
    BY <2>1, <2>3, <2>4 DEF Service!Open, Closed
  <2> QED
    BY <2>5 DEF Service!Next
<1>3. ASSUME Completion PROVE Service!Next
  <2>1. PICK s \in Stages, S \in SUBSET Cmd :
          status = "running" /\ S # {} /\ S \subseteq held[s] /\ Complete(s, S)
    BY <1>3 DEF Completion
  <2>2. /\ Settle({}, 0, NoEvs) /\ UNCHANGED <<ev, safe_quit>>
        /\ refcnt' = [c \in Cmd |-> IF c \in S THEN refcnt[c] - 1 ELSE refcnt[c]]
        /\ status' \in {IF Halts({}, 0) THEN "safe_quit" ELSE "running", "fault"}
    BY <2>1 DEF Complete, Ended, flagVars
  <2>3. PICK c \in S : TRUE
    BY <2>1
  <2>4. c \in Live /\ refcnt[c] = 1
    BY <1>0, <2>1 DEF OneHolder, Live
  <2>5. c \in Freed({})
    BY <2>2, <2>4 DEF Freed
  <2> QED
    BY <1>0, <2>1, <2>2, <2>5, FreedServes
<1>4. ASSUME NEW c \in Cmd, MessageQueued(c) PROVE UNCHANGED Service!vars
  <2>1. /\ Settle({}, 0, NoEvs) /\ status = "running" /\ UNCHANGED safe_quit
        /\ refcnt' = refcnt /\ status' = Ended({}, 0)
    BY <1>0, <1>4 DEF MessageQueued, Idle, flagVars, TypeOK
  <2>2. Freed({}) = {}
    BY <1>0, <2>1 DEF Freed, Live, OneHolder
  <2>3. mem' = mem /\ ~Halts({}, 0)
    BY <1>0, <2>1, <2>2, FreesNothing
  <2> QED
    BY <1>a, <2>1, <2>3 DEF Ended
<1>5. ASSUME NEW c \in Cmd, Resolved(c) PROVE Service!Next \/ UNCHANGED Service!vars
  <2>0. PICK k \in {kind[c], "bad"} : \E p : Interpret(c, k, p, ev[c], refcnt[c], {}, 0)
    BY <1>5 DEF Resolved
  <2>1. PICK p : Interpret(c, k, p, ev[c], refcnt[c], {}, 0)
    BY <2>0
  <2>2. k \notin {"quit", "safe_quit"} /\ status = "running" /\ UNCHANGED ev
    BY <1>5, <2>0 DEF Resolved, Idle, ServInv, CountInv, TypeInv, Waiting, TakesPeer
  <2>3. /\ Settle({}, 0, HandlerEvs(k, ev[c]))
        /\ safe_quit' = (safe_quit \/ k = "safe_quit")
        /\ status' \in {IF Halts({}, 0) THEN "safe_quit" ELSE "running", "fault", "quit"}
        /\ status' = "quit" => k = "quit"
    BY <2>1 DEF Interpret, InterpretInto
  <2>4. UNCHANGED safe_quit /\ status' = IF Halts({}, 0) THEN "safe_quit" ELSE "running"
    BY <1>0, <2>2, <2>3 DEF TypeOK, NoFault
  <2>5. CASE Freed({}) = {}
    BY <1>0, <1>a, <2>2, <2>3, <2>4, <2>5, FreesNothing
  <2>6. CASE Freed({}) # {}
    BY <1>0, <2>2, <2>3, <2>4, <2>6, FreedServes
  <2> QED
    BY <2>5, <2>6
<1>6. ASSUME NEW e \in Conn, Accept(e) \/ Close(e) PROVE UNCHANGED Service!vars
  BY <1>a, <1>6 DEF Accept, Close, cmdVars, flagVars
<1>7. ASSUME StartScript PROVE Service!Next
  <2>1. status = "running" /\ safe_quit' = TRUE /\ UNCHANGED <<mem, status>>
    BY <1>7 DEF StartScript, Idle, cmdVars
  <2>2. Service!AskQuit
    BY <2>1 DEF Service!AskQuit, Live
  <2> QED
    BY <2>2 DEF Service!Next
<1>8. ASSUME HistoryGoesOn PROVE UNCHANGED Service!vars
  BY <1>a, <1>8 DEF HistoryGoesOn, flagVars
<1>9. ~ConsoleEof /\ ~SecretPeer
  BY DEF ConsoleEof, SecretPeer, Sane
<1>10. ~ \E c \in Cmd, k \in LineKinds, e \in Conn : SocketCommand(c, k, e)
  BY DEF SocketCommand, ConsoleOnly
<1> QED
  BY <1>0, <1>1, <1>2, <1>3, <1>4, <1>5, <1>6, <1>7, <1>8, <1>9, <1>10, StepCases

(* The user of a sane client without sockets gets what CommandService      *)
(* promises: a command stays open until it is answered, is then closed for *)
(* good, and a safe quit stops the client with the answer that leaves      *)
(* nothing open and not before, whatever requests, retries, timers and     *)
(* trees the code passes the command through.                              *)
THEOREM ServiceCorrect == ASSUME Sane, ConsoleOnly PROVE Spec => ImplementsService
<1>1. Spec => []CountInv
  BY CountInvariant DEF Sane
<1>2. Spec => []NoFault
  BY NoFaultCorrect
<1>3. Spec => []QuitInv
  <2>1. Init => QuitInv
    BY TypeInit, AllocInit DEF Init, QuitInv, AllocInv, QuitWaits
  <2> QED
    BY <2>1, QuitStep, PTL DEF Spec
<1>4. Init => Service!Init
  <2> SUFFICES ASSUME Init PROVE Service!Init
    OBVIOUS
  <2>1. Live = {} /\ {c \in Cmd : mem[c] = "freed"} = {}
    BY DEF Init, Live
  <2> QED
    BY <2>1 DEF Init, Service!Init
<1>5. CountInv /\ NoFault /\ QuitInv /\ (CountInv /\ NoFault /\ QuitInv)' /\ [Next]_vars
        => [Service!Next]_(Service!vars)
  BY ServiceStep DEF ServInv
<1> QED
  BY <1>1, <1>2, <1>3, <1>4, <1>5, PTL DEF Spec, ImplementsService, Service!Spec
===============================================================================
