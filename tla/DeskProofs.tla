----------------------------- MODULE DeskProofs -----------------------------
(***************************************************************************)
(* What the desk's own tools promise, for every value of the constants:    *)
(* the parameter set a promotion makes active, the numbers of the day's    *)
(* tickets, what a tool call was answered, and what the screening agents   *)
(* spend and conclude.                                                     *)
(***************************************************************************)
EXTENDS ParamUpgrades, DeskTools, TicketNumbers, AgentCalls, EdgeProofs

-----------------------------------------------------------------------------
(* Sequences and functions *)

\* The first greatest element of a sequence of integers.
LEMMA FirstGreatest ==
  ASSUME NEW n \in Nat \ {0}, NEW f \in [1 .. n -> Int]
  PROVE  \E k \in 1 .. n :
           /\ \A j \in 1 .. n : f[j] <= f[k]
           /\ \A j \in 1 .. (k - 1) : f[j] < f[k]
<1>. DEFINE Values == {f[i] : i \in 1 .. n}
            Tops(m) == {i \in 1 .. n : f[i] = m}
<1>1. IsFiniteSet(1 .. n)
  BY FS_Interval
<1>2. Values \in SUBSET Int /\ Values # {}
  OBVIOUS
<1>3. IsFiniteSet(Values)
  <2>1. f \in Surjection(1 .. n, Values)
    BY DEF Surjection
  <2>. QED  BY <1>1, <2>1, FS_Surjection
<1>4. PICK m \in Values : \A v \in Values : v <= m
  <2>. HIDE DEF Values
  <2>. QED  BY <1>2, <1>3, Greatest
<1>5. Tops(m) \in SUBSET Int /\ Tops(m) # {} /\ Tops(m) \in SUBSET (1 .. n)
  BY <1>4
<1>6. IsFiniteSet(Tops(m))
  BY <1>1, <1>5, FS_Subset
<1>7. PICK k \in Tops(m) : \A j \in Tops(m) : k <= j
  <2>. HIDE DEF Tops
  <2>. QED  BY <1>5, <1>6, SmallestOfFinite
<1>8. \A j \in 1 .. n : f[j] \in Int /\ f[j] <= m
  BY <1>2, <1>4
<1>9. \A j \in 1 .. (k - 1) : j \in 1 .. n /\ j \notin Tops(m)
  BY <1>7
<1>. QED  BY <1>7, <1>8, <1>9

\* A function that is changed at one point or not at all.
LEMMA Updated ==
  ASSUME NEW D, NEW T, NEW f \in [D -> T], NEW d \in D, NEW v \in T,
         NEW g, g = f \/ g = [f EXCEPT ![d] = v]
  PROVE  /\ g \in [D -> T]
         /\ \A x \in D : g[x] = f[x] \/ (x = d /\ g[x] = v)
  OBVIOUS

-----------------------------------------------------------------------------
(* Upgrades *)

\* The winner of a search is one of the sets searched.
LEMMA WinnerSearched ==
  ASSUME NEW run \in Spaces, run # <<>>
  PROVE  Winner(run) \in ParamSets
<1>1. run \in Seq(ParamSets) /\ Len(run) \in Nat \ {0} /\ DOMAIN run = 1 .. Len(run)
  BY UpgradesAssumption
<1>. DEFINE f == [i \in 1 .. Len(run) |-> Mean[run[i]]]
<1>2. \A i \in DOMAIN run : run[i] \in ParamSets /\ f[i] = Mean[run[i]]
  BY <1>1
<1>3. f \in [1 .. Len(run) -> Int]
  BY <1>1, <1>2, UpgradesAssumption
<1>. HIDE DEF f
<1>4. PICK k \in 1 .. Len(run) :
        /\ \A j \in 1 .. Len(run) : f[j] <= f[k]
        /\ \A j \in 1 .. (k - 1) : f[j] < f[k]
  BY <1>1, <1>3, FirstGreatest
<1>5. \A j \in 1 .. (k - 1) : j \in DOMAIN run
  BY <1>1
<1>6. /\ run[k] \in ParamSets /\ k \in DOMAIN run
      /\ \A j \in DOMAIN run : Mean[run[j]] <= Mean[run[k]]
      /\ \A j \in 1 .. (k - 1) : Mean[run[j]] < Mean[run[k]]
  BY <1>1, <1>2, <1>4, <1>5
<1>. QED  BY <1>6 DEF Winner

\* Places of a check that has passed the gate.
PastGate == {"evidence", "note", "content", "activate"}

UpTypes ==
  /\ UpTypeOK
  /\ trials \in [Spaces -> Seq(ParamSets)]
  /\ conf \in [Runners -> Spaces \cup {<<>>}] /\ pos \in [Runners -> Nat]
  /\ granted \in [Runners -> BOOLEAN]
  /\ \A p \in promoted : p.set \in ParamSets /\ p.run \in Spaces

\* A search holds the lock of its run directory, and the trials there are its own.
SearchInv ==
  \A r \in Runners : at[r] \in Locked =>
    /\ conf[r] # <<>>
    /\ locks[conf[r]] = r
    /\ Len(trials[conf[r]]) = pos[r]
    /\ IF at[r] = "search" THEN pos[r] < Len(conf[r]) ELSE pos[r] = Len(conf[r])

\* What a candidate has behind it at each place.
CandidateInv ==
  \A r \in Runners :
    /\ at[r] # "escalate"
    /\ at[r] \in {"judge"} \cup PastGate => best[r] \in ParamSets
    /\ at[r] = "judge" /\ autonomy = "autonomous-paper" => granted[r]
    /\ at[r] \in PastGate => granted[r]
    /\ at[r] \in {"note", "content", "activate"} => evidence[best[r]] = conf[r]
    /\ at[r] \in {"content", "activate"} => best[r] \in noted
    /\ at[r] = "activate" => best[r] \in content

\* Outside a check nothing is under way.
AtRest ==
  \A r \in Runners : at[r] \in {"down", "tick", "check", "reload"} => pos[r] = 0

UpInv ==
  /\ UpTypes /\ SearchInv /\ CandidateInv /\ AtRest
  /\ ActiveContentStored /\ PromotionEvidenced /\ ManualNeverUpgrades

LEMMA UpFacts ==
  /\ NoSet \notin ParamSets /\ NoSet \notin Runners /\ NoSet \notin Spaces
  /\ MaxAllowed \in Nat /\ Interval \in Nat /\ Interval > 0
  /\ \A run \in Spaces :
       /\ run \in Seq(ParamSets) /\ Len(run) \in Nat /\ (run # <<>> => Len(run) > 0)
       /\ DOMAIN run = 1 .. Len(run)
  /\ Len(<<>>) = 0
<1>1. \A run \in Spaces : run \in Seq(ParamSets)
  BY UpgradesAssumption
<1>2. \A run \in Seq(ParamSets) :
        Len(run) \in Nat /\ (run # <<>> => Len(run) > 0) /\ DOMAIN run = 1 .. Len(run)
  OBVIOUS
<1>. QED  BY <1>1, <1>2, UpgradesAssumption

THEOREM UpgradesStart == UpInit => UpInv
<1>. SUFFICES ASSUME UpInit PROVE UpInv
  OBVIOUS
<1>1. trials \in [Spaces -> Seq(ParamSets)] /\ \A space \in Spaces : Len(trials[space]) = 0
  BY DEF UpInit
<1>2. UpTypes
  BY <1>1, UpFacts DEF UpInit, UpTypes, UpTypeOK, Levels, Places
<1>. QED
  BY <1>2
  DEF UpInit, UpInv, SearchInv, CandidateInv, AtRest, ActiveContentStored, PromotionEvidenced,
     ManualNeverUpgrades, Locked, PastGate

\* The types in three parts, by who changes them.
LedgerTypes ==
  /\ autonomy \in Levels /\ active \in ParamSets \cup {NoSet}
  /\ content \subseteq ParamSets /\ noted \subseteq ParamSets
  /\ evidence \in [ParamSets -> Spaces \cup {NoSet}]
  /\ \A p \in promoted : p.set \in ParamSets /\ p.run \in Spaces
FileTypes ==
  /\ locks \in [Spaces -> Runners \cup {NoSet}]
  /\ trials \in [Spaces -> Seq(ParamSets)]
  /\ \A space \in Spaces : Len(trials[space]) <= MaxAllowed
ServeTypes ==
  /\ at \in [Runners -> Places] /\ since \in [Runners -> 0 .. Interval]
  /\ best \in [Runners -> ParamSets \cup {NoSet}]
  /\ conf \in [Runners -> Spaces \cup {<<>>}] /\ pos \in [Runners -> Nat]
  /\ granted \in [Runners -> BOOLEAN]
Within == \A r \in Runners : pos[r] <= Len(conf[r])

LEMMA UpTypesParts == UpTypes <=> LedgerTypes /\ FileTypes /\ ServeTypes /\ Within
  BY DEF UpTypes, UpTypeOK, LedgerTypes, FileTypes, ServeTypes, Within

LEMMA UpTypesKept ==
  ASSUME UpInv, UpNext
  PROVE  UpTypes'
<1>0. /\ LedgerTypes /\ FileTypes /\ ServeTypes /\ Within /\ SearchInv /\ CandidateInv /\ AtRest
  BY UpTypesParts DEF UpInv
<1>. DEFINE Lengths == \A run \in Spaces \cup {<<>>} : Len(run) \in Nat
<1>00. Lengths
  BY UpFacts
<1>000. \A q \in Runners : Len(conf[q]) \in Nat /\ pos[q] \in Nat /\ pos[q] <= Len(conf[q])
  BY <1>0, <1>00 DEF ServeTypes, Within
<1>1. ASSUME NEW r \in Runners, Tick(r) PROVE UpTypes'
  <2>1. LedgerTypes'
    BY <1>0, <1>1 DEF Tick, LedgerTypes, ledgerVars
  <2>2. FileTypes'
    BY <1>0, <1>1 DEF Tick, FileTypes, fileVars
  <2>3. at' \in [Runners -> Places]
    BY <1>0, <1>1 DEF Tick, ServeTypes, Go, Places, Locked
  <2>4. since' \in [Runners -> 0 .. Interval]
    BY <1>0, <1>1, UpFacts DEF Tick, ServeTypes
  <2>5. ServeTypes'
    BY <1>0, <1>1, <2>3, <2>4 DEF Tick, ServeTypes
  <2>6. Within'
    BY <1>0, <1>1, <1>00 DEF Tick, Within, ServeTypes
  <2>. QED  BY <2>1, <2>2, <2>5, <2>6, UpTypesParts, PTL
<1>2. ASSUME NEW r \in Runners, SkipCheck(r) PROVE UpTypes'
  <2>1. LedgerTypes'
    BY <1>0, <1>2 DEF SkipCheck, LedgerTypes, ledgerVars
  <2>2. FileTypes'
    BY <1>0, <1>2 DEF SkipCheck, FileTypes, fileVars
  <2>3. at' \in [Runners -> Places]
    BY <1>0, <1>2 DEF SkipCheck, ServeTypes, Go, Places, Locked
  <2>4. ServeTypes'
    BY <1>0, <1>2, <2>3 DEF SkipCheck, ServeTypes
  <2>5. Within'
    BY <1>0, <1>2, <1>00 DEF SkipCheck, Within, ServeTypes
  <2>. QED  BY <2>1, <2>2, <2>4, <2>5, UpTypesParts, PTL
<1>3. ASSUME NEW r \in Runners, OpenRun(r) PROVE UpTypes'
  <2>1. LedgerTypes'
    BY <1>0, <1>3 DEF OpenRun, LedgerTypes, ledgerVars
  <2>2. locks' \in [Spaces -> Runners \cup {NoSet}]
    BY <1>0, <1>3 DEF OpenRun, FileTypes
  <2>3. trials' = trials \/ trials' = [trials EXCEPT ![conf[r]] = <<>>]
    BY <1>0, <1>3 DEF OpenRun
  <2>4. trials \in [Spaces -> Seq(ParamSets)] /\ conf[r] \in Spaces /\ <<>> \in Seq(ParamSets)
    BY <1>0, <1>3 DEF OpenRun, FileTypes, ServeTypes
  <2>5. /\ trials' \in [Spaces -> Seq(ParamSets)]
         /\ \A space \in Spaces : trials'[space] = trials[space] \/ trials'[space] = <<>>
    BY <1>0, <1>3, <2>3, <2>4, Updated
  <2>6. \A space \in Spaces : Len(trials'[space]) <= MaxAllowed
    BY <1>0, <1>3, <2>5, UpFacts DEF FileTypes
  <2>7. FileTypes'
    BY <1>0, <1>3, <2>2, <2>5, <2>6 DEF FileTypes
  <2>8. at' \in [Runners -> Places]
    BY <1>0, <1>3 DEF OpenRun, ServeTypes, Go, Places, Locked
  <2>9. pos' = pos \/ pos' = [pos EXCEPT ![r] = 0]
    BY <1>0, <1>3 DEF OpenRun
  <2>10. pos' \in [Runners -> Nat] /\ (\A q \in Runners : pos'[q] = pos[q] \/ pos'[q] = 0)
    BY <1>0, <1>3, <2>9, Updated DEF ServeTypes
  <2>11. ServeTypes'
    BY <1>0, <1>3, <2>8, <2>10 DEF OpenRun, ServeTypes
  <2>12. Within'
    BY <1>0, <1>3, <1>000, <2>10 DEF OpenRun, Within
  <2>. QED  BY <2>1, <2>7, <2>11, <2>12, UpTypesParts, PTL
<1>4. ASSUME NEW r \in Runners, Mark(r) PROVE UpTypes'
  <2>1. LedgerTypes'
    BY <1>0, <1>4 DEF Mark, LedgerTypes, ledgerVars
  <2>2. FileTypes'
    BY <1>0, <1>4 DEF Mark, FileTypes, fileVars
  <2>3. at' \in [Runners -> Places]
    BY <1>0, <1>4 DEF Mark, ServeTypes, Go, Places, Locked
  <2>4. since' \in [Runners -> 0 .. Interval]
    BY <1>0, <1>4, UpFacts DEF Mark, ServeTypes
  <2>5. ServeTypes'
    BY <1>0, <1>4, <2>3, <2>4 DEF Mark, ServeTypes
  <2>6. Within'
    BY <1>0, <1>4, <1>00 DEF Mark, Within, ServeTypes
  <2>. QED  BY <2>1, <2>2, <2>5, <2>6, UpTypesParts, PTL
<1>5. ASSUME NEW r \in Runners, Reload(r) PROVE UpTypes'
  <2>1. LedgerTypes'
    BY <1>0, <1>5 DEF Reload, LedgerTypes, ledgerVars
  <2>2. FileTypes'
    BY <1>0, <1>5 DEF Reload, FileTypes, fileVars
  <2>3. at' \in [Runners -> Places]
    BY <1>0, <1>5 DEF Reload, ServeTypes, Go, Places, Locked
  <2>4. ServeTypes'
    BY <1>0, <1>5, <2>3 DEF Reload, ServeTypes
  <2>5. Within'
    BY <1>0, <1>5, <1>00 DEF Reload, Within, ServeTypes
  <2>. QED  BY <2>1, <2>2, <2>4, <2>5, UpTypesParts, PTL
<1>6. ASSUME NEW r \in Runners, Trial(r) PROVE UpTypes'
  <2>1. LedgerTypes'
    BY <1>0, <1>6 DEF Trial, LedgerTypes, ledgerVars
  <2>2. conf[r] \in Spaces /\ conf[r] \in Seq(ParamSets) /\ Len(conf[r]) \in Nat /\ pos[r] \in Nat
    BY <1>0, <1>6, UpFacts DEF Trial, SearchInv, ServeTypes, Locked
  <2>3. trials[conf[r]] \in Seq(ParamSets) /\ conf[r][pos[r] + 1] \in ParamSets
    BY <1>0, <1>6, <2>2 DEF Trial, FileTypes
  <2>4. locks' \in [Spaces -> Runners \cup {NoSet}]
    BY <1>0, <1>6 DEF Trial, Finish, FileTypes
  <2>5. \/ trials' = trials
         \/ /\ trials' = [trials EXCEPT ![conf[r]] = Append(@, conf[r][pos[r] + 1])]
            /\ Len(trials[conf[r]]) < MaxAllowed
    BY <1>0, <1>6 DEF Trial
  <2>6. Append(trials[conf[r]], conf[r][pos[r] + 1]) \in Seq(ParamSets)
    BY <1>0, <1>6, <2>3
  <2>7. trials' \in [Spaces -> Seq(ParamSets)]
    BY <1>0, <1>6, <2>2, <2>5, <2>6 DEF FileTypes
  <2>8. \A space \in Spaces : Len(trials'[space]) <= MaxAllowed
    BY <1>0, <1>6, <2>2, <2>3, <2>5, UpFacts DEF FileTypes
  <2>9. FileTypes'
    BY <1>0, <1>6, <2>4, <2>7, <2>8 DEF FileTypes
  <2>10. at' \in [Runners -> Places]
    BY <1>0, <1>6 DEF Trial, ServeTypes, Finish, Go, Places, Locked
  <2>11. \/ pos' = pos
         \/ pos' = [pos EXCEPT ![r] = @ + 1] /\ pos[r] + 1 <= Len(conf[r])
    BY <1>0, <1>6, <2>2 DEF Trial
  <2>12. /\ pos \in [Runners -> Nat] /\ pos[r] + 1 \in Nat
         /\ (pos' = pos \/ pos' = [pos EXCEPT ![r] = pos[r] + 1])
    BY <1>0, <1>6, <2>2, <2>11 DEF ServeTypes
  <2>13. pos' \in [Runners -> Nat] /\ (\A q \in Runners : pos'[q] = pos[q] \/ (q = r /\ pos'[q] = pos[r] + 1))
    BY <2>12, Updated
  <2>14. \A q \in Runners : pos'[q] <= Len(conf[q])
    BY <1>0, <1>6, <1>000, <2>2, <2>11, <2>13
  <2>15. ServeTypes'
    BY <1>0, <1>6, <2>10, <2>13 DEF Trial, ServeTypes
  <2>16. Within'
    BY <1>0, <1>6, <2>14 DEF Trial, Within
  <2>. QED  BY <2>1, <2>9, <2>15, <2>16, UpTypesParts, PTL
<1>7. ASSUME NEW r \in Runners, Settle(r) PROVE UpTypes'
  <2>1. LedgerTypes'
    BY <1>0, <1>7 DEF Settle, LedgerTypes, ledgerVars
  <2>2. FileTypes'
    BY <1>0, <1>7 DEF Settle, Finish, FileTypes
  <2>3. at' \in [Runners -> Places]
    BY <1>0, <1>7 DEF Settle, ServeTypes, Finish, Go, Places, Locked
  <2>4. Winner(conf[r]) \in ParamSets
    BY <1>0, <1>7, WinnerSearched DEF Settle, SearchInv, ServeTypes, Locked
  <2>5. best' \in [Runners -> ParamSets \cup {NoSet}] /\ granted' \in [Runners -> BOOLEAN]
    BY <1>0, <1>7, <2>4 DEF Settle, ServeTypes
  <2>6. ServeTypes'
    BY <1>0, <1>7, <2>3, <2>5 DEF Settle, ServeTypes
  <2>7. Within'
    BY <1>0, <1>7, <1>00 DEF Settle, Within, ServeTypes
  <2>. QED  BY <2>1, <2>2, <2>6, <2>7, UpTypesParts, PTL
<1>8. ASSUME NEW r \in Runners, Judge(r) PROVE UpTypes'
  <2>1. LedgerTypes'
    BY <1>0, <1>8 DEF Judge, LedgerTypes
  <2>2. FileTypes'
    BY <1>0, <1>8 DEF Judge, Finish, FileTypes
  <2>3. at' \in [Runners -> Places]
    BY <1>0, <1>8 DEF Judge, ServeTypes, Finish, Go, Places, Locked
  <2>4. ServeTypes'
    BY <1>0, <1>8, <2>3 DEF Judge, ServeTypes
  <2>5. Within'
    BY <1>0, <1>8, <1>00 DEF Judge, Within, ServeTypes
  <2>. QED  BY <2>1, <2>2, <2>4, <2>5, UpTypesParts, PTL
<1>9. ASSUME NEW r \in Runners, WriteEvidence(r) PROVE UpTypes'
  <2>1. best[r] \in ParamSets /\ conf[r] \in Spaces
    BY <1>0, <1>9 DEF WriteEvidence, SearchInv, CandidateInv, ServeTypes, Locked, PastGate
  <2>2. LedgerTypes'
    BY <1>0, <1>9, <2>1 DEF WriteEvidence, LedgerTypes
  <2>3. FileTypes'
    BY <1>0, <1>9 DEF WriteEvidence, Finish, FileTypes
  <2>4. at' \in [Runners -> Places]
    BY <1>0, <1>9 DEF WriteEvidence, ServeTypes, Finish, Go, Places, Locked
  <2>5. ServeTypes'
    BY <1>0, <1>9, <2>4 DEF WriteEvidence, ServeTypes
  <2>6. Within'
    BY <1>0, <1>9, <1>00 DEF WriteEvidence, Within, ServeTypes
  <2>. QED  BY <2>2, <2>3, <2>5, <2>6, UpTypesParts, PTL
<1>10. ASSUME NEW r \in Runners, NoteEvidence(r) PROVE UpTypes'
  <2>1. best[r] \in ParamSets /\ conf[r] \in Spaces
    BY <1>0, <1>10 DEF NoteEvidence, SearchInv, CandidateInv, ServeTypes, Locked, PastGate
  <2>2. LedgerTypes'
    BY <1>0, <1>10, <2>1 DEF NoteEvidence, LedgerTypes
  <2>3. FileTypes'
    BY <1>0, <1>10 DEF NoteEvidence, FileTypes, fileVars
  <2>4. at' \in [Runners -> Places]
    BY <1>0, <1>10 DEF NoteEvidence, ServeTypes, Finish, Go, Places, Locked
  <2>5. ServeTypes'
    BY <1>0, <1>10, <2>4 DEF NoteEvidence, ServeTypes
  <2>6. Within'
    BY <1>0, <1>10, <1>00 DEF NoteEvidence, Within, ServeTypes
  <2>. QED  BY <2>2, <2>3, <2>5, <2>6, UpTypesParts, PTL
<1>11. ASSUME NEW r \in Runners, StoreContent(r) PROVE UpTypes'
  <2>1. best[r] \in ParamSets /\ conf[r] \in Spaces
    BY <1>0, <1>11 DEF StoreContent, SearchInv, CandidateInv, ServeTypes, Locked, PastGate
  <2>2. LedgerTypes'
    BY <1>0, <1>11, <2>1 DEF StoreContent, LedgerTypes
  <2>3. FileTypes'
    BY <1>0, <1>11 DEF StoreContent, FileTypes, fileVars
  <2>4. at' \in [Runners -> Places]
    BY <1>0, <1>11 DEF StoreContent, ServeTypes, Finish, Go, Places, Locked
  <2>5. ServeTypes'
    BY <1>0, <1>11, <2>4 DEF StoreContent, ServeTypes
  <2>6. Within'
    BY <1>0, <1>11, <1>00 DEF StoreContent, Within, ServeTypes
  <2>. QED  BY <2>2, <2>3, <2>5, <2>6, UpTypesParts, PTL
<1>12. ASSUME NEW r \in Runners, Activate(r) PROVE UpTypes'
  <2>1. best[r] \in ParamSets /\ conf[r] \in Spaces
    BY <1>0, <1>12 DEF Activate, SearchInv, CandidateInv, ServeTypes, Locked, PastGate
  <2>2. LedgerTypes'
    BY <1>0, <1>12, <2>1 DEF Activate, LedgerTypes
  <2>3. FileTypes'
    BY <1>0, <1>12 DEF Activate, Finish, FileTypes
  <2>4. at' \in [Runners -> Places]
    BY <1>0, <1>12 DEF Activate, ServeTypes, Finish, Go, Places, Locked
  <2>5. ServeTypes'
    BY <1>0, <1>12, <2>4 DEF Activate, ServeTypes
  <2>6. Within'
    BY <1>0, <1>12, <1>00 DEF Activate, Within, ServeTypes
  <2>. QED  BY <2>2, <2>3, <2>5, <2>6, UpTypesParts, PTL
<1>13. ASSUME NEW r \in Runners, Crash(r) PROVE UpTypes'
  <2>1. LedgerTypes'
    BY <1>0, <1>13 DEF Crash, LedgerTypes, ledgerVars
  <2>2. FileTypes'
    BY <1>0, <1>13 DEF Crash, FileTypes
  <2>3. at' \in [Runners -> Places]
    BY <1>0, <1>13 DEF Crash, ServeTypes, Go, Places, Locked
  <2>4. pos' \in [Runners -> Nat] /\ best' \in [Runners -> ParamSets \cup {NoSet}]
    BY <1>0, <1>13 DEF Crash, ServeTypes
  <2>5. ServeTypes'
    BY <1>0, <1>13, <2>3, <2>4 DEF Crash, ServeTypes
  <2>6. Within'
    BY <1>0, <1>13, <1>00 DEF Crash, Within, ServeTypes
  <2>. QED  BY <2>1, <2>2, <2>5, <2>6, UpTypesParts, PTL
<1>14. ASSUME NEW r \in Runners, Start(r) PROVE UpTypes'
  <2>1. LedgerTypes'
    BY <1>0, <1>14 DEF Start, LedgerTypes, ledgerVars
  <2>2. FileTypes'
    BY <1>0, <1>14 DEF Start, FileTypes, fileVars
  <2>3. at' \in [Runners -> Places]
    BY <1>0, <1>14 DEF Start, ServeTypes, Go, Places, Locked
  <2>4. conf' \in [Runners -> Spaces \cup {<<>>}]
    BY <1>0, <1>14 DEF Start, ServeTypes
  <2>5. ServeTypes'
    BY <1>0, <1>14, <2>3, <2>4 DEF Start, ServeTypes
  <2>6. pos[r] = 0
    BY <1>0, <1>14 DEF Start, AtRest
  <2>7. Within'
    BY <1>0, <1>14, <1>00, <2>6 DEF Start, Within, ServeTypes
  <2>. QED  BY <2>1, <2>2, <2>5, <2>7, UpTypesParts, PTL
<1>15. ASSUME NEW level \in Levels, SetAutonomy(level) PROVE UpTypes'
  BY <1>15 DEF SetAutonomy, fileVars, serveVars, UpInv, UpTypes, UpTypeOK
<1>16. ASSUME NEW s \in ParamSets, Restore(s) PROVE UpTypes'
  BY <1>16 DEF Restore, fileVars, serveVars, UpInv, UpTypes, UpTypeOK
<1>17. ASSUME PaperWindowCompletes PROVE UpTypes'
  BY <1>17 DEF PaperWindowCompletes, ledgerVars, serveVars, UpInv, UpTypes, UpTypeOK
<1>. QED
  BY <1>1, <1>2, <1>3, <1>4, <1>5, <1>6, <1>7, <1>8, <1>9, <1>10, <1>11, <1>12, <1>13, <1>14,
     <1>15, <1>16, <1>17 DEF UpNext, Serve

\* The lock and the trials of a search under way are its own.
Own(r) ==
  /\ conf[r] # <<>>
  /\ locks[conf[r]] = r
  /\ Len(trials[conf[r]]) = pos[r]
  /\ IF at[r] = "search" THEN pos[r] < Len(conf[r]) ELSE pos[r] = Len(conf[r])

LEMMA SearchKept ==
  ASSUME UpInv, UpNext
  PROVE  SearchInv'
<1>0. /\ LedgerTypes /\ FileTypes /\ ServeTypes /\ Within /\ SearchInv /\ CandidateInv /\ AtRest
  BY UpTypesParts DEF UpInv
<1>1. \A q \in Runners : at[q] \in Locked =>
        /\ Own(q) /\ conf[q] \in Spaces /\ Len(conf[q]) \in Nat /\ pos[q] \in Nat
        /\ trials[conf[q]] \in Seq(ParamSets)
  BY <1>0, UpFacts DEF SearchInv, Own, ServeTypes, FileTypes
<1>. SUFFICES ASSUME NEW q \in Runners, at'[q] \in Locked PROVE Own(q)'
  BY DEF SearchInv, Own
<1>2. ASSUME NEW r \in Runners, Tick(r) \/ SkipCheck(r) \/ Mark(r) \/ Reload(r) \/ Start(r) PROVE Own(q)'
  BY <1>0, <1>1, <1>2
  DEF Own, Tick, SkipCheck, Mark, Reload, Start, ServeTypes, FileTypes, Go, Locked, ledgerVars,
      fileVars
<1>3. ASSUME NEW r \in Runners, OpenRun(r) PROVE Own(q)'
  BY <1>0, <1>1, <1>3, UpFacts
  DEF Own, OpenRun, ServeTypes, FileTypes, Go, Locked, ledgerVars, fileVars, AtRest
<1>4. ASSUME NEW r \in Runners, Trial(r) PROVE Own(q)'
  <2>1. /\ at[r] = "search" /\ Own(r) /\ pos[r] < Len(conf[r]) /\ conf' = conf
        /\ \A p \in Runners \ {r} : at'[p] = at[p] /\ pos'[p] = pos[p]
    BY <1>0, <1>1, <1>4 DEF Trial, Finish, Go, ServeTypes, Own, Locked
  <2>2. CASE q # r
    <3>1. at[q] \in Locked /\ Own(q) /\ conf[q] # conf[r]
      BY <1>1, <2>1, <2>2 DEF Own, Locked
    <3>2. locks'[conf[q]] = locks[conf[q]] /\ trials'[conf[q]] = trials[conf[q]]
      BY <1>0, <1>1, <1>4, <3>1 DEF Trial, Finish, FileTypes
    <3>. QED  BY <2>1, <2>2, <3>1, <3>2 DEF Own
  <2>3. CASE q = r
    <3>1. /\ trials' = [trials EXCEPT ![conf[r]] = Append(@, conf[r][pos[r] + 1])]
          /\ pos' = [pos EXCEPT ![r] = @ + 1] /\ locks' = locks
          /\ at' = [at EXCEPT ![r] = IF pos[r] + 1 = Len(conf[r]) THEN "settle" ELSE "search"]
      BY <1>0, <1>4, <2>3 DEF Trial, Finish, Go, Locked, ServeTypes
    <3>2. Len(trials'[conf[r]]) = Len(trials[conf[r]]) + 1
      BY <1>0, <1>1, <2>1, <3>1 DEF FileTypes, Locked
    <3>. QED  BY <1>0, <1>1, <2>1, <2>3, <3>1, <3>2 DEF Own, ServeTypes, Locked
  <2>. QED  BY <2>2, <2>3
<1>5. ASSUME NEW r \in Runners, Settle(r) PROVE Own(q)'
  BY <1>0, <1>1, <1>5
  DEF Own, Settle, ServeTypes, FileTypes, Go, Locked, ledgerVars, fileVars, Finish
<1>6. ASSUME NEW r \in Runners, Judge(r) PROVE Own(q)'
  BY <1>0, <1>1, <1>6
  DEF Own, Judge, ServeTypes, FileTypes, Go, Locked, ledgerVars, fileVars, Finish
<1>7. ASSUME NEW r \in Runners, WriteEvidence(r) PROVE Own(q)'
  BY <1>0, <1>1, <1>7
  DEF Own, WriteEvidence, ServeTypes, FileTypes, Go, Locked, ledgerVars, fileVars, Finish
<1>8. ASSUME NEW r \in Runners, NoteEvidence(r) \/ StoreContent(r) PROVE Own(q)'
  BY <1>0, <1>1, <1>8
  DEF Own, NoteEvidence, StoreContent, ServeTypes, FileTypes, Go, Locked, ledgerVars, fileVars
<1>9. ASSUME NEW r \in Runners, Activate(r) PROVE Own(q)'
  BY <1>0, <1>1, <1>9
  DEF Own, Activate, ServeTypes, FileTypes, Go, Locked, ledgerVars, fileVars, Finish
<1>10. ASSUME NEW r \in Runners, Crash(r) PROVE Own(q)'
  BY <1>0, <1>1, <1>10 DEF Own, Crash, ServeTypes, FileTypes, Go, Locked, ledgerVars, fileVars
<1>11. CASE UNCHANGED <<at, conf, pos, locks, trials>>
  BY <1>1, <1>11 DEF Own
<1>12. ASSUME NEW level \in Levels, SetAutonomy(level) PROVE Own(q)'
  BY <1>11, <1>12 DEF SetAutonomy, fileVars, serveVars
<1>13. ASSUME NEW s \in ParamSets, Restore(s) PROVE Own(q)'
  BY <1>11, <1>13 DEF Restore, fileVars, serveVars
<1>14. ASSUME PaperWindowCompletes PROVE Own(q)'
  BY <1>11, <1>14 DEF PaperWindowCompletes, serveVars
<1>. QED
  BY <1>2, <1>3, <1>4, <1>5, <1>6, <1>7, <1>8, <1>9, <1>10, <1>11, <1>12, <1>13, <1>14
  DEF UpNext, Serve

\* What stands behind the candidate of one process.
Backed(r) ==
  /\ at[r] # "escalate"
  /\ at[r] \in {"judge"} \cup PastGate => best[r] \in ParamSets
  /\ at[r] = "judge" /\ autonomy = "autonomous-paper" => granted[r]
  /\ at[r] \in PastGate => granted[r]
  /\ at[r] \in {"note", "content", "activate"} => evidence[best[r]] = conf[r]
  /\ at[r] \in {"content", "activate"} => best[r] \in noted
  /\ at[r] = "activate" => best[r] \in content

LEMMA CandidateKept ==
  ASSUME UpInv, UpNext
  PROVE  CandidateInv' /\ AtRest'
<1>0. /\ LedgerTypes /\ FileTypes /\ ServeTypes /\ SearchInv /\ AtRest
      /\ \A r \in Runners : Backed(r)
  BY UpTypesParts DEF UpInv, CandidateInv, Backed
<1>1. \A r \in Runners : at[r] \in Locked => conf[r] # <<>> /\ conf[r] \in Spaces
  BY <1>0 DEF SearchInv, ServeTypes
<1>. DEFINE Rests(q) == at[q] \in {"down", "tick", "check", "reload"} => pos[q] = 0
<1>. SUFFICES ASSUME NEW q \in Runners PROVE Backed(q)' /\ Rests(q)'
  BY DEF CandidateInv, Backed, AtRest
<1>2. ASSUME NEW r \in Runners, Tick(r) PROVE Backed(q)' /\ Rests(q)'
  BY <1>0, <1>2
  DEF Backed, AtRest, PastGate, Tick, ServeTypes, LedgerTypes, Go, Locked, ledgerVars, fileVars
<1>3. ASSUME NEW r \in Runners, SkipCheck(r) PROVE Backed(q)' /\ Rests(q)'
  BY <1>0, <1>3
  DEF Backed, AtRest, PastGate, SkipCheck, ServeTypes, LedgerTypes, Go, Locked, ledgerVars,
      fileVars
<1>4. ASSUME NEW r \in Runners, Mark(r) PROVE Backed(q)' /\ Rests(q)'
  BY <1>0, <1>4
  DEF Backed, AtRest, PastGate, Mark, ServeTypes, LedgerTypes, Go, Locked, ledgerVars, fileVars
<1>5. ASSUME NEW r \in Runners, Reload(r) PROVE Backed(q)' /\ Rests(q)'
  BY <1>0, <1>5
  DEF Backed, AtRest, PastGate, Reload, ServeTypes, LedgerTypes, Go, Locked, ledgerVars,
      fileVars
<1>6. ASSUME NEW r \in Runners, Start(r) PROVE Backed(q)' /\ Rests(q)'
  BY <1>0, <1>6
  DEF Backed, AtRest, PastGate, Start, ServeTypes, LedgerTypes, Go, Locked, ledgerVars, fileVars
<1>7. ASSUME NEW r \in Runners, OpenRun(r) PROVE Backed(q)' /\ Rests(q)'
  BY <1>0, <1>7
  DEF Backed, AtRest, PastGate, OpenRun, ServeTypes, LedgerTypes, Go, Locked, ledgerVars,
      fileVars
<1>8. ASSUME NEW r \in Runners, Trial(r) PROVE Backed(q)' /\ Rests(q)'
  BY <1>0, <1>8
  DEF Backed, AtRest, PastGate, Trial, ServeTypes, LedgerTypes, Go, Locked, ledgerVars, fileVars,
      Finish
<1>9. ASSUME NEW r \in Runners, Settle(r) PROVE Backed(q)' /\ Rests(q)'
  <2>1. Winner(conf[r]) \in ParamSets
    BY <1>1, <1>9, WinnerSearched DEF Settle, Locked
  <2>2. /\ UNCHANGED <<autonomy, content, evidence, noted, conf, pos>>
        /\ q # r => at'[q] = at[q] /\ best'[q] = best[q] /\ granted'[q] = granted[q]
        /\ \/ at'[r] = "mark"
           \/ /\ at'[r] = "judge" /\ best'[r] = Winner(conf[r])
              /\ granted'[r] = (autonomy = "autonomous-paper")
    BY <1>0, <1>9 DEF Settle, Finish, Go, ServeTypes, ledgerVars
  <2>3. CASE q # r
    BY <1>0, <2>2, <2>3 DEF Backed, AtRest, PastGate
  <2>4. CASE q = r
    BY <2>1, <2>2, <2>4 DEF Backed, PastGate
  <2>. QED  BY <2>3, <2>4
<1>10. ASSUME NEW r \in Runners, Judge(r) PROVE Backed(q)' /\ Rests(q)'
  BY <1>0, <1>10
  DEF Backed, AtRest, PastGate, Judge, ServeTypes, LedgerTypes, Go, Locked, ledgerVars, fileVars,
      Finish, Verdict
<1>11. ASSUME NEW r \in Runners, WriteEvidence(r) PROVE Backed(q)' /\ Rests(q)'
  BY <1>0, <1>11, <1>1, UpFacts
  DEF Backed, AtRest, PastGate, WriteEvidence, ServeTypes, LedgerTypes, Go, Locked, ledgerVars,
      fileVars, Finish
<1>12. ASSUME NEW r \in Runners, NoteEvidence(r) PROVE Backed(q)' /\ Rests(q)'
  BY <1>0, <1>12
  DEF Backed, AtRest, PastGate, NoteEvidence, ServeTypes, LedgerTypes, Go, Locked, ledgerVars,
      fileVars
<1>13. ASSUME NEW r \in Runners, StoreContent(r) PROVE Backed(q)' /\ Rests(q)'
  BY <1>0, <1>13
  DEF Backed, AtRest, PastGate, StoreContent, ServeTypes, LedgerTypes, Go, Locked, ledgerVars,
      fileVars
<1>14. ASSUME NEW r \in Runners, Activate(r) PROVE Backed(q)' /\ Rests(q)'
  BY <1>0, <1>14
  DEF Backed, AtRest, PastGate, Activate, ServeTypes, LedgerTypes, Go, Locked, ledgerVars,
      fileVars, Finish
<1>15. ASSUME NEW r \in Runners, Crash(r) PROVE Backed(q)' /\ Rests(q)'
  BY <1>0, <1>15
  DEF Backed, AtRest, PastGate, Crash, ServeTypes, LedgerTypes, Go, Locked, ledgerVars, fileVars
<1>16. ASSUME NEW level \in Levels, SetAutonomy(level) PROVE Backed(q)' /\ Rests(q)'
  BY <1>0, <1>16
  DEF Backed, AtRest, PastGate, SetAutonomy, ServeTypes, LedgerTypes, Levels, ledgerVars,
      fileVars, serveVars
<1>17. ASSUME NEW s \in ParamSets, Restore(s) PROVE Backed(q)' /\ Rests(q)'
  BY <1>0, <1>17
  DEF Backed, AtRest, PastGate, Restore, ServeTypes, LedgerTypes, Levels, ledgerVars, fileVars,
      serveVars
<1>18. ASSUME PaperWindowCompletes PROVE Backed(q)' /\ Rests(q)'
  BY <1>0, <1>18
  DEF Backed, AtRest, PastGate, PaperWindowCompletes, ServeTypes, LedgerTypes, Levels,
      ledgerVars, fileVars, serveVars
<1>. HIDE DEF Rests
<1>. QED
  BY <1>2, <1>3, <1>4, <1>5, <1>6, <1>7, <1>8, <1>9, <1>10, <1>11, <1>12, <1>13, <1>14,
     <1>15, <1>16, <1>17, <1>18
  DEF UpNext, Serve

\* A row that names a set, and the files and rows behind a promotion, stay.
LEMMA PromotionsKept ==
  ASSUME UpInv, UpNext
  PROVE  ActiveContentStored' /\ PromotionEvidenced' /\ ManualNeverUpgrades'
<1>. DEFINE Kept == ActiveContentStored /\ PromotionEvidenced /\ ManualNeverUpgrades
<1>0. /\ LedgerTypes /\ ServeTypes /\ Kept
      /\ \A r \in Runners : Backed(r)
      /\ \A r \in Runners : at[r] \in Locked => conf[r] \in Spaces
  BY UpTypesParts DEF UpInv, CandidateInv, SearchInv, ServeTypes, Backed
<1>1. CASE UNCHANGED <<active, content, evidence, noted, promoted>>
  BY <1>0, <1>1 DEF ActiveContentStored, PromotionEvidenced, ManualNeverUpgrades
<1>2. ASSUME NEW r \in Runners,
             \/ Tick(r) \/ SkipCheck(r) \/ Mark(r) \/ Reload(r) \/ Start(r) \/ OpenRun(r)
             \/ Trial(r) \/ Settle(r) \/ Judge(r) \/ Crash(r)
      PROVE  Kept'
  <2>1. UNCHANGED <<active, content, evidence, noted, promoted>>
    BY <1>2 DEF Tick, SkipCheck, Mark, Reload, Start, OpenRun, Trial, Settle, Judge, Crash,
       ledgerVars
  <2>. QED  BY <1>1, <2>1
<1>3. ASSUME NEW r \in Runners, WriteEvidence(r) PROVE Kept'
  BY <1>0, <1>3, UpFacts
  DEF Backed, WriteEvidence, PastGate, Locked, LedgerTypes, fileVars,
      ActiveContentStored, PromotionEvidenced, ManualNeverUpgrades
<1>4. ASSUME NEW r \in Runners, NoteEvidence(r) \/ StoreContent(r) PROVE Kept'
  BY <1>0, <1>4
  DEF NoteEvidence, StoreContent, ActiveContentStored, PromotionEvidenced, ManualNeverUpgrades
<1>5. ASSUME NEW r \in Runners, Activate(r) PROVE Kept'
  <2>1. /\ active' = best[r] /\ UNCHANGED <<content, evidence, noted>>
        /\ promoted' = promoted \cup
             {[set |-> best[r], run |-> conf[r], granted |-> granted[r]]}
        /\ best[r] \in content /\ best[r] \in noted /\ granted[r]
        /\ evidence[best[r]] = conf[r]
    BY <1>0, <1>5 DEF Activate, Backed, PastGate
  <2>. QED  BY <1>0, <2>1 DEF ActiveContentStored, PromotionEvidenced, ManualNeverUpgrades
<1>6. ASSUME NEW s \in ParamSets, Restore(s) PROVE Kept'
  BY <1>0, <1>6 DEF Restore, ActiveContentStored, PromotionEvidenced, ManualNeverUpgrades
<1>7. ASSUME NEW level \in Levels, SetAutonomy(level) PROVE Kept'
  BY <1>1, <1>7 DEF SetAutonomy
<1>8. ASSUME PaperWindowCompletes PROVE Kept'
  BY <1>1, <1>8 DEF PaperWindowCompletes, ledgerVars
<1>. HIDE DEF Kept
<1>9. Kept'
  BY <1>2, <1>3, <1>4, <1>5, <1>6, <1>7, <1>8 DEF UpNext, Serve
<1>. QED  BY <1>9 DEF Kept

\* No step of a desk's processes, operators or deaths breaks the invariant.
LEMMA UpgradesGoOn == UpInv /\ [UpNext]_upVars => UpInv'
<1>. SUFFICES ASSUME UpInv, [UpNext]_upVars PROVE UpInv'
  OBVIOUS
<1>1. CASE UpNext
  BY <1>1, UpTypesKept, SearchKept, CandidateKept, PromotionsKept DEF UpInv
<1>2. CASE UNCHANGED upVars
  BY <1>2 DEF upVars, ledgerVars, fileVars, serveVars, UpInv, UpTypes, UpTypeOK, SearchInv,
     CandidateInv, AtRest, ActiveContentStored, PromotionEvidenced, ManualNeverUpgrades
<1>. QED  BY <1>1, <1>2

\* A parameter set becomes active by a settled search of its own, permitted and
\* counted as it was, and stored before it is named: whatever processes die
\* between the steps of a promotion, hold the lock beside it, or change the
\* autonomy level and the active set meanwhile.
THEOREM UpgradesAreEarned == UpSpec => []ActivationJustified
<1>1. UpInv => ActivationJustified
  <2>1. UpInv => OwnTrialsCounted
    BY DEF UpInv, SearchInv, OwnTrialsCounted, Locked
  <2>. QED  BY <2>1 DEF UpInv, ActivationJustified
<1>. QED  BY <1>1, UpgradesStart, UpgradesGoOn, PTL DEF UpSpec

-----------------------------------------------------------------------------
(* Ticket numbers *)

Rivals(c) == {t \in tickets : t.by # c}
Full == LastTicket + 1 \in Numbers

TicketTypes ==
  /\ tickets \subseteq [number : Nat, by : Creators, named : BOOLEAN]
  /\ IsFiniteSet(tickets)
  /\ creator \in [Creators -> [pc : {"idle", "append", "named", "failed"},
                               seen : 0 .. LastTicket, tries : 0 .. MaxAttempts]]

\* The tries a creator has lost; one under way is lost when its number is taken.
Lost(c) ==
  IF creator[c].pc = "append" /\ creator[c].seen + 1 \notin Numbers
  THEN creator[c].tries - 1 ELSE creator[c].tries

\* Every lost try is a ticket of a rival, or the day is full.
CreatorInv(c) ==
  /\ Full \/ Cardinality(Rivals(c)) >= Lost(c)
  /\ creator[c].pc = "append" =>
       creator[c].tries > 0 /\ (creator[c].seen = 0 \/ creator[c].seen \in Numbers)
  /\ creator[c].pc = "named" => creator[c].seen > 0 /\ creator[c].tries = 0
  /\ creator[c].pc = "idle" => creator[c].tries < MaxAttempts
  /\ creator[c].pc = "failed" => creator[c].tries = MaxAttempts

TicketsInv == TicketTypes /\ TicketsDistinct /\ \A c \in Creators : CreatorInv(c)

LEMMA TicketBounds == MaxAttempts \in Nat /\ MaxAttempts > 0 /\ LastTicket \in Nat /\ LastTicket > 0
  BY TicketsAssumption

THEOREM TicketsStart == TicketsInit => TicketsInv
<1>. SUFFICES ASSUME TicketsInit PROVE TicketsInv
  OBVIOUS
<1>1. TicketTypes
  BY FS_EmptySet, TicketBounds DEF TicketsInit, TicketTypes, Idle
<1>2. ASSUME NEW c \in Creators PROVE CreatorInv(c)
  <2>1. Rivals(c) = {} /\ Lost(c) = 0
    BY DEF TicketsInit, Rivals, Lost, Idle
  <2>2. Cardinality(Rivals(c)) = 0
    BY <2>1, FS_EmptySet
  <2>. QED  BY <2>1, <2>2, TicketBounds DEF TicketsInit, CreatorInv, Idle
<1>. QED  BY <1>1, <1>2 DEF TicketsInit, TicketsInv, TicketsDistinct

\* What a look up sees: the highest well-formed number, or zero on an empty day.
LEMMA HighestSeen ==
  ASSUME TicketTypes
  PROVE  /\ DayMax \in 0 .. LastTicket /\ (DayMax = 0 \/ DayMax \in Numbers)
         /\ DayMax + 1 \in Numbers => Full
<1>. DEFINE well == {n \in Numbers : n <= LastTicket}
<1>1. Numbers \subseteq Nat
  BY DEF TicketTypes, Numbers
<1>2. well \in SUBSET Int /\ IsFiniteSet(well)
  <2>1. well \subseteq 0 .. LastTicket /\ well \subseteq Int
    <3>1. \A n \in Nat : n <= LastTicket => n \in 0 .. LastTicket /\ n \in Int
      BY TicketBounds
    <3>. QED  BY <1>1, <3>1
  <2>2. IsFiniteSet(0 .. LastTicket)
    BY TicketBounds, FS_Interval
  <2>. HIDE DEF well
  <2>. QED  BY <2>1, <2>2, FS_Subset
<1>3. DayMax = IF well = {} THEN 0 ELSE CHOOSE n \in well : \A m \in well : m <= n
  BY DEF DayMax
<1>4. CASE well = {}
  BY <1>1, <1>3, <1>4, TicketBounds DEF Full
<1>5. CASE well # {}
  <2>1. DayMax \in well /\ \A m \in well : m <= DayMax
    <3>. HIDE DEF well
    <3>1. \E m \in well : \A n \in well : n <= m
      BY <1>2, <1>5, Greatest
    <3>. QED  BY <1>3, <1>5, <3>1
  <2>2. DayMax + 1 \in Numbers => DayMax = LastTicket
    BY <1>1, <2>1, TicketBounds
  <2>. QED  BY <1>1, <2>1, <2>2, TicketBounds DEF Full
<1>. QED  BY <1>4, <1>5

\* A ticket more: the numbers grow by its own, the rivals of others by one.
LEMMA TicketAdded ==
  ASSUME TicketTypes, NEW n \in Nat, n \notin Numbers, NEW c \in Creators, NEW named \in BOOLEAN,
         tickets' = tickets \cup {[number |-> n, by |-> c, named |-> named]}
  PROVE  /\ Numbers' = Numbers \cup {n} /\ (Full => Full')
         /\ tickets' \subseteq [number : Nat, by : Creators, named : BOOLEAN]
         /\ IsFiniteSet(tickets')
         /\ \A q \in Creators :
              /\ Cardinality(Rivals(q)) \in Nat
              /\ q # c => Cardinality(Rivals(q)') = Cardinality(Rivals(q)) + 1
<1>. DEFINE t == [number |-> n, by |-> c, named |-> named]
<1>1. t \notin tickets /\ t.by = c /\ t.number = n
      /\ t \in [number : Nat, by : Creators, named : BOOLEAN]
  BY DEF Numbers
<1>. HIDE DEF t
<1>2. tickets' = tickets \cup {t}
  BY DEF t
<1>3. Numbers' = Numbers \cup {n}
  BY <1>1, <1>2 DEF Numbers
<1>4. IsFiniteSet(tickets')
  BY <1>2, FS_AddElement DEF TicketTypes
<1>5. ASSUME NEW q \in Creators
      PROVE  /\ Cardinality(Rivals(q)) \in Nat
             /\ q # c => Cardinality(Rivals(q)') = Cardinality(Rivals(q)) + 1
  <2>1. Rivals(q) \in SUBSET tickets /\ t \notin Rivals(q)
    BY <1>1 DEF Rivals
  <2>2. IsFiniteSet(Rivals(q)) /\ Cardinality(Rivals(q)) \in Nat
    BY <2>1, FS_Subset, FS_CardinalityType DEF TicketTypes
  <2>3. q # c => Rivals(q)' = Rivals(q) \cup {t}
    BY <1>1, <1>2 DEF Rivals
  <2>. QED  BY <2>1, <2>2, <2>3, FS_AddElement
<1>. QED  BY <1>1, <1>2, <1>3, <1>4, <1>5 DEF Full, TicketTypes

CreatorStates ==
  [pc : {"idle", "append", "named", "failed"}, seen : 0 .. LastTicket, tries : 0 .. MaxAttempts]

\* A creator moves on and leaves the tickets alone: the others see no change.
LEMMA CreatorMoves ==
  ASSUME TicketsInv, NEW c \in Creators, NEW v \in CreatorStates,
         tickets' = tickets, creator' = [creator EXCEPT ![c] = v], CreatorInv(c)'
  PROVE  TicketsInv'
<1>1. TicketTypes'
  BY DEF TicketsInv, TicketTypes, CreatorStates
<1>2. Numbers' = Numbers /\ TicketsDistinct'
  BY DEF TicketsInv, TicketsDistinct, Numbers
<1>3. ASSUME NEW q \in Creators PROVE CreatorInv(q)'
  <2>1. Rivals(q)' = Rivals(q) /\ (Full' <=> Full)
    BY <1>2 DEF Rivals, Full
  <2>. QED
    BY <1>2, <2>1 DEF TicketsInv, TicketTypes, CreatorInv, Lost
<1>. QED  BY <1>1, <1>2, <1>3 DEF TicketsInv

\* A row of its own number: the try of whoever looked up the same number is
\* lost, and to a rival.
LEMMA TicketWritten ==
  ASSUME TicketsInv, NEW c \in Creators, NEW n \in 1 .. LastTicket + 1, NEW named \in BOOLEAN,
         n \notin Numbers, named \/ n = 1 \/ n - 1 \in Numbers,
         tickets' = tickets \cup {[number |-> n, by |-> c, named |-> named]},
         creator' = [creator EXCEPT ![c] = Idle]
  PROVE  TicketsInv'
<1>0. /\ TicketTypes /\ TicketsDistinct /\ \A q \in Creators : CreatorInv(q)
      /\ n \in Nat /\ n <= LastTicket + 1
  BY TicketBounds DEF TicketsInv
<1>1. /\ Numbers' = Numbers \cup {n} /\ (Full => Full')
      /\ tickets' \subseteq [number : Nat, by : Creators, named : BOOLEAN]
      /\ IsFiniteSet(tickets')
      /\ \A q \in Creators :
           /\ Cardinality(Rivals(q)) \in Nat
           /\ q # c => Cardinality(Rivals(q)') = Cardinality(Rivals(q)) + 1
  BY <1>0, TicketAdded
<1>2. Idle \in CreatorStates
  BY TicketBounds DEF Idle, CreatorStates
<1>3. TicketTypes'
  BY <1>0, <1>1, <1>2 DEF TicketTypes, CreatorStates
<1>4. TicketsDistinct'
  <2>1. ASSUME NEW s \in tickets', NEW t \in tickets', s.number = t.number PROVE s = t
    BY <1>0, <2>1 DEF TicketsDistinct, Numbers
  <2>2. ASSUME NEW t \in tickets'
        PROVE  (t.named \/ t.number = 1 \/ t.number - 1 \in Numbers') /\ t.number <= LastTicket + 1
    BY <1>0, <1>1 DEF TicketsDistinct
  <2>. QED  BY <2>1, <2>2 DEF TicketsDistinct
<1>5. ASSUME NEW q \in Creators PROVE CreatorInv(q)'
  <2>1. CASE q = c
    <3>1. creator'[c] = Idle
      BY <1>0 DEF TicketTypes
    <3>2. Rivals(c)' \in SUBSET tickets'
      BY DEF Rivals
    <3>3. Cardinality(Rivals(c)') \in Nat
      BY <1>1, <3>2, FS_Subset, FS_CardinalityType
    <3>. QED  BY <2>1, <3>1, <3>3, TicketBounds DEF CreatorInv, Lost, Idle
  <2>2. CASE q # c
    <3>1. /\ creator'[q] = creator[q] /\ creator[q].tries \in Nat
          /\ Cardinality(Rivals(q)') = Cardinality(Rivals(q)) + 1
          /\ Cardinality(Rivals(q)) \in Nat
      BY <1>0, <1>1, <2>2 DEF TicketTypes
    <3>2. Lost(q) \in Int /\ Lost(q)' <= Lost(q) + 1 /\ Lost(q)' \in Int
      BY <3>1 DEF Lost
    <3>3. CreatorInv(q)
      BY <1>0
    <3>4. Full' \/ Cardinality(Rivals(q)') >= Lost(q)'
      BY <1>1, <3>1, <3>2, <3>3 DEF CreatorInv
    <3>. QED  BY <1>1, <3>1, <3>3, <3>4 DEF CreatorInv
  <2>. QED  BY <2>1, <2>2
<1>. QED  BY <1>3, <1>4, <1>5 DEF TicketsInv

LEMMA TicketsKept ==
  ASSUME TicketsInv, NEW c \in Creators,
         \/ LookUp(c) \/ Allocate(c) \/ AppendNamed(c)
         \/ \E n \in 1 .. LastTicket : LookUpNamed(c, n)
  PROVE  TicketsInv'
<1>0. /\ TicketTypes /\ TicketsDistinct /\ CreatorInv(c) /\ creator[c] \in CreatorStates
      /\ Numbers \subseteq Nat
  BY DEF TicketsInv, TicketTypes, Numbers, CreatorStates
<1>1. /\ creator[c].seen \in 0 .. LastTicket /\ creator[c].tries \in 0 .. MaxAttempts
      /\ Idle \in CreatorStates
      /\ \A v \in CreatorStates : creator' = [creator EXCEPT ![c] = v] => creator'[c] = v
  BY <1>0, TicketBounds DEF CreatorStates, Idle, TicketTypes
<1>2. tickets' = tickets => Rivals(c)' = Rivals(c) /\ Numbers' = Numbers /\ (Full' <=> Full)
  BY DEF Rivals, Numbers, Full
<1>3. CASE LookUp(c)
  <2>. DEFINE v == [pc |-> "append", seen |-> DayMax, tries |-> creator[c].tries + 1]
  <2>1. /\ tickets' = tickets /\ creator' = [creator EXCEPT ![c] = v]
        /\ creator[c].pc = "idle"
    BY <1>3 DEF LookUp
  <2>2. creator[c].tries + 1 \in 1 .. MaxAttempts /\ v \in CreatorStates
    BY <1>0, <1>1, <2>1, HighestSeen, TicketBounds DEF CreatorInv, CreatorStates
  <2>3. Full \/ Cardinality(Rivals(c)) >= creator[c].tries
    BY <1>0, <2>1 DEF CreatorInv, Lost
  <2>4. creator'[c] = v
    BY <1>1, <2>1, <2>2
  <2>5. Full \/ (DayMax + 1 \notin Numbers /\ (creator[c].tries + 1) - 1 = creator[c].tries)
    BY <1>0, <1>1, HighestSeen
  <2>6. DayMax = 0 \/ DayMax \in Numbers
    BY <1>0, HighestSeen
  <2>7. CreatorInv(c)'
    <3>1. /\ creator'[c].pc = "append" /\ creator'[c].seen = DayMax
          /\ creator'[c].tries = creator[c].tries + 1 /\ creator[c].tries + 1 > 0
      BY <2>2, <2>4
    <3>2. Full \/ Lost(c)' = creator[c].tries
      <4>1. Lost(c)' = IF DayMax + 1 \notin Numbers'
                       THEN (creator[c].tries + 1) - 1 ELSE creator[c].tries + 1
        BY <3>1 DEF Lost
      <4>. QED  BY <1>2, <2>1, <2>5, <4>1
    <3>. QED  BY <1>2, <2>1, <2>3, <2>6, <3>1, <3>2 DEF CreatorInv
  <2>. QED  BY <2>1, <2>2, <2>7, CreatorMoves
<1>4. CASE Allocate(c) /\ creator[c].seen + 1 \in Numbers
  <2>. DEFINE v == [creator[c] EXCEPT !.pc =
                      IF creator[c].tries = MaxAttempts THEN "failed" ELSE "idle"]
  <2>1. /\ tickets' = tickets /\ creator' = [creator EXCEPT ![c] = v]
        /\ creator[c].pc = "append"
    BY <1>4 DEF Allocate
  <2>2. v \in CreatorStates /\ v.tries = creator[c].tries
        /\ v.pc = IF creator[c].tries = MaxAttempts THEN "failed" ELSE "idle"
    BY <1>0 DEF CreatorStates
  <2>3. creator'[c] = v
    BY <1>1, <2>1, <2>2
  <2>. HIDE DEF v
  <2>4. CreatorInv(c)'
    <3>1. Lost(c) = creator[c].tries /\ Lost(c)' = creator[c].tries
      BY <1>2, <1>4, <2>1, <2>2, <2>3 DEF Lost
    <3>2. creator[c].tries <= MaxAttempts
      BY <1>1
    <3>. QED
      BY <1>0, <1>1, <1>2, <2>1, <2>2, <2>3, <3>1, <3>2, TicketBounds DEF CreatorInv
  <2>. QED  BY <2>1, <2>2, <2>4, CreatorMoves
<1>5. CASE Allocate(c) /\ creator[c].seen + 1 \notin Numbers
  <2>1. /\ tickets' = tickets \cup {[number |-> creator[c].seen + 1, by |-> c, named |-> FALSE]}
        /\ creator' = [creator EXCEPT ![c] = Idle]
        /\ creator[c].seen = 0 \/ creator[c].seen \in Numbers
    BY <1>0, <1>5 DEF Allocate, CreatorInv
  <2>2. /\ creator[c].seen + 1 \in 1 .. LastTicket + 1
        /\ creator[c].seen + 1 = 1 \/ (creator[c].seen + 1) - 1 \in Numbers
    BY <1>1, <2>1, TicketBounds
  <2>. QED  BY <1>5, <2>1, <2>2, TicketWritten
<1>6. ASSUME NEW n \in 1 .. LastTicket, LookUpNamed(c, n) PROVE TicketsInv'
  <2>1. PICK v \in {Idle, [pc |-> "named", seen |-> n, tries |-> 0]} :
          creator' = [creator EXCEPT ![c] = v]
    BY <1>6 DEF LookUpNamed
  <2>2. v \in CreatorStates /\ v.tries = 0 /\ v.pc \in {"idle", "named"}
        /\ (v.pc = "named" => v.seen > 0)
    BY <1>1, TicketBounds DEF CreatorStates, Idle
  <2>3. tickets' = tickets /\ creator'[c] = v
    BY <1>1, <1>6, <2>1, <2>2 DEF LookUpNamed
  <2>4. Cardinality(Rivals(c)) \in Nat
    <3>1. Rivals(c) \in SUBSET tickets
      BY DEF Rivals
    <3>. QED  BY <1>0, <3>1, FS_Subset, FS_CardinalityType DEF TicketTypes
  <2>5. CreatorInv(c)'
    BY <1>2, <2>2, <2>3, <2>4, TicketBounds DEF CreatorInv, Lost
  <2>. QED  BY <2>1, <2>2, <2>3, <2>5, CreatorMoves
<1>7. CASE AppendNamed(c) /\ creator[c].seen \in Numbers
  <2>1. tickets' = tickets /\ creator' = [creator EXCEPT ![c] = Idle] /\ creator'[c] = Idle
    BY <1>1, <1>7 DEF AppendNamed
  <2>2. Cardinality(Rivals(c)) \in Nat
    <3>1. Rivals(c) \in SUBSET tickets
      BY DEF Rivals
    <3>. QED  BY <1>0, <3>1, FS_Subset, FS_CardinalityType DEF TicketTypes
  <2>3. CreatorInv(c)'
    BY <1>2, <2>1, <2>2, TicketBounds DEF CreatorInv, Lost, Idle
  <2>. QED  BY <1>1, <2>1, <2>3, CreatorMoves
<1>8. CASE AppendNamed(c) /\ creator[c].seen \notin Numbers
  <2>1. /\ tickets' = tickets \cup {[number |-> creator[c].seen, by |-> c, named |-> TRUE]}
        /\ creator' = [creator EXCEPT ![c] = Idle] /\ creator[c].seen > 0
    BY <1>0, <1>8 DEF AppendNamed, CreatorInv
  <2>2. creator[c].seen \in 1 .. LastTicket + 1
    BY <1>1, <2>1, TicketBounds
  <2>. QED  BY <1>8, <2>1, <2>2, TicketWritten
<1>. QED  BY <1>3, <1>4, <1>5, <1>6, <1>7, <1>8

\* Creations side by side share no number, follow one in use unless an operator
\* named theirs, and give up only on a full day or after as many tickets of
\* rivals as they have tries (allocate_ticket).
THEOREM NumbersAreNotShared == TicketsSpec => []TicketsSound
<1>1. TicketsInv /\ [TicketsNext]_ticketVars => TicketsInv'
  <2>. SUFFICES ASSUME TicketsInv, [TicketsNext]_ticketVars PROVE TicketsInv'
    OBVIOUS
  <2>1. CASE TicketsNext
    BY <2>1, TicketsKept DEF TicketsNext
  <2>2. CASE UNCHANGED ticketVars
    <3>1. tickets' = tickets /\ creator' = creator
      BY <2>2 DEF ticketVars
    <3>. QED
      BY <3>1
      DEF TicketsInv, TicketTypes, TicketsDistinct, CreatorInv, Lost, Full, Rivals, Numbers
  <2>. QED  BY <2>1, <2>2
<1>2. TicketsInv => TicketsSound
  <2>. SUFFICES ASSUME TicketsInv PROVE TicketsSound
    OBVIOUS
  <2>1. GivesUpOnlyToRivals
    BY DEF TicketsInv, CreatorInv, Lost, Full, Rivals, GivesUpOnlyToRivals
  <2>. QED  BY <2>1 DEF TicketsInv, TicketsSound
<1>. QED  BY <1>1, <1>2, TicketsStart, PTL DEF TicketsSpec

-----------------------------------------------------------------------------
(* Tool calls *)

CallPlaces == {"limit", "note", "export", "line", "retain", "alert", "deliver", "end"}
CallRec ==
  [host : Hosts, req : Requests, pc : CallPlaces, seq : Nat,
   todo : SUBSET UNION {Sinks[h] : h \in Hosts},
   answer : {"none", "ok", "error", "suppressed", "lost"}]

\* The lines of a bank file: memories, and what a crash left of one.
Lines == STRING \cup {"torn"}

ToolTypes ==
  /\ calls \in Seq(CallRec)
  /\ notes \in Seq([req : Requests, seat : STRING]) /\ dayFile \in Seq(Nat)
  /\ bank \in Seq(Lines) /\ index \in [Hosts -> SUBSET Lines]
  /\ written \in [Hosts -> SUBSET Lines]
  /\ delivered \in [Hosts -> SUBSET (Lines \X UNION {Sinks[h] : h \in Hosts})]

\* The tools whose calls come to a place.
ToolsAt(pc) ==
  IF pc \in {"note", "export", "line"} THEN {"note"}
  ELSE IF pc = "retain" THEN {"retain"}
  ELSE IF pc \in {"alert", "deliver"} THEN {"alert"} ELSE {"note", "retain", "alert"}

\* A line is written under the day file's lock, and is not there yet.
Writing(k) ==
  calls[k].pc = "line" => fileLock = k /\ ~InSeq(calls[k].seq, dayFile)

\* What a call was told is so.
Told(c) ==
  /\ c.answer \in {"ok", "suppressed"} => c.pc = "end"
  /\ c.req.tool = "note" /\ c.answer = "ok" => InSeq(c.seq, dayFile)
  /\ c.req.tool = "retain" /\ c.answer = "ok" => c.req.body \in Indexed(bank)
  /\ c.answer = "suppressed" =>
       \A what \in {"file"} \cup Sinks[c.host] : <<c.host, c.req.body, what>> \in sent

CallsInv ==
  \A k \in DOMAIN calls :
    calls[k].req.tool \in ToolsAt(calls[k].pc) /\ Writing(k) /\ Told(calls[k])

\* What a process knows of the files is in them.
KnownInv ==
  \A h \in Hosts :
    /\ index[h] \subseteq Indexed(bank)
    /\ \A key \in written[h] : <<h, key, "file">> \in sent
    /\ \A d \in delivered[h] : <<h, d[1], d[2]>> \in sent

\* Each line of a memory is of another process that knows it.
Holders(x) == {h \in Hosts : x \in index[h]}
Copies(file, x) == {i \in DOMAIN file : file[i] = x}
CopiesInv ==
  \A x \in Indexed(bank) : Cardinality(Copies(bank, x)) <= Cardinality(Holders(x))

ToolsInv == ToolTypes /\ CallsInv /\ KnownInv /\ CopiesInv /\ OneLinePerNote

LEMMA ToolFacts ==
  /\ IsFiniteSet(Hosts)
  /\ \A q \in Requests :
       /\ q.seat \in STRING /\ q.body \in STRING /\ q.body # "torn"
       /\ q.tool \in {"note", "retain", "alert"}
  BY ToolsAssumption

THEOREM ToolsStart == ToolsInit => ToolsInv
<1>. SUFFICES ASSUME ToolsInit PROVE ToolsInv
  OBVIOUS
<1>1. /\ <<>> \in Seq(CallRec) /\ <<>> \in Seq([req : Requests, seat : STRING])
      /\ <<>> \in Seq(Nat) /\ <<>> \in Seq(Lines) /\ DOMAIN <<>> = {}
  BY EmptySeq
<1>2. ToolTypes
  BY <1>1 DEF ToolsInit, ToolTypes
<1>3. Indexed(<<>>) = {}
  BY <1>1 DEF Indexed
<1>. QED
  BY <1>1, <1>2, <1>3 DEF ToolsInit, ToolsInv, CallsInv, KnownInv, CopiesInv, OneLinePerNote

\* A step of one call leaves the others where they are.
OneCall(k) ==
  /\ calls' \in Seq(CallRec) /\ DOMAIN calls' = DOMAIN calls
  /\ \A j \in DOMAIN calls \ {k} : calls'[j] = calls[j]
  /\ UNCHANGED <<calls[k].host, calls[k].req>>

LEMMA CallChanged ==
  ASSUME calls \in Seq(CallRec), NEW k \in DOMAIN calls,
         NEW STATE v, v \in CallRec, v.host = calls[k].host, v.req = calls[k].req,
         calls' = [calls EXCEPT ![k] = v]
  PROVE  OneCall(k) /\ calls'[k] = v
<1>1. k \in 1 .. Len(calls) /\ Len(calls) \in Nat /\ DOMAIN calls = 1 .. Len(calls)
  BY LenProperties
<1>2. /\ calls' \in Seq(CallRec) /\ Len(calls') = Len(calls)
      /\ \A j \in 1 .. Len(calls) : calls'[j] = IF j = k THEN v ELSE calls[j]
  <2>. DEFINE f == [calls EXCEPT ![k] = v]
  <2>1. f \in Seq(CallRec) /\ Len(f) = Len(calls)
        /\ \A j \in 1 .. Len(calls) : f[j] = IF j = k THEN v ELSE calls[j]
    BY <1>1, ExceptSeq
  <2>. QED  BY <2>1
<1>3. DOMAIN calls' = DOMAIN calls
  BY <1>1, <1>2, LenProperties
<1>. QED  BY <1>1, <1>2, <1>3 DEF OneCall

LEMMA CallIsRec == ASSUME calls \in Seq(CallRec), NEW k \in DOMAIN calls PROVE calls[k] \in CallRec
  BY LenProperties, ElementOfSeq

\* A call that moves on or ends keeps its sequence number.
LEMMA CallMoves ==
  ASSUME calls \in Seq(CallRec), NEW k \in DOMAIN calls,
         NEW place \in CallPlaces, Move(k, place)
  PROVE  /\ OneCall(k) /\ calls'[k].pc = place
         /\ calls'[k].seq = calls[k].seq /\ calls'[k].answer = calls[k].answer
<1>. DEFINE v == [calls[k] EXCEPT !.pc = place]
<1>1. calls[k] \in CallRec
  BY CallIsRec
<1>2. /\ v \in CallRec /\ v.host = calls[k].host /\ v.req = calls[k].req
      /\ v.pc = place /\ v.seq = calls[k].seq /\ v.answer = calls[k].answer
  BY <1>1 DEF CallRec
<1>3. calls' = [calls EXCEPT ![k] = v]
  BY DEF Move
<1>. HIDE DEF v
<1>4. OneCall(k) /\ calls'[k] = v
  BY <1>2, <1>3, CallChanged
<1>. QED  BY <1>2, <1>4

LEMMA CallEnds ==
  ASSUME calls \in Seq(CallRec), NEW k \in DOMAIN calls,
         NEW what \in {"ok", "suppressed"}, End(k, what)
  PROVE  /\ OneCall(k) /\ calls'[k].pc = "end" /\ calls'[k].seq = calls[k].seq
         /\ calls'[k].answer = IF calls[k].answer = "none" THEN what ELSE calls[k].answer
<1>. DEFINE v == [calls[k] EXCEPT !.pc = "end", !.answer = Answered(k, what)]
<1>1. calls[k] \in CallRec
  BY CallIsRec
<1>2. /\ v \in CallRec /\ v.host = calls[k].host /\ v.req = calls[k].req
      /\ v.pc = "end" /\ v.seq = calls[k].seq
      /\ v.answer = IF calls[k].answer = "none" THEN what ELSE calls[k].answer
  BY <1>1 DEF CallRec, Answered, CallPlaces
<1>3. calls' = [calls EXCEPT ![k] = v]
  BY DEF End
<1>. HIDE DEF v
<1>4. OneCall(k) /\ calls'[k] = v
  BY <1>2, <1>3, CallChanged
<1>. QED  BY <1>2, <1>4

\* Nothing that was written or sent goes away.
Grown ==
  /\ \A x : InSeq(x, dayFile) => InSeq(x, dayFile')
  /\ Indexed(bank) \subseteq Indexed(bank') /\ sent \subseteq sent'

\* The other calls stay as they are told; another one at its line is the only
\* one that keeps the lock.
LEMMA CallsStand ==
  ASSUME ToolsInv, NEW k \in DOMAIN calls, OneCall(k), Grown,
         \/ UNCHANGED <<fileLock, dayFile>>
         \/ fileLock \in {0, k},
         calls'[k].req.tool \in ToolsAt(calls'[k].pc), Writing(k)', Told(calls[k])'
  PROVE  calls' \in Seq(CallRec) /\ CallsInv'
<1>1. ASSUME NEW j \in DOMAIN calls, j # k
      PROVE  calls'[j].req.tool \in ToolsAt(calls'[j].pc) /\ Writing(j)' /\ Told(calls[j])'
  <2>1. /\ calls'[j] = calls[j] /\ calls[j].req.tool \in ToolsAt(calls[j].pc)
        /\ Writing(j) /\ Told(calls[j])
    BY <1>1 DEF OneCall, ToolsInv, CallsInv
  <2>2. Told(calls[j])'
    BY <2>1 DEF Told, Grown
  <2>3. Writing(j)'
    <3>1. j # 0
      BY LenProperties DEF ToolsInv, ToolTypes
    <3>. QED  BY <1>1, <2>1, <3>1 DEF Writing
  <2>. QED  BY <2>1, <2>2, <2>3
<1>. QED  BY <1>1 DEF OneCall, CallsInv

\* A step of a call that leaves the files and what is known of them alone.
LEMMA FilesStand ==
  ASSUME ToolsInv, UNCHANGED <<notes, dayFile, bankVars, alertVars>>,
         calls' \in Seq(CallRec), CallsInv'
  PROVE  ToolsInv'
<1>1. UNCHANGED <<notes, dayFile, bank, index, sent, written, delivered>>
  BY DEF bankVars, alertVars
<1>2. Indexed(bank)' = Indexed(bank)
  BY <1>1
<1>. QED
  BY <1>1, <1>2
  DEF ToolsInv, ToolTypes, KnownInv, CopiesInv, Copies, Holders, OneLinePerNote

LEMMA ArriveKeeps ==
  ASSUME ToolsInv, NEW h \in Hosts, NEW q \in Requests, Arrive(h, q)
  PROVE  ToolsInv'
<1>. DEFINE c == [host |-> h, req |-> q, pc |-> "limit", seq |-> 0,
                  todo |-> {}, answer |-> "none"]
<1>1. /\ calls' = Append(calls, c) /\ calls \in Seq(CallRec)
      /\ UNCHANGED <<notes, dayFile, fileLock, bank, index, alertVars>>
  BY DEF Arrive, ToolsInv, ToolTypes, journalVars, bankVars
<1>2. c \in CallRec /\ c.req = q /\ c.pc = "limit" /\ c.answer = "none"
  BY DEF CallRec, CallPlaces
<1>. HIDE DEF c
<1>3. /\ calls' \in Seq(CallRec) /\ DOMAIN calls' = DOMAIN calls \cup {Len(calls) + 1}
      /\ \A j \in DOMAIN calls : calls'[j] = calls[j]
      /\ calls'[Len(calls) + 1] = c
  BY <1>1, <1>2
<1>4. ASSUME NEW j \in DOMAIN calls'
      PROVE  calls'[j].req.tool \in ToolsAt(calls'[j].pc) /\ Writing(j)' /\ Told(calls[j])'
  <2>1. CASE j \in DOMAIN calls
    <3>1. calls[j].req.tool \in ToolsAt(calls[j].pc) /\ Writing(j) /\ Told(calls[j])
      BY <2>1 DEF ToolsInv, CallsInv
    <3>. QED  BY <1>1, <1>3, <2>1, <3>1 DEF Writing, Told, alertVars
  <2>2. CASE j = Len(calls) + 1
    BY <1>2, <1>3, <2>2, ToolFacts DEF ToolsAt, Writing, Told
  <2>. QED  BY <1>3, <2>1, <2>2
<1>5. CallsInv'
  BY <1>4 DEF CallsInv
<1>. QED  BY <1>1, <1>3, <1>5, FilesStand DEF bankVars

LEMMA AcquireKeeps ==
  ASSUME ToolsInv, NEW k \in DOMAIN calls, Acquire(k)
  PROVE  ToolsInv'
<1>1. /\ calls \in Seq(CallRec) /\ calls[k].pc = "limit" /\ Move(k, calls[k].req.tool)
      /\ UNCHANGED <<notes, dayFile, fileLock, bankVars, alertVars>>
      /\ calls[k] \in CallRec /\ Told(calls[k])
  BY CallIsRec DEF Acquire, ToolsInv, ToolTypes, CallsInv, journalVars
<1>2. calls[k].req.tool \in {"note", "retain", "alert"}
  BY <1>1, ToolFacts DEF CallRec
<1>3. /\ OneCall(k) /\ calls'[k].pc = calls[k].req.tool
      /\ calls'[k].answer = calls[k].answer
  BY <1>1, <1>2, CallMoves DEF CallPlaces
<1>4. calls'[k].req.tool \in ToolsAt(calls'[k].pc)
  BY <1>2, <1>3 DEF ToolsAt, OneCall
<1>5. Writing(k)' /\ Told(calls[k])'
  BY <1>1, <1>2, <1>3 DEF Writing, Told, OneCall
<1>6. Grown
  BY <1>1 DEF Grown, bankVars, alertVars
<1>7. calls' \in Seq(CallRec) /\ CallsInv'
  BY <1>1, <1>3, <1>4, <1>5, <1>6, CallsStand
<1>. QED  BY <1>1, <1>7, FilesStand

LEMMA TimeOutKeeps ==
  ASSUME ToolsInv, NEW k \in DOMAIN calls, TimeOut(k)
  PROVE  ToolsInv'
<1>. DEFINE place == IF calls[k].pc \in {"export", "line"} THEN calls[k].pc ELSE "end"
            v == [calls[k] EXCEPT !.answer = "error", !.pc = place]
<1>1. /\ calls \in Seq(CallRec) /\ calls' = [calls EXCEPT ![k] = v]
      /\ UNCHANGED <<notes, dayFile, fileLock, bankVars, alertVars>>
      /\ calls[k] \in CallRec /\ Told(calls[k]) /\ Writing(k)
      /\ calls[k].req.tool \in ToolsAt(calls[k].pc)
  BY CallIsRec DEF TimeOut, ToolsInv, ToolTypes, CallsInv, journalVars
<1>2. /\ v \in CallRec /\ v.host = calls[k].host /\ v.req = calls[k].req
      /\ v.pc = place /\ v.answer = "error" /\ v.seq = calls[k].seq
  BY <1>1 DEF CallRec, CallPlaces
<1>3. place = "end" \/ (place = calls[k].pc /\ place \in {"export", "line"})
  OBVIOUS
<1>. HIDE DEF v, place
<1>4. OneCall(k) /\ calls'[k] = v
  BY <1>1, <1>2, CallChanged
<1>5. calls'[k].req.tool \in ToolsAt(calls'[k].pc)
  BY <1>1, <1>2, <1>3, <1>4, ToolFacts DEF ToolsAt, CallRec
<1>6. Writing(k)' /\ Told(calls[k])'
  BY <1>1, <1>2, <1>3, <1>4 DEF Writing, Told
<1>7. Grown
  BY <1>1 DEF Grown, bankVars, alertVars
<1>8. calls' \in Seq(CallRec) /\ CallsInv'
  BY <1>1, <1>4, <1>5, <1>6, <1>7, CallsStand
<1>. QED  BY <1>1, <1>8, FilesStand

\* A step on the journal leaves the bank, the sinks and what is known alone.
LEMMA JournalStands ==
  ASSUME ToolsInv, UNCHANGED <<bankVars, alertVars>>,
         calls' \in Seq(CallRec), CallsInv',
         notes' \in Seq([req : Requests, seat : STRING]), dayFile' \in Seq(Nat),
         OneLinePerNote'
  PROVE  ToolsInv'
<1>1. UNCHANGED <<bank, index, sent, written, delivered>>
  BY DEF bankVars, alertVars
<1>2. Indexed(bank)' = Indexed(bank)
  BY <1>1
<1>. QED
  BY <1>1, <1>2 DEF ToolsInv, ToolTypes, KnownInv, CopiesInv, Copies, Holders

LEMMA AppendNoteKeeps ==
  ASSUME ToolsInv, NEW k \in DOMAIN calls, AppendNote(k)
  PROVE  ToolsInv'
<1>. DEFINE q == calls[k].req
            known == \E i \in DOMAIN notes : notes[i].req = q
            seq == IF known THEN RowOf(q) ELSE Len(notes) + 1
            v == [calls[k] EXCEPT !.pc = "export", !.seq = seq]
            row == [req |-> q, seat |-> q.seat]
<1>1. /\ calls \in Seq(CallRec) /\ calls[k].pc = "note"
      /\ notes \in Seq([req : Requests, seat : STRING])
      /\ calls[k] \in CallRec /\ Told(calls[k])
      /\ calls[k].req.tool \in ToolsAt(calls[k].pc)
      /\ OneLinePerNote /\ dayFile \in Seq(Nat)
  BY CallIsRec DEF AppendNote, ToolsInv, ToolTypes, CallsInv
<1>2. /\ calls' = [calls EXCEPT ![k] = v]
      /\ notes' = IF known THEN notes ELSE Append(notes, row)
      /\ UNCHANGED <<dayFile, fileLock, bankVars, alertVars>>
  BY DEF AppendNote
<1>3. seq \in Nat
  <2>1. DOMAIN notes = 1 .. Len(notes) /\ Len(notes) \in Nat
    BY <1>1
  <2>2. known => RowOf(q) \in DOMAIN notes
    BY DEF RowOf
  <2>. QED  BY <2>1, <2>2
<1>4. /\ v \in CallRec /\ v.host = calls[k].host /\ v.req = calls[k].req
      /\ v.pc = "export" /\ v.answer = calls[k].answer
  <2>. HIDE DEF seq
  <2>. QED  BY <1>1, <1>3 DEF CallRec, CallPlaces
<1>. HIDE DEF v
<1>5. OneCall(k) /\ calls'[k] = v
  BY <1>1, <1>2, <1>4, CallChanged
<1>6. calls'[k].req.tool \in ToolsAt(calls'[k].pc)
  BY <1>1, <1>4, <1>5 DEF ToolsAt
<1>7. Writing(k)' /\ Told(calls[k])'
  BY <1>1, <1>4, <1>5 DEF Writing, Told
<1>8. Grown
  BY <1>2 DEF Grown, bankVars, alertVars
<1>9. calls' \in Seq(CallRec) /\ CallsInv'
  BY <1>2, <1>5, <1>6, <1>7, <1>8, CallsStand
<1>10. notes' \in Seq([req : Requests, seat : STRING]) /\ OneLinePerNote'
  <2>1. CASE known
    BY <1>1, <1>2, <2>1 DEF OneLinePerNote
  <2>2. CASE ~known
    <3>1. row \in [req : Requests, seat : STRING] /\ row.req = q
      BY <1>1, ToolFacts DEF CallRec
    <3>. HIDE DEF row
    <3>2. /\ notes' = Append(notes, row) /\ Len(notes) \in Nat
          /\ notes' \in Seq([req : Requests, seat : STRING])
          /\ DOMAIN notes = 1 .. Len(notes) /\ DOMAIN notes' = 1 .. Len(notes) + 1
          /\ notes'[Len(notes) + 1] = row
          /\ \A i \in DOMAIN notes : notes'[i] = notes[i]
      BY <1>1, <1>2, <2>2, <3>1
    <3>3. \A i, j \in DOMAIN notes' : notes'[i].req = notes'[j].req => i = j
      BY <1>1, <2>2, <3>1, <3>2 DEF OneLinePerNote
    <3>. QED  BY <1>1, <1>2, <3>2, <3>3 DEF OneLinePerNote
  <2>. QED  BY <2>1, <2>2
<1>. QED  BY <1>1, <1>2, <1>9, <1>10, JournalStands

LEMMA OpenDayFileKeeps ==
  ASSUME ToolsInv, NEW k \in DOMAIN calls, OpenDayFile(k)
  PROVE  ToolsInv'
<1>1. /\ calls \in Seq(CallRec) /\ calls[k].pc = "export" /\ fileLock = 0
      /\ UNCHANGED <<notes, dayFile, bankVars, alertVars>>
      /\ calls[k] \in CallRec /\ Told(calls[k])
      /\ calls[k].req.tool = "note"
  BY CallIsRec DEF OpenDayFile, ToolsInv, ToolTypes, CallsInv, ToolsAt
<1>2. Grown
  BY <1>1 DEF Grown, bankVars, alertVars
<1>3. CASE InSeq(calls[k].seq, dayFile) /\ End(k, "ok")
  <2>1. /\ OneCall(k) /\ calls'[k].pc = "end" /\ calls'[k].seq = calls[k].seq
        /\ calls'[k].answer = IF calls[k].answer = "none" THEN "ok" ELSE calls[k].answer
    BY <1>1, <1>3, CallEnds
  <2>2. calls'[k].req.tool \in ToolsAt(calls'[k].pc)
    BY <1>1, <2>1 DEF ToolsAt, OneCall
  <2>3. Writing(k)' /\ Told(calls[k])'
    BY <1>1, <1>3, <2>1 DEF Writing, Told, OneCall
  <2>4. calls' \in Seq(CallRec) /\ CallsInv'
    BY <1>1, <1>2, <2>1, <2>2, <2>3, CallsStand
  <2>. QED  BY <1>1, <2>4, FilesStand
<1>4. CASE /\ ~InSeq(calls[k].seq, dayFile) /\ Move(k, "line") /\ fileLock' = k
  <2>1. /\ OneCall(k) /\ calls'[k].pc = "line" /\ calls'[k].seq = calls[k].seq
        /\ calls'[k].answer = calls[k].answer
    BY <1>1, <1>4, CallMoves DEF CallPlaces
  <2>2. calls'[k].req.tool \in ToolsAt(calls'[k].pc)
    BY <1>1, <2>1 DEF ToolsAt, OneCall
  <2>3. Writing(k)' /\ Told(calls[k])'
    BY <1>1, <1>4, <2>1 DEF Writing, Told, OneCall
  <2>4. calls' \in Seq(CallRec) /\ CallsInv'
    BY <1>1, <1>2, <2>1, <2>2, <2>3, CallsStand
  <2>. QED  BY <1>1, <2>4, FilesStand
<1>. QED  BY <1>3, <1>4 DEF OpenDayFile

LEMMA WriteLineKeeps ==
  ASSUME ToolsInv, NEW k \in DOMAIN calls, WriteLine(k)
  PROVE  ToolsInv'
<1>1. /\ calls \in Seq(CallRec) /\ calls[k].pc = "line" /\ End(k, "ok")
      /\ dayFile' = Append(dayFile, calls[k].seq)
      /\ UNCHANGED <<notes, bankVars, alertVars>>
      /\ calls[k] \in CallRec /\ Told(calls[k]) /\ Writing(k)
      /\ calls[k].req.tool = "note" /\ dayFile \in Seq(Nat)
      /\ notes \in Seq([req : Requests, seat : STRING]) /\ OneLinePerNote
  BY CallIsRec DEF WriteLine, ToolsInv, ToolTypes, CallsInv, ToolsAt
<1>2. calls[k].seq \in Nat /\ fileLock = k /\ ~InSeq(calls[k].seq, dayFile)
  BY <1>1 DEF CallRec, Writing
<1>3. /\ dayFile' \in Seq(Nat) /\ Len(dayFile) \in Nat
      /\ DOMAIN dayFile = 1 .. Len(dayFile) /\ DOMAIN dayFile' = 1 .. Len(dayFile) + 1
      /\ dayFile'[Len(dayFile) + 1] = calls[k].seq
      /\ \A i \in DOMAIN dayFile : dayFile'[i] = dayFile[i]
  BY <1>1, <1>2
<1>4. InSeq(calls[k].seq, dayFile') /\ Grown
  <2>1. InSeq(calls[k].seq, dayFile')
    BY <1>3 DEF InSeq
  <2>2. \A x : InSeq(x, dayFile) => InSeq(x, dayFile')
    BY <1>3 DEF InSeq
  <2>. QED  BY <1>1, <2>1, <2>2 DEF Grown, bankVars, alertVars
<1>5. OneLinePerNote'
  <2>1. \A i, j \in DOMAIN dayFile' : dayFile'[i] = dayFile'[j] => i = j
    BY <1>1, <1>2, <1>3 DEF OneLinePerNote, InSeq
  <2>. QED  BY <1>1, <2>1 DEF OneLinePerNote
<1>6. /\ OneCall(k) /\ calls'[k].pc = "end" /\ calls'[k].seq = calls[k].seq
      /\ calls'[k].answer = IF calls[k].answer = "none" THEN "ok" ELSE calls[k].answer
  BY <1>1, CallEnds
<1>7. calls'[k].req.tool \in ToolsAt(calls'[k].pc)
  BY <1>1, <1>6 DEF ToolsAt, OneCall
<1>8. Writing(k)' /\ Told(calls[k])'
  BY <1>1, <1>4, <1>6 DEF Writing, Told, OneCall
<1>9. calls' \in Seq(CallRec) /\ CallsInv'
  BY <1>2, <1>4, <1>6, <1>7, <1>8, CallsStand
<1>. QED  BY <1>1, <1>3, <1>5, <1>9, JournalStands

\* A line more in a bank file: one copy more of it, none of any other.
LEMMA LineAdded ==
  ASSUME NEW file \in Seq(Lines), NEW line \in Lines
  PROVE  LET longer == Append(file, line) IN
         /\ longer \in Seq(Lines)
         /\ Indexed(longer) = Indexed(file) \cup ({line} \ {"torn"})
         /\ \A x : /\ IsFiniteSet(Copies(file, x)) /\ Cardinality(Copies(file, x)) \in Nat
                   /\ Cardinality(Copies(longer, x)) =
                        Cardinality(Copies(file, x)) + IF x = line THEN 1 ELSE 0
<1>. DEFINE longer == Append(file, line)
            n == Len(file) + 1
<1>. SUFFICES /\ longer \in Seq(Lines)
              /\ Indexed(longer) = Indexed(file) \cup ({line} \ {"torn"})
              /\ \A x : /\ IsFiniteSet(Copies(file, x)) /\ Cardinality(Copies(file, x)) \in Nat
                        /\ Cardinality(Copies(longer, x)) =
                             Cardinality(Copies(file, x)) + IF x = line THEN 1 ELSE 0
  OBVIOUS
<1>1. /\ longer \in Seq(Lines) /\ Len(file) \in Nat
      /\ DOMAIN file = 1 .. Len(file) /\ DOMAIN longer = DOMAIN file \cup {n}
      /\ n \notin DOMAIN file /\ longer[n] = line
      /\ \A i \in DOMAIN file : longer[i] = file[i]
  <2>1. Len(file) \in Nat /\ DOMAIN file = 1 .. Len(file)
    BY LenProperties
  <2>2. longer \in Seq(Lines) /\ Len(longer) = n /\ longer[n] = line
        /\ \A i \in 1 .. Len(file) : longer[i] = file[i]
    BY AppendProperties
  <2>3. DOMAIN longer = 1 .. n
    BY <2>2, LenProperties
  <2>. HIDE DEF longer
  <2>. QED  BY <2>1, <2>2, <2>3
<1>. HIDE DEF longer, n
<1>2. Indexed(longer) = Indexed(file) \cup ({line} \ {"torn"})
  BY <1>1 DEF Indexed
<1>3. ASSUME NEW x
      PROVE  /\ IsFiniteSet(Copies(file, x)) /\ Cardinality(Copies(file, x)) \in Nat
             /\ Cardinality(Copies(longer, x)) =
                  Cardinality(Copies(file, x)) + IF x = line THEN 1 ELSE 0
  <2>1. IsFiniteSet(1 .. Len(file)) /\ Copies(file, x) \in SUBSET (1 .. Len(file))
    BY <1>1, FS_Interval DEF Copies
  <2>2. IsFiniteSet(Copies(file, x)) /\ Cardinality(Copies(file, x)) \in Nat
    BY <2>1, FS_Subset, FS_CardinalityType
  <2>3. CASE x = line
    <3>1. Copies(longer, x) = Copies(file, x) \cup {n} /\ n \notin Copies(file, x)
      BY <1>1, <2>3 DEF Copies
    <3>. QED  BY <2>2, <2>3, <3>1, FS_AddElement
  <2>4. CASE x # line
    <3>1. Copies(longer, x) = Copies(file, x)
      BY <1>1, <2>4 DEF Copies
    <3>. QED  BY <2>2, <2>4, <3>1
  <2>. QED  BY <2>2, <2>3, <2>4
<1>. QED  BY <1>1, <1>2, <1>3

\* The bound on copies, also of what is not in the bank yet.
LEMMA CopiesBounded ==
  ASSUME ToolsInv, NEW x, x # "torn"
  PROVE  /\ Cardinality(Copies(bank, x)) <= Cardinality(Holders(x))
         /\ IsFiniteSet(Holders(x)) /\ Cardinality(Holders(x)) \in Nat
         /\ Cardinality(Copies(bank, x)) \in Nat
<1>1. Holders(x) \in SUBSET Hosts
  BY DEF Holders
<1>2. IsFiniteSet(Holders(x)) /\ Cardinality(Holders(x)) \in Nat
  BY <1>1, ToolFacts, FS_Subset, FS_CardinalityType
<1>3. CASE x \in Indexed(bank)
  <2>1. Cardinality(Copies(bank, x)) \in Nat
    <3>1. bank \in Seq(Lines)
      BY DEF ToolsInv, ToolTypes
    <3>2. "torn" \in Lines
      BY DEF Lines
    <3>. QED  BY <3>1, <3>2, LineAdded
  <2>. QED  BY <1>2, <1>3, <2>1 DEF ToolsInv, CopiesInv
<1>4. CASE x \notin Indexed(bank)
  <2>1. Copies(bank, x) = {}
    BY <1>4 DEF Copies, Indexed
  <2>. QED  BY <1>2, <2>1, FS_EmptySet
<1>. QED  BY <1>3, <1>4

LEMMA RetainKeeps ==
  ASSUME ToolsInv, NEW k \in DOMAIN calls, Retain(k)
  PROVE  ToolsInv'
<1>. DEFINE h == calls[k].host
            key == calls[k].req.body
<1>1. /\ calls \in Seq(CallRec) /\ calls[k].pc = "retain" /\ End(k, "ok")
      /\ UNCHANGED <<notes, dayFile, fileLock, alertVars>>
      /\ calls[k] \in CallRec /\ Told(calls[k])
      /\ calls[k].req.tool = "retain"
      /\ bank \in Seq(Lines) /\ index \in [Hosts -> SUBSET Lines]
      /\ KnownInv
  BY CallIsRec DEF Retain, ToolsInv, ToolTypes, CallsInv, ToolsAt, journalVars
<1>2. h \in Hosts /\ key \in Lines /\ key # "torn"
  BY <1>1, ToolFacts DEF CallRec, Lines
<1>. HIDE DEF h, key
<1>3. CASE key \in index[h] /\ UNCHANGED bankVars
  <2>1. UNCHANGED <<bank, index>>
    BY <1>3 DEF bankVars
  <2>2. key \in Indexed(bank')
    BY <1>1, <1>2, <1>3, <2>1 DEF KnownInv
  <2>3. Grown
    BY <1>1, <2>1 DEF Grown, alertVars
  <2>4. /\ OneCall(k) /\ calls'[k].pc = "end" /\ calls'[k].seq = calls[k].seq
        /\ calls'[k].answer = IF calls[k].answer = "none" THEN "ok" ELSE calls[k].answer
    BY <1>1, CallEnds
  <2>5. calls'[k].req.tool \in ToolsAt(calls'[k].pc)
    BY <1>1, <2>4 DEF ToolsAt, OneCall
  <2>6. Writing(k)' /\ Told(calls[k])'
    BY <1>1, <2>2, <2>4 DEF Writing, Told, OneCall, key
  <2>7. calls' \in Seq(CallRec) /\ CallsInv'
    BY <1>1, <2>3, <2>4, <2>5, <2>6, CallsStand
  <2>. QED  BY <1>1, <1>3, <2>7, FilesStand
<1>4. CASE /\ key \notin index[h] /\ bank' = Append(bank, key)
           /\ index' = [index EXCEPT ![h] = @ \cup {key}]
  <2>1. /\ bank' \in Seq(Lines) /\ Indexed(bank') = Indexed(bank) \cup {key}
        /\ \A x : /\ Cardinality(Copies(bank, x)) \in Nat
                  /\ Cardinality(Copies(bank', x)) =
                       Cardinality(Copies(bank, x)) + IF x = key THEN 1 ELSE 0
    BY <1>1, <1>2, <1>4, LineAdded
  <2>2. index' \in [Hosts -> SUBSET Lines]
    BY <1>1, <1>2, <1>4
  <2>3. Grown
    BY <1>1, <2>1 DEF Grown, alertVars
  <2>4. /\ OneCall(k) /\ calls'[k].pc = "end" /\ calls'[k].seq = calls[k].seq
        /\ calls'[k].answer = IF calls[k].answer = "none" THEN "ok" ELSE calls[k].answer
    BY <1>1, CallEnds
  <2>5. calls'[k].req.tool \in ToolsAt(calls'[k].pc)
    BY <1>1, <2>4 DEF ToolsAt, OneCall
  <2>6. Writing(k)' /\ Told(calls[k])'
    BY <1>1, <2>1, <2>4 DEF Writing, Told, OneCall, key
  <2>7. calls' \in Seq(CallRec) /\ CallsInv'
    BY <1>1, <2>3, <2>4, <2>5, <2>6, CallsStand
  <2>8. ToolTypes' /\ OneLinePerNote'
    BY <1>1, <2>1, <2>2, <2>7 DEF ToolsInv, ToolTypes, OneLinePerNote, alertVars
  <2>9. KnownInv'
    BY <1>1, <1>2, <1>4, <2>1 DEF KnownInv, alertVars
  <2>10. ASSUME NEW x \in Indexed(bank')
         PROVE  Cardinality(Copies(bank', x)) <= Cardinality(Holders(x)')
    <3>1. /\ Cardinality(Copies(bank, x)) <= Cardinality(Holders(x))
          /\ IsFiniteSet(Holders(x)) /\ Cardinality(Holders(x)) \in Nat
          /\ Cardinality(Copies(bank, x)) \in Nat
      BY CopiesBounded DEF Indexed
    <3>2. CASE x = key
      <4>1. Holders(x)' = Holders(x) \cup {h} /\ h \notin Holders(x)
        BY <1>1, <1>2, <1>4, <3>2 DEF Holders
      <4>2. Cardinality(Holders(x)') = Cardinality(Holders(x)) + 1
        BY <3>1, <4>1, FS_AddElement
      <4>. QED  BY <2>1, <3>1, <3>2, <4>2
    <3>3. CASE x # key
      <4>1. Holders(x)' = Holders(x)
        BY <1>1, <1>2, <1>4, <3>3 DEF Holders
      <4>. QED  BY <2>1, <3>1, <3>3, <4>1
    <3>. QED  BY <3>2, <3>3
  <2>. QED  BY <2>7, <2>8, <2>9, <2>10 DEF ToolsInv, CopiesInv
<1>. QED  BY <1>3, <1>4 DEF Retain, WithLine, h, key

\* A step on the alerts leaves the journal and the bank alone.
LEMMA AlertsStand ==
  ASSUME ToolsInv, UNCHANGED <<notes, dayFile, bankVars>>,
         calls' \in Seq(CallRec), CallsInv', sent \subseteq sent',
         written' \in [Hosts -> SUBSET Lines],
         delivered' \in [Hosts -> SUBSET (Lines \X UNION {Sinks[h] : h \in Hosts})],
         \A h \in Hosts : /\ \A key \in written'[h] : <<h, key, "file">> \in sent'
                          /\ \A d \in delivered'[h] : <<h, d[1], d[2]>> \in sent'
  PROVE  ToolsInv'
<1>1. UNCHANGED <<bank, index>>
  BY DEF bankVars
<1>2. Indexed(bank)' = Indexed(bank)
  BY <1>1
<1>. QED
  BY <1>1, <1>2
  DEF ToolsInv, ToolTypes, KnownInv, CopiesInv, Copies, Holders, OneLinePerNote

LEMMA SendAlertKeeps ==
  ASSUME ToolsInv, NEW k \in DOMAIN calls, SendAlert(k)
  PROVE  ToolsInv'
<1>. DEFINE h == calls[k].host
            key == calls[k].req.body
<1>1. /\ calls \in Seq(CallRec) /\ calls[k].pc = "alert"
      /\ UNCHANGED <<notes, dayFile, fileLock, bankVars, delivered>>
      /\ calls[k] \in CallRec /\ Told(calls[k])
      /\ calls[k].req.tool = "alert"
      /\ written \in [Hosts -> SUBSET Lines]
      /\ delivered \in [Hosts -> SUBSET (Lines \X UNION {Sinks[g] : g \in Hosts})]
      /\ KnownInv
  BY CallIsRec
  DEF SendAlert, ToolsInv, ToolTypes, CallsInv, ToolsAt, journalVars, alertVars
<1>2. h \in Hosts /\ key \in Lines
  BY <1>1, ToolFacts DEF CallRec, Lines
<1>3. CASE Pending(h, key) = {} /\ key \in written[h] /\ End(k, "suppressed") /\ UNCHANGED alertVars
  <2>1. \A what \in {"file"} \cup Sinks[h] : <<h, key, what>> \in sent
    <3>1. <<h, key, "file">> \in sent
      BY <1>1, <1>2, <1>3 DEF KnownInv
    <3>2. ASSUME NEW s \in Sinks[h] PROVE <<h, key, s>> \in sent
      <4>1. <<key, s>> \in delivered[h]
        BY <1>3 DEF Pending
      <4>2. \A d \in delivered[h] : <<h, d[1], d[2]>> \in sent
        BY <1>1, <1>2 DEF KnownInv
      <4>. QED  BY <4>1, <4>2
    <3>. QED  BY <3>1, <3>2
  <2>2. /\ OneCall(k) /\ calls'[k].pc = "end" /\ calls'[k].seq = calls[k].seq
        /\ calls'[k].answer = IF calls[k].answer = "none" THEN "suppressed" ELSE calls[k].answer
    BY <1>1, <1>3, CallEnds
  <2>3. calls'[k].req.tool \in ToolsAt(calls'[k].pc)
    BY <1>1, <2>2 DEF ToolsAt, OneCall
  <2>4. Grown /\ sent' = sent
    BY <1>1, <1>3 DEF Grown, bankVars, alertVars
  <2>5. calls'[k].req.tool = "alert" /\ calls'[k].host = h /\ calls'[k].req.body = key
    BY <1>1, <2>2 DEF OneCall
  <2>6. Writing(k)' /\ Told(calls[k])'
    BY <2>1, <2>2, <2>4, <2>5 DEF Writing, Told
  <2>7. calls' \in Seq(CallRec) /\ CallsInv'
    BY <1>1, <2>2, <2>3, <2>4, <2>6, CallsStand
  <2>. QED  BY <1>1, <1>3, <2>7, FilesStand
<1>4. CASE /\ calls' = [calls EXCEPT ![k].pc = "deliver", ![k].todo = Pending(h, key)]
           /\ \/ /\ sent' = sent \cup {<<h, key, "file">>}
                 /\ written' = [written EXCEPT ![h] = @ \cup {key}]
              \/ UNCHANGED <<sent, written>>
  <2>. DEFINE v == [calls[k] EXCEPT !.pc = "deliver", !.todo = Pending(h, key)]
  <2>1. Pending(h, key) \in SUBSET UNION {Sinks[g] : g \in Hosts}
    BY <1>2 DEF Pending
  <2>2. /\ v \in CallRec /\ v.host = calls[k].host /\ v.req = calls[k].req
        /\ v.pc = "deliver" /\ v.answer = calls[k].answer
    <3>. HIDE DEF h, key
    <3>. QED  BY <1>1, <2>1 DEF CallRec, CallPlaces
  <2>3. calls' = [calls EXCEPT ![k] = v]
    BY <1>4
  <2>. HIDE DEF v
  <2>4. OneCall(k) /\ calls'[k] = v
    BY <1>1, <2>2, <2>3, CallChanged
  <2>5. calls'[k].req.tool \in ToolsAt(calls'[k].pc)
    BY <1>1, <2>2, <2>4 DEF ToolsAt
  <2>6. sent \subseteq sent' /\ Grown
    BY <1>1, <1>4 DEF Grown, bankVars
  <2>7. Writing(k)' /\ Told(calls[k])'
    BY <1>1, <2>2, <2>4 DEF Writing, Told
  <2>8. calls' \in Seq(CallRec) /\ CallsInv'
    BY <1>1, <2>4, <2>5, <2>6, <2>7, CallsStand
  <2>. HIDE DEF h, key
  <2>9. written' \in [Hosts -> SUBSET Lines]
    BY <1>1, <1>2, <1>4
  <2>10. \A g \in Hosts : /\ \A x \in written'[g] : <<g, x, "file">> \in sent'
                          /\ \A d \in delivered'[g] : <<g, d[1], d[2]>> \in sent'
    BY <1>1, <1>2, <1>4 DEF KnownInv
  <2>. QED  BY <1>1, <2>6, <2>8, <2>9, <2>10, AlertsStand
<1>. QED  BY <1>3, <1>4 DEF SendAlert

LEMMA ReachKeeps ==
  ASSUME ToolsInv, NEW k \in DOMAIN calls, NEW s \in calls[k].todo, Reach(k, s)
  PROVE  ToolsInv'
<1>. DEFINE h == calls[k].host
            key == calls[k].req.body
            v == [calls[k] EXCEPT !.todo = @ \ {s}]
<1>1. /\ calls \in Seq(CallRec) /\ calls[k].pc = "deliver"
      /\ UNCHANGED <<notes, dayFile, fileLock, bankVars, written>>
      /\ calls[k] \in CallRec /\ Told(calls[k])
      /\ calls[k].req.tool = "alert"
      /\ written \in [Hosts -> SUBSET Lines]
      /\ delivered \in [Hosts -> SUBSET (Lines \X UNION {Sinks[g] : g \in Hosts})]
      /\ KnownInv
  BY CallIsRec DEF Reach, ToolsInv, ToolTypes, CallsInv, ToolsAt, journalVars
<1>2. /\ calls' = [calls EXCEPT ![k] = v]
      /\ \/ /\ delivered' = [delivered EXCEPT ![h] = @ \cup {<<key, s>>}]
            /\ sent' = sent \cup {<<h, key, s>>}
         \/ UNCHANGED <<delivered, sent>>
  BY DEF Reach
<1>3. h \in Hosts /\ key \in Lines /\ s \in UNION {Sinks[g] : g \in Hosts}
  BY <1>1, ToolFacts DEF CallRec, Lines
<1>4. /\ v \in CallRec /\ v.host = calls[k].host /\ v.req = calls[k].req
      /\ v.pc = "deliver" /\ v.answer = calls[k].answer
  BY <1>1 DEF CallRec
<1>. HIDE DEF v
<1>5. OneCall(k) /\ calls'[k] = v
  BY <1>1, <1>2, <1>4, CallChanged
<1>6. calls'[k].req.tool \in ToolsAt(calls'[k].pc)
  BY <1>1, <1>4, <1>5 DEF ToolsAt
<1>7. sent \subseteq sent' /\ Grown
  BY <1>1, <1>2 DEF Grown, bankVars
<1>8. Writing(k)' /\ Told(calls[k])'
  BY <1>1, <1>4, <1>5 DEF Writing, Told
<1>9. calls' \in Seq(CallRec) /\ CallsInv'
  BY <1>1, <1>5, <1>6, <1>7, <1>8, CallsStand
<1>. HIDE DEF h, key
<1>10. delivered' \in [Hosts -> SUBSET (Lines \X UNION {Sinks[g] : g \in Hosts})]
  BY <1>1, <1>2, <1>3
<1>11. \A g \in Hosts : /\ \A x \in written'[g] : <<g, x, "file">> \in sent'
                        /\ \A d \in delivered'[g] : <<g, d[1], d[2]>> \in sent'
  BY <1>1, <1>2, <1>3 DEF KnownInv
<1>. QED  BY <1>1, <1>7, <1>9, <1>10, <1>11, AlertsStand

LEMMA DeliveredKeeps ==
  ASSUME ToolsInv, NEW k \in DOMAIN calls, Delivered(k)
  PROVE  ToolsInv'
<1>1. /\ calls \in Seq(CallRec) /\ calls[k].pc = "deliver" /\ End(k, "ok")
      /\ UNCHANGED <<notes, dayFile, fileLock, bankVars, alertVars>>
      /\ calls[k] \in CallRec /\ Told(calls[k]) /\ calls[k].req.tool = "alert"
  BY CallIsRec DEF Delivered, ToolsInv, ToolTypes, CallsInv, ToolsAt, journalVars
<1>2. /\ OneCall(k) /\ calls'[k].pc = "end" /\ calls'[k].seq = calls[k].seq
      /\ calls'[k].answer = IF calls[k].answer = "none" THEN "ok" ELSE calls[k].answer
  BY <1>1, CallEnds
<1>3. calls'[k].req.tool \in ToolsAt(calls'[k].pc)
  BY <1>1, <1>2 DEF ToolsAt, OneCall
<1>4. Grown
  BY <1>1 DEF Grown, bankVars, alertVars
<1>5. Writing(k)' /\ Told(calls[k])'
  BY <1>1, <1>2 DEF Writing, Told, OneCall
<1>6. calls' \in Seq(CallRec) /\ CallsInv'
  BY <1>1, <1>2, <1>3, <1>4, <1>5, CallsStand
<1>. QED  BY <1>1, <1>6, FilesStand

\* A restart ends the calls of its process that are at the given places, reads
\* the bank again and forgets what was sent; a call of another process at its
\* line keeps the lock.
LEMMA RestartKeeps ==
  ASSUME ToolsInv, NEW h \in Hosts, NEW ended \in SUBSET CallPlaces, Restarted(h, ended),
         UNCHANGED <<notes, dayFile, sent>>, bank' \in {bank, Append(bank, "torn")},
         \A k \in DOMAIN calls :
           calls[k].pc = "line" /\ (calls[k].host = h => "line" \notin ended) /\ fileLock = k
             => fileLock' = k
  PROVE  ToolsInv'
<1>1. /\ index' = [index EXCEPT ![h] = Indexed(bank')]
      /\ written' = [written EXCEPT ![h] = {}] /\ delivered' = [delivered EXCEPT ![h] = {}]
      /\ calls' = [k \in DOMAIN calls |->
                     IF calls[k].host = h /\ calls[k].pc \in ended
                     THEN [calls[k] EXCEPT !.pc = "end", !.answer = Answered(k, "lost")]
                     ELSE calls[k]]
  BY DEF Restarted
<1>2. /\ ToolTypes /\ CallsInv /\ KnownInv /\ OneLinePerNote
      /\ bank \in Seq(Lines) /\ "torn" \in Lines
  BY DEF ToolsInv, ToolTypes, Lines
<1>3. /\ bank' \in Seq(Lines) /\ Indexed(bank') = Indexed(bank)
      /\ \A x \in Indexed(bank) : Cardinality(Copies(bank', x)) = Cardinality(Copies(bank, x))
  <2>1. CASE bank' = bank
    BY <1>2, <2>1
  <2>2. CASE bank' = Append(bank, "torn")
    <3>1. /\ bank' \in Seq(Lines) /\ Indexed(bank') = Indexed(bank) \cup ({"torn"} \ {"torn"})
          /\ \A x : /\ Cardinality(Copies(bank, x)) \in Nat
                    /\ Cardinality(Copies(bank', x)) =
                         Cardinality(Copies(bank, x)) + IF x = "torn" THEN 1 ELSE 0
      BY <1>2, <2>2, LineAdded
    <3>2. \A x \in Indexed(bank) : x # "torn"
      BY DEF Indexed
    <3>. QED  BY <3>1, <3>2
  <2>. QED  BY <2>1, <2>2
<1>4. Indexed(bank) \subseteq Lines
  BY <1>2, LenProperties, ElementOfSeq DEF Indexed
<1>5. ASSUME NEW k \in DOMAIN calls
      PROVE  /\ calls[k] \in CallRec /\ calls'[k] \in CallRec
             /\ calls'[k].host = calls[k].host /\ calls'[k].req = calls[k].req
             /\ calls'[k].seq = calls[k].seq
             /\ \/ calls'[k] = calls[k] /\ (calls[k].host = h => calls[k].pc \notin ended)
                \/ /\ calls'[k].pc = "end"
                   /\ calls'[k].answer =
                        IF calls[k].answer = "none" THEN "lost" ELSE calls[k].answer
  <2>. DEFINE v == [calls[k] EXCEPT !.pc = "end", !.answer = Answered(k, "lost")]
  <2>1. calls[k] \in CallRec
    BY <1>2, CallIsRec DEF ToolTypes
  <2>2. /\ v \in CallRec /\ v.host = calls[k].host /\ v.req = calls[k].req
        /\ v.pc = "end" /\ v.seq = calls[k].seq
        /\ v.answer = IF calls[k].answer = "none" THEN "lost" ELSE calls[k].answer
    BY <2>1 DEF CallRec, CallPlaces, Answered
  <2>3. calls'[k] = IF calls[k].host = h /\ calls[k].pc \in ended THEN v ELSE calls[k]
    BY <1>1
  <2>. HIDE DEF v
  <2>. QED  BY <2>1, <2>2, <2>3
<1>6. calls' \in Seq(CallRec) /\ DOMAIN calls' = DOMAIN calls
  <2>1. Len(calls) \in Nat /\ DOMAIN calls = 1 .. Len(calls)
    BY <1>2, LenProperties DEF ToolTypes
  <2>2. DOMAIN calls' = 1 .. Len(calls)
    BY <1>1, <2>1
  <2>3. calls' \in [1 .. Len(calls) -> CallRec]
    BY <1>1, <1>5, <2>1
  <2>. QED  BY <2>1, <2>2, <2>3, SeqDef
<1>7. ASSUME NEW k \in DOMAIN calls
      PROVE  calls'[k].req.tool \in ToolsAt(calls'[k].pc) /\ Writing(k)' /\ Told(calls[k])'
  <2>1. /\ calls[k].req.tool \in ToolsAt(calls[k].pc) /\ Writing(k) /\ Told(calls[k])
        /\ calls[k].req.tool \in {"note", "retain", "alert"}
    BY <1>2, <1>5, ToolFacts DEF CallsInv, CallRec
  <2>2. CASE calls'[k] = calls[k] /\ (calls[k].host = h => calls[k].pc \notin ended)
    BY <1>3, <2>1, <2>2 DEF Writing, Told
  <2>3. CASE /\ calls'[k].pc = "end"
             /\ calls'[k].answer = IF calls[k].answer = "none" THEN "lost" ELSE calls[k].answer
    BY <1>3, <1>5, <2>1, <2>3 DEF Writing, Told, ToolsAt
  <2>. QED  BY <1>5, <2>2, <2>3
<1>8. CallsInv'
  BY <1>6, <1>7 DEF CallsInv
<1>9. ToolTypes' /\ OneLinePerNote'
  <2>1. /\ index' \in [Hosts -> SUBSET Lines] /\ written' \in [Hosts -> SUBSET Lines]
        /\ delivered' \in [Hosts -> SUBSET (Lines \X UNION {Sinks[g] : g \in Hosts})]
    BY <1>1, <1>2, <1>3, <1>4 DEF ToolTypes
  <2>. QED  BY <1>2, <1>3, <1>6, <2>1 DEF ToolTypes, OneLinePerNote
<1>10. KnownInv'
  BY <1>1, <1>2, <1>3 DEF KnownInv, ToolTypes
<1>11. ASSUME NEW x \in Indexed(bank')
       PROVE  Cardinality(Copies(bank', x)) <= Cardinality(Holders(x)')
  <2>1. x \in Indexed(bank) /\ x # "torn"
    BY <1>3 DEF Indexed
  <2>2. Holders(x)' \in SUBSET Hosts /\ Holders(x) \in SUBSET (Holders(x)')
    BY <1>1, <1>2, <1>3, <2>1 DEF Holders, ToolTypes
  <2>3. IsFiniteSet(Holders(x)')
    BY <2>2, ToolFacts, FS_Subset
  <2>4. Cardinality(Holders(x)') \in Nat
    BY <2>3, FS_CardinalityType
  <2>5. Cardinality(Holders(x)) <= Cardinality(Holders(x)')
    BY <2>2, <2>3, FS_Subset
  <2>6. /\ Cardinality(Copies(bank, x)) <= Cardinality(Holders(x))
        /\ Cardinality(Holders(x)) \in Nat /\ Cardinality(Copies(bank, x)) \in Nat
    BY <2>1, CopiesBounded
  <2>. QED  BY <1>3, <2>1, <2>4, <2>5, <2>6
<1>. QED  BY <1>8, <1>9, <1>10, <1>11 DEF ToolsInv, CopiesInv

LEMMA StopKeeps ==
  ASSUME ToolsInv, NEW h \in Hosts, StopAndStart(h)
  PROVE  ToolsInv'
<1>1. Restarted(h, InLoop) /\ UNCHANGED <<notes, dayFile, fileLock, sent, bank>>
  BY DEF StopAndStart, journalVars
<1>2. InLoop \in SUBSET CallPlaces
  BY DEF InLoop, CallPlaces
<1>. QED  BY <1>1, <1>2, RestartKeeps

LEMMA CrashKeeps ==
  ASSUME ToolsInv, NEW h \in Hosts, CrashAndStart(h)
  PROVE  ToolsInv'
<1>. DEFINE writing == {k \in DOMAIN calls : calls[k].host = h /\ calls[k].pc = "line"}
            ended == InLoop \cup {"export", "line"}
<1>1. /\ Restarted(h, ended) /\ UNCHANGED <<notes, dayFile, sent>>
      /\ bank' \in {bank, Append(bank, "torn")}
      /\ fileLock' = IF fileLock \in writing THEN 0 ELSE fileLock
  BY DEF CrashAndStart
<1>2. ended \in SUBSET CallPlaces /\ "line" \in ended
  BY DEF InLoop, CallPlaces
<1>3. \A k \in DOMAIN calls :
        calls[k].pc = "line" /\ (calls[k].host = h => "line" \notin ended) /\ fileLock = k
          => fileLock' = k
  BY <1>1, <1>2
<1>. HIDE DEF ended, writing
<1>. QED  BY <1>1, <1>2, <1>3, RestartKeeps

LEMMA ToolsGoOn == ToolsInv /\ [ToolsNext]_toolVars => ToolsInv'
<1>. SUFFICES ASSUME ToolsInv, [ToolsNext]_toolVars PROVE ToolsInv'
  OBVIOUS
<1>1. ASSUME NEW k \in DOMAIN calls, CallStep(k) PROVE ToolsInv'
  BY <1>1, AcquireKeeps, TimeOutKeeps, AppendNoteKeeps, OpenDayFileKeeps, WriteLineKeeps,
     RetainKeeps, SendAlertKeeps, DeliveredKeeps, ReachKeeps DEF CallStep
<1>2. ASSUME NEW h \in Hosts,
             StopAndStart(h) \/ CrashAndStart(h) \/ \E q \in Requests : Arrive(h, q)
      PROVE  ToolsInv'
  BY <1>2, StopKeeps, CrashKeeps, ArriveKeeps
<1>3. CASE UNCHANGED toolVars
  <2>1. UNCHANGED <<calls, notes, dayFile, fileLock, bank, index, sent, written, delivered>>
    BY <1>3 DEF toolVars, journalVars, bankVars, alertVars
  <2>2. CallsInv'
    BY <2>1 DEF ToolsInv, CallsInv, Writing, Told
  <2>. QED  BY <2>1, <2>2, FilesStand DEF ToolsInv, ToolTypes, bankVars, alertVars
<1>. QED  BY <1>1, <1>2, <1>3 DEF ToolsNext

\* What a tool call was answered is so, and is so once: whatever calls are
\* repeated, time out and run on, or are cut by a crash, and whatever processes
\* share the day file and the bank.
THEOREM AnswersAreKept == ToolsSpec => []AnswersStand
<1>1. ToolsInv => AnswersStand
  <2>. SUFFICES ASSUME ToolsInv PROVE AnswersStand
    OBVIOUS
  <2>1. AnsweredIsExported /\ RetainedIsKept /\ SuppressedWasSent
    BY DEF ToolsInv, CallsInv, Told, AnsweredIsExported, RetainedIsKept, SuppressedWasSent
  <2>2. ASSUME NEW x \in Indexed(bank)
        PROVE  Cardinality({i \in DOMAIN bank : bank[i] = x}) <= Cardinality(Hosts)
    <3>1. Holders(x) \in SUBSET Hosts
      BY DEF Holders
    <3>2. Cardinality(Holders(x)) <= Cardinality(Hosts) /\ Cardinality(Hosts) \in Nat
      BY <3>1, ToolFacts, FS_Subset, FS_CardinalityType
    <3>3. /\ Cardinality(Copies(bank, x)) <= Cardinality(Holders(x))
          /\ Cardinality(Holders(x)) \in Nat /\ Cardinality(Copies(bank, x)) \in Nat
      BY CopiesBounded DEF Indexed
    <3>. QED  BY <3>2, <3>3 DEF Copies
  <2>3. RetainedOncePerHost
    BY <2>2 DEF RetainedOncePerHost
  <2>. QED  BY <2>1, <2>3 DEF AnswersStand, ToolsInv
<1>. QED  BY <1>1, ToolsStart, ToolsGoOn, PTL DEF ToolsSpec

\* What a call carries fits the desk: a tool of the seat's roster, a row of the
\* ledger, sinks of its own process.
CallFits(c) ==
  /\ <<c.req.token, c.req.tool>> \in Granted
  /\ c.seq <= Len(notes) /\ c.todo \subseteq Sinks[c.host]

\* The lock is a call's, and a partial line is of a row.
FilesFit ==
  /\ fileLock \in DOMAIN calls \cup {0}
  /\ torn \in Nat /\ torn <= Len(notes)

DeliveredFit == \A h \in Hosts : delivered[h] \subseteq ({q.body : q \in Requests} \X Sinks[h])

ToolsFit == ToolsInv /\ FilesFit /\ DeliveredFit /\ \A k \in DOMAIN calls : CallFits(calls[k])

LEMMA NotesGrow ==
  ASSUME ToolsInv, NEW q \in Requests,
         notes' = notes \/ notes' = Append(notes, [req |-> q, seat |-> q.seat])
  PROVE  Len(notes) \in Nat /\ Len(notes') \in Nat /\ Len(notes) <= Len(notes')
<1>1. notes \in Seq([req : Requests, seat : STRING])
  BY DEF ToolsInv, ToolTypes
<1>. QED  BY <1>1

\* A call that keeps or loses what it carries still fits; one call may get a row
\* of the ledger or sinks of its process.
LEMMA CallsFit ==
  ASSUME ToolsFit, DOMAIN calls' = DOMAIN calls, calls' \in Seq(CallRec),
         Len(notes) \in Nat, Len(notes') \in Nat, Len(notes) <= Len(notes'),
         \A j \in DOMAIN calls :
           /\ calls'[j].req = calls[j].req /\ calls'[j].host = calls[j].host
           /\ calls'[j].seq = calls[j].seq \/ calls'[j].seq <= Len(notes')
           /\ calls'[j].todo \subseteq calls[j].todo \/ calls'[j].todo \subseteq Sinks[calls[j].host]
  PROVE  \A j \in DOMAIN calls' : CallFits(calls[j])'
<1>. SUFFICES ASSUME NEW j \in DOMAIN calls PROVE CallFits(calls[j])'
  OBVIOUS
<1>1. CallFits(calls[j]) /\ calls[j] \in CallRec
  BY CallIsRec DEF ToolsFit, ToolsInv, ToolTypes
<1>2. calls[j].seq \in Nat
  BY <1>1 DEF CallRec
<1>3. calls'[j].seq <= Len(notes')
  BY <1>1, <1>2 DEF CallFits
<1>. QED  BY <1>1, <1>3 DEF CallFits

THEOREM ToolsFitFirst == ToolsInit => ToolsFit
<1>. SUFFICES ASSUME ToolsInit PROVE ToolsFit
  OBVIOUS
<1>1. DOMAIN calls = {} /\ Len(notes) = 0
  BY DEF ToolsInit
<1>. QED  BY <1>1, ToolsStart DEF ToolsInit, ToolsFit, FilesFit, DeliveredFit

LEMMA CallStepFits ==
  ASSUME ToolsFit, ToolsInv', NEW k \in DOMAIN calls, CallStep(k)
  PROVE  ToolsFit'
<1>1. /\ calls \in Seq(CallRec) /\ calls[k] \in CallRec /\ calls[k].req \in Requests
      /\ k \in Nat /\ CallFits(calls[k])
      /\ calls' \in Seq(CallRec) /\ notes \in Seq([req : Requests, seat : STRING])
  <2>1. calls \in Seq(CallRec) /\ calls' \in Seq(CallRec)
        /\ notes \in Seq([req : Requests, seat : STRING])
    BY DEF ToolsFit, ToolsInv, ToolTypes
  <2>2. calls[k] \in CallRec
    BY <2>1, CallIsRec
  <2>. QED  BY <2>1, <2>2, LenProperties DEF ToolsFit, CallRec
<1>2. Len(notes) \in Nat /\ Len(notes') \in Nat /\ Len(notes) <= Len(notes')
  <2>1. notes' = notes \/ notes' = Append(notes, [req |-> calls[k].req, seat |-> calls[k].req.seat])
    BY DEF CallStep, Acquire, TimeOut, AppendNote, OpenDayFile, WriteLine, Retain, SendAlert,
       Delivered, Reach, journalVars
  <2>. QED  BY <1>1, <2>1, NotesGrow DEF ToolsFit
<1>3. DOMAIN calls' = DOMAIN calls
  BY DEF CallStep, Acquire, TimeOut, AppendNote, OpenDayFile, WriteLine, Retain, SendAlert,
     Delivered, Reach, Move, End
<1>4. \A j \in DOMAIN calls :
        /\ calls'[j].req = calls[j].req /\ calls'[j].host = calls[j].host
        /\ calls'[j].seq = calls[j].seq \/ calls'[j].seq <= Len(notes')
        /\ calls'[j].todo \subseteq calls[j].todo \/ calls'[j].todo \subseteq Sinks[calls[j].host]
  <2>. SUFFICES ASSUME NEW j \in DOMAIN calls
                PROVE  /\ calls'[j].req = calls[j].req /\ calls'[j].host = calls[j].host
                       /\ calls'[j].seq = calls[j].seq \/ calls'[j].seq <= Len(notes')
                       /\ \/ calls'[j].todo \subseteq calls[j].todo
                          \/ calls'[j].todo \subseteq Sinks[calls[j].host]
    OBVIOUS
  <2>1. calls[j] \in CallRec
    BY <1>1, CallIsRec
  <2>2. ASSUME NEW place, NEW what, Move(k, place) \/ End(k, what)
        PROVE  /\ calls'[j].req = calls[j].req /\ calls'[j].host = calls[j].host
               /\ calls'[j].seq = calls[j].seq /\ calls'[j].todo \subseteq calls[j].todo
    BY <2>1, <2>2 DEF Move, End, CallRec
  <2>3. CASE Acquire(k) \/ OpenDayFile(k) \/ WriteLine(k) \/ Retain(k) \/ Delivered(k)
    BY <2>2, <2>3 DEF Acquire, OpenDayFile, WriteLine, Retain, Delivered
  <2>4. CASE TimeOut(k)
    BY <2>1, <2>4 DEF TimeOut, CallRec
  <2>5. CASE AppendNote(k)
    <3>. DEFINE q == calls[k].req
                known == \E i \in DOMAIN notes : notes[i].req = q
                seq == IF known THEN RowOf(q) ELSE Len(notes) + 1
                v == [calls[k] EXCEPT !.pc = "export", !.seq = seq]
    <3>1. /\ calls' = [calls EXCEPT ![k] = v]
          /\ notes' = IF known THEN notes ELSE Append(notes, [req |-> q, seat |-> q.seat])
      BY <2>5 DEF AppendNote
    <3>2. seq <= Len(notes')
      <4>1. DOMAIN notes = 1 .. Len(notes) /\ Len(notes) \in Nat
        BY <1>1
      <4>2. CASE known
        <5>1. RowOf(q) \in DOMAIN notes
          BY <4>2 DEF RowOf
        <5>2. seq = RowOf(q) /\ notes' = notes
          BY <3>1, <4>2
        <5>. HIDE DEF seq, known, q
        <5>. QED  BY <4>1, <5>1, <5>2
      <4>3. CASE ~known
        <5>1. notes' = Append(notes, [req |-> q, seat |-> q.seat]) /\ seq = Len(notes) + 1
          BY <3>1, <4>3
        <5>2. Len(notes') = Len(notes) + 1
          BY <1>1, <5>1
        <5>. HIDE DEF seq
        <5>. QED  BY <1>2, <5>1, <5>2
      <4>. QED  BY <4>2, <4>3
    <3>3. v.req = calls[k].req /\ v.host = calls[k].host /\ v.seq = seq /\ v.todo = calls[k].todo
      <4>. HIDE DEF seq
      <4>. QED  BY <1>1 DEF CallRec
    <3>4. calls'[j] = IF j = k THEN v ELSE calls[j]
      <4>. HIDE DEF v
      <4>. QED  BY <1>1, <3>1
    <3>. HIDE DEF seq, v
    <3>. QED  BY <3>2, <3>3, <3>4
  <2>6. CASE SendAlert(k)
    <3>. DEFINE still == Pending(calls[k].host, calls[k].req.body)
                v == [calls[k] EXCEPT !.pc = "deliver", !.todo = still]
    <3>1. CASE End(k, "suppressed")
      BY <2>2, <3>1
    <3>2. CASE ~End(k, "suppressed")
      <4>1. calls' = [calls EXCEPT ![k] = v]
        BY <2>6, <3>2 DEF SendAlert
      <4>2. still \subseteq Sinks[calls[k].host]
        BY DEF Pending
      <4>. HIDE DEF still
      <4>3. v.req = calls[k].req /\ v.host = calls[k].host /\ v.seq = calls[k].seq /\ v.todo = still
        BY <1>1 DEF CallRec
      <4>. HIDE DEF v
      <4>. QED  BY <1>1, <4>1, <4>2, <4>3
    <3>. QED  BY <3>1, <3>2
  <2>7. CASE \E s \in calls[k].todo : Reach(k, s)
    <3>1. PICK s \in calls[k].todo : Reach(k, s)
      BY <2>7
    <3>. DEFINE v == [calls[k] EXCEPT !.todo = @ \ {s}]
    <3>2. calls' = [calls EXCEPT ![k] = v]
      BY <3>1 DEF Reach
    <3>3. /\ v.req = calls[k].req /\ v.host = calls[k].host
          /\ v.seq = calls[k].seq /\ v.todo \subseteq calls[k].todo
      BY <1>1 DEF CallRec
    <3>. HIDE DEF v
    <3>. QED  BY <1>1, <3>2, <3>3
  <2>. QED  BY <2>3, <2>4, <2>5, <2>6, <2>7 DEF CallStep
<1>5. \A j \in DOMAIN calls' : CallFits(calls[j])'
  BY <1>1, <1>2, <1>3, <1>4, CallsFit
<1>6. FilesFit'
  <2>1. fileLock' \in {fileLock, 0, k} /\ torn' \in {torn, 0}
    BY DEF CallStep, Acquire, TimeOut, AppendNote, OpenDayFile, WriteLine, Retain, SendAlert,
       Delivered, Reach, journalVars
  <2>. QED  BY <1>2, <1>3, <2>1 DEF ToolsFit, FilesFit
<1>7. DeliveredFit'
  <2>1. CASE \E s \in calls[k].todo : Reach(k, s)
    <3>1. PICK s \in calls[k].todo : Reach(k, s)
      BY <2>1
    <3>2. s \in Sinks[calls[k].host]
      BY <1>1 DEF CallFits
    <3>. DEFINE d == <<calls[k].req.body, s>>
                w == calls[k].host
    <3>3. d \in {q.body : q \in Requests} \X Sinks[w]
      BY <1>1, <3>2
    <3>4. DOMAIN delivered = Hosts
      BY DEF ToolsFit, ToolsInv, ToolTypes
    <3>5. delivered' = [delivered EXCEPT ![w] = @ \cup {d}] \/ delivered' = delivered
      BY <3>1 DEF Reach
    <3>. HIDE DEF d, w
    <3>. QED  BY <3>3, <3>4, <3>5 DEF ToolsFit, DeliveredFit
  <2>2. CASE ~\E s \in calls[k].todo : Reach(k, s)
    <3>1. delivered' = delivered
      BY <2>2 DEF CallStep, Acquire, TimeOut, AppendNote, OpenDayFile, WriteLine, Retain, SendAlert,
         Delivered, alertVars
    <3>. QED  BY <3>1 DEF ToolsFit, DeliveredFit
  <2>. QED  BY <2>1, <2>2
<1>. QED  BY <1>5, <1>6, <1>7 DEF ToolsFit

LEMMA ProcessStepFits ==
  ASSUME ToolsFit, ToolsInv', NEW h \in Hosts, StopAndStart(h) \/ CrashAndStart(h)
  PROVE  ToolsFit'
<1>1. /\ calls \in Seq(CallRec) /\ calls' \in Seq(CallRec) /\ Len(notes) \in Nat /\ notes' = notes
  BY DEF StopAndStart, CrashAndStart, journalVars, ToolsFit, ToolsInv, ToolTypes
<1>2. PICK ended \in {InLoop, InLoop \cup {"export", "line"}} : Restarted(h, ended)
  BY DEF StopAndStart, CrashAndStart
<1>3. DOMAIN calls' = DOMAIN calls
  BY <1>2 DEF Restarted
<1>4. \A j \in DOMAIN calls :
        /\ calls'[j].req = calls[j].req /\ calls'[j].host = calls[j].host
        /\ calls'[j].seq = calls[j].seq /\ calls'[j].todo \subseteq calls[j].todo
  <2>. SUFFICES ASSUME NEW j \in DOMAIN calls
                PROVE  /\ calls'[j].req = calls[j].req /\ calls'[j].host = calls[j].host
                       /\ calls'[j].seq = calls[j].seq /\ calls'[j].todo \subseteq calls[j].todo
    OBVIOUS
  <2>1. calls[j] \in CallRec
    BY <1>1, CallIsRec
  <2>. QED  BY <1>2, <2>1 DEF Restarted, CallRec
<1>5. \A j \in DOMAIN calls' : CallFits(calls[j])'
  BY <1>1, <1>3, <1>4, CallsFit
<1>6. \A j \in DOMAIN calls : calls[j].seq \in Nat /\ calls[j].seq <= Len(notes)
  BY <1>1, CallIsRec DEF ToolsFit, CallFits, CallRec
<1>7. FilesFit'
  <2>1. CASE StopAndStart(h)
    BY <1>1, <1>3, <2>1 DEF StopAndStart, journalVars, ToolsFit, FilesFit
  <2>2. CASE CrashAndStart(h)
    BY <1>1, <1>3, <1>6, <2>2 DEF CrashAndStart, ToolsFit, FilesFit
  <2>. QED  BY <2>1, <2>2
<1>8. DeliveredFit'
  BY <1>2 DEF Restarted, ToolsFit, DeliveredFit, ToolsInv, ToolTypes
<1>. QED  BY <1>5, <1>7, <1>8 DEF ToolsFit

LEMMA ArriveFits ==
  ASSUME ToolsFit, ToolsInv', NEW h \in Hosts, NEW q \in Requests, Arrive(h, q)
  PROVE  ToolsFit'
<1>. DEFINE c == [host |-> h, req |-> q, pc |-> "limit", seq |-> 0,
                  todo |-> {}, answer |-> "none"]
<1>1. /\ calls' = Append(calls, c) /\ calls \in Seq(CallRec) /\ Len(notes) \in Nat
      /\ UNCHANGED <<notes, torn, fileLock, delivered>>
      /\ q.token = q.seat /\ <<q.seat, q.tool>> \in Granted
  BY DEF Arrive, Authenticated, Resolved, ToolsFit, ToolsInv, ToolTypes, journalVars, alertVars
<1>2. c.seq = 0 /\ c.todo = {} /\ <<c.req.token, c.req.tool>> \in Granted
  BY <1>1
<1>. HIDE DEF c
<1>3. /\ DOMAIN calls' = DOMAIN calls \cup {Len(calls) + 1}
      /\ \A j \in DOMAIN calls : calls'[j] = calls[j]
      /\ calls'[Len(calls) + 1] = c
  BY <1>1
<1>4. ASSUME NEW j \in DOMAIN calls' PROVE CallFits(calls[j])'
  <2>1. CASE j \in DOMAIN calls
    BY <1>1, <1>3, <2>1 DEF CallFits, ToolsFit
  <2>2. CASE j = Len(calls) + 1
    <3>1. calls'[j] = c
      BY <1>3, <2>2
    <3>2. <<c.req.token, c.req.tool>> \in Granted /\ c.seq <= Len(notes') /\ c.todo \subseteq Sinks[c.host]
      BY <1>1, <1>2
    <3>. QED  BY <3>1, <3>2 DEF CallFits
  <2>. QED  BY <1>3, <2>1, <2>2
<1>. QED  BY <1>1, <1>3, <1>4 DEF ToolsFit, FilesFit, DeliveredFit

LEMMA ToolsKeepFitting == ToolsFit /\ [ToolsNext]_toolVars => ToolsFit'
<1>. SUFFICES ASSUME ToolsFit, [ToolsNext]_toolVars PROVE ToolsFit'
  OBVIOUS
<1>1. ToolsInv'
  BY ToolsGoOn DEF ToolsFit
<1>2. CASE ToolsNext
  BY <1>1, <1>2, CallStepFits, ProcessStepFits, ArriveFits DEF ToolsNext
<1>3. CASE UNCHANGED toolVars
  BY <1>1, <1>3 DEF toolVars, journalVars, alertVars, ToolsFit, FilesFit, DeliveredFit, CallFits
<1>. QED  BY <1>2, <1>3

LEMMA FittingIsTyped == ToolsFit => ToolsTypeOK
<1>. SUFFICES ASSUME ToolsFit PROVE ToolsTypeOK
  OBVIOUS
<1>1. \A k \in DOMAIN calls : calls[k] \in CallRec
  BY CallIsRec DEF ToolsFit, ToolsInv, ToolTypes
<1>. QED  BY <1>1 DEF ToolsFit, CallFits, FilesFit, DeliveredFit, ToolsTypeOK, CallRec

-----------------------------------------------------------------------------
(* Agent calls: the inductive invariant *)

AskPlaces == {"new", "asking", "backing", "queued", "posted", "done"}
CachedRun == [by : Askers \cup {Nobody}, at : Nat]
AskRec == [at : AskPlaces, now : Nat, tries : Nat, charged : Nat,
           result : {"none", "cached", "fallback", "verdict", "cancelled"}, from : CachedRun]
SentRec == [who : Askers, try : Nat, charged : Nat]

AskTypes ==
  /\ hour \in Nat /\ quota \in [day : Nat, spent : Nat] /\ cached \in CachedRun
  /\ asks \in [Askers -> AskRec] /\ posts \subseteq SentRec /\ IsFiniteSet(posts)
  /\ reading \subseteq Readings /\ panel \subseteq Panels

\* The requests sent and those a run has charged and not yet sent.
Request(a) == [who |-> a, try |-> asks[a].tries, charged |-> asks[a].charged]
Charging == {Request(a) : a \in {b \in Askers : asks[b].at \in {"backing", "queued"}}}
ChargedTo(d) == {p \in posts \cup Charging : p.charged = d}

\* What the counter knows of a day; it forgets the days before its own.
CountedFor(d) ==
  IF d = quota.day THEN quota.spent ELSE IF d < quota.day THEN MaxPerDay ELSE 0

QuotaInv ==
  /\ quota.day <= Today /\ quota.spent <= MaxPerDay
  /\ IsFiniteSet(Charging)
  /\ \A d \in Nat : Cardinality(ChargedTo(d)) <= CountedFor(d)

\* A run has sent nothing yet for the try it prepares.
TriesInv ==
  /\ \A a \in Askers : asks[a].tries < MaxRetries
  /\ \A p \in posts :
       /\ p.try <= asks[p.who].tries
       /\ asks[p.who].at \in {"new", "asking", "backing", "queued"} => p.try < asks[p.who].tries
  /\ \A p, q \in posts : (p.who = q.who /\ p.try = q.try) => p = q

\* What a cache entry names is a run that ended with a verdict of its time.
GaveVerdict(entry) ==
  entry.by \in Askers /\ asks[entry.by].at = "done" /\ asks[entry.by].result = "verdict"
  /\ entry.at = asks[entry.by].now

CacheInv ==
  /\ cached.by # Nobody => GaveVerdict(cached)
  /\ \A a \in Askers : asks[a].result # "none" => asks[a].at = "done"
  /\ \A a \in Askers : asks[a].result = "cached" =>
       GaveVerdict(asks[a].from) /\ asks[a].now - asks[a].from.at < CacheSpan

AgentsInv ==
  AskTypes /\ QuotaInv /\ TriesInv /\ CacheInv

-----------------------------------------------------------------------------
(* Agent calls: the verdicts *)

LEMMA CappedIs ==
  ASSUME NEW n \in Int, NEW k \in Int, NEW top \in Nat, n <= k
  PROVE  Capped(n, top) \in 0..top /\ Capped(n, top) <= Capped(k, top)
BY DEF Capped

LEMMA FailsClosed == ASSUME AskTypes PROVE AnalysisFailsClosed
<1> SUFFICES ASSUME NEW r \in Readings
             PROVE  LET whole == Fetched([r EXCEPT !.failed = @ \cap {"holders"}])
                        seen == Fetched(r)
                    IN /\ Passed(seen) => "trades" \notin r.failed /\ r.trades > 0
                       /\ ("holders" \notin r.failed /\ Vetoed(r)) => ~Passed(seen)
                       /\ "trades" \notin r.failed => Risk(whole) <= Risk(seen)
  BY DEF AskTypes, AnalysisFailsClosed
<1> DEFINE r0 == [r EXCEPT !.failed = @ \cap {"holders"}]
           whole == Fetched(r0)
           seen == Fetched(r)
<1>1. /\ r.top \in {25, 85} /\ r.creator \in {0, 20, 25} /\ r.snipers \in {0, 10}
      /\ r.diversity \in {0, 100} /\ r.health \in {0, 100} /\ r.socials \in {0, 100}
      /\ r.trades \in {0, 5, 50}
  BY DEF Readings
<1>2. /\ seen.trades = IF "trades" \in r.failed THEN 0 ELSE r.trades
      /\ seen.top = IF "holders" \in r.failed THEN 0 ELSE r.top
      /\ seen.creator = IF "holders" \in r.failed THEN 0 ELSE r.creator
  BY DEF Fetched
<1>3. Passed(seen) => "trades" \notin r.failed /\ r.trades > 0
  BY <1>2 DEF Passed
<1>4. ("holders" \notin r.failed /\ Vetoed(r)) => ~Passed(seen)
  BY <1>2, AgentAssumption DEF Passed, Vetoed, Risk
<1>5. ASSUME "trades" \notin r.failed PROVE Risk(whole) <= Risk(seen)
  <2>1. /\ r0.top = r.top /\ r0.creator = r.creator /\ r0.snipers = r.snipers
        /\ r0.diversity = r.diversity /\ r0.health = r.health /\ r0.socials = r.socials
        /\ r0.trades = r.trades /\ r0.failed = r.failed \cap {"holders"}
    BY DEF Readings
  <2>2. /\ whole.top = seen.top /\ whole.creator = seen.creator
        /\ whole.snipers = seen.snipers /\ whole.diversity = seen.diversity
        /\ whole.health = seen.health /\ whole.trades = seen.trades
        /\ whole.socials = r.socials /\ seen.socials \in {0, r.socials}
    BY <2>1, <1>5 DEF Fetched
  <2>3. /\ seen.top \in 0..85 /\ seen.creator \in 0..25 /\ seen.snipers \in 0..10
        /\ seen.diversity \in 0..100 /\ seen.health \in 0..100
        /\ seen.trades \in 0..50
    BY <1>1, <1>5 DEF Fetched
  <2> DEFINE Base == Capped((seen.top * 375) \div 100, 300) + Capped(seen.creator * 10, 300)
                     + Capped(seen.snipers * 25, 200)
                     + ((100 - seen.diversity) * 150) \div 100 + (100 - seen.health)
             Thin == IF seen.trades < 10 THEN 100 ELSE 0
  <2>4. Base \in Int /\ Thin \in Int
    <3> HIDE DEF seen
    <3>0. \A n \in Int : n \div 100 \in Int
      OBVIOUS
    <3>1. /\ (seen.top * 375) \div 100 \in Int /\ seen.creator * 10 \in Int
          /\ seen.snipers * 25 \in Int /\ ((100 - seen.diversity) * 150) \div 100 \in Int
          /\ 100 - seen.health \in Int
      <4>1. seen.top * 375 \in Int /\ (100 - seen.diversity) * 150 \in Int
        BY <2>3
      <4>2. /\ seen.creator * 10 \in Int /\ seen.snipers * 25 \in Int
            /\ 100 - seen.health \in Int
        BY <2>3
      <4> QED BY <3>0, <4>1, <4>2
    <3>2. \A n \in Int : Capped(n, 300) \in Int /\ Capped(n, 200) \in Int
      BY DEF Capped
    <3>3. Thin \in Int
      OBVIOUS
    <3> QED BY <3>1, <3>2, <3>3
  <2>5. /\ RiskScore(seen) = Capped(Base + (100 - seen.socials) \div 2 + Thin, 1000)
        /\ RiskScore(whole) = Capped(Base + (100 - whole.socials) \div 2 + Thin, 1000)
    BY <2>2 DEF RiskScore
  <2>6. /\ (100 - seen.socials) \div 2 \in Int /\ (100 - whole.socials) \div 2 \in Int
        /\ (100 - whole.socials) \div 2 <= (100 - seen.socials) \div 2
    <3> HIDE DEF seen, whole
    <3>1. \A n \in {0, 100} : (100 - n) \div 2 = IF n = 0 THEN 50 ELSE 0
      <4>1. 100 \div 2 = 50 /\ 0 \div 2 = 0
        OBVIOUS
      <4>2. \A n \in {0, 100} : 100 - n = IF n = 0 THEN 100 ELSE 0
        OBVIOUS
      <4> QED BY <4>1, <4>2
    <3>2. /\ seen.socials \in {0, 100} /\ whole.socials \in {0, 100}
          /\ seen.socials <= whole.socials
      BY <1>1, <2>2
    <3>3. /\ (100 - seen.socials) \div 2 = IF seen.socials = 0 THEN 50 ELSE 0
          /\ (100 - whole.socials) \div 2 = IF whole.socials = 0 THEN 50 ELSE 0
      BY <3>1, <3>2, Zenon
    <3> QED BY <3>2, <3>3
  <2>7. RiskScore(whole) <= RiskScore(seen)
    <3> HIDE DEF Base, Thin, seen, whole
    <3> DEFINE lo == Base + (100 - whole.socials) \div 2 + Thin
               hi == Base + (100 - seen.socials) \div 2 + Thin
    <3>1. lo \in Int /\ hi \in Int /\ lo <= hi
      BY <2>4, <2>6
    <3> HIDE DEF lo, hi
    <3>2. Capped(lo, 1000) <= Capped(hi, 1000)
      BY <3>1 DEF Capped
    <3> QED BY <3>2, <2>5 DEF lo, hi
  <2>8. Vetoed(whole) <=> Vetoed(seen)
    BY <2>2 DEF Vetoed
  <2> QED
    BY <2>7, <2>8 DEF Risk
<1> QED
  BY <1>3, <1>4, <1>5

LEMMA NeverHelps == ASSUME AskTypes PROVE PessimismNeverHelps
<1> DEFINE Worse(f) ==
      {[f EXCEPT !.audit = NoAudit], [f EXCEPT !.narrative = NoNarrative],
       [f EXCEPT !.timing = NoTiming], [f EXCEPT !.audit = PessimisticAudit],
       [f EXCEPT !.narrative = PessimisticNarrative], [f EXCEPT !.timing = PessimisticTiming]}
<1> SUFFICES ASSUME NEW f \in Panels, NEW p \in Worse(f)
             PROVE  Total(p) <= Total(f)
  BY DEF AskTypes, PessimismNeverHelps
<1> DEFINE W == f.weights
<1>1. /\ p.weights = W /\ p.quality = f.quality /\ f.quality \in {0, 50, 100}
      /\ W \in {<<30, 20, 20, 30>>, <<10, -5, 10, 0>>, <<0, -1, 0, 0>>}
  BY DEF Panels
<1>2. \A v \in {NoAudit, PessimisticAudit} : AuditScore(v) = 0
  BY DEF AuditScore, NoAudit, PessimisticAudit, Capped
<1>3. \A v \in {NoNarrative, PessimisticNarrative} : NarrativeScore(v) = 0
  BY DEF NarrativeScore, NoNarrative, PessimisticNarrative, Capped
<1>4. \A v \in {NoTiming, PessimisticTiming} : TimingScore(v) = 0
  BY DEF TimingScore, NoTiming, PessimisticTiming, Capped
<1>5. AuditScore(f.audit) \in Nat
  <2>1. f.audit = NoAudit \/ (f.audit.organic \in Int /\ f.audit.flags \in Int)
    BY DEF Panels
  <2> QED BY <2>1 DEF AuditScore, Capped
<1>6. NarrativeScore(f.narrative) \in Nat
  <2>1. f.narrative = NoNarrative \/ f.narrative.mean \in Int
    BY DEF Panels
  <2> QED BY <2>1 DEF NarrativeScore, Capped
<1>7. TimingScore(f.timing) \in Nat
  <2>1. f.timing = NoTiming \/ (f.timing.base \in Int /\ f.timing.anomalies \in Int)
    BY DEF Panels
  <2> QED BY <2>1 DEF TimingScore, Capped
<1>8. /\ AuditScore(p.audit) \in {0, AuditScore(f.audit)}
      /\ NarrativeScore(p.narrative) \in {0, NarrativeScore(f.narrative)}
      /\ TimingScore(p.timing) \in {0, TimingScore(f.timing)}
  <2>1. /\ p.audit \in {NoAudit, PessimisticAudit, f.audit}
        /\ p.narrative \in {NoNarrative, PessimisticNarrative, f.narrative}
        /\ p.timing \in {NoTiming, PessimisticTiming, f.timing}
    BY DEF Panels
  <2> QED BY <2>1, <1>2, <1>3, <1>4
<1> DEFINE a == AuditScore(f.audit)
           n == NarrativeScore(f.narrative)
           t == TimingScore(f.timing)
           a1 == AuditScore(p.audit)
           n1 == NarrativeScore(p.narrative)
           t1 == TimingScore(p.timing)
           q == f.quality
<1>9. a \in Nat /\ n \in Nat /\ t \in Nat /\ q \in Nat
      /\ a1 \in {0, a} /\ n1 \in {0, n} /\ t1 \in {0, t}
  BY <1>1, <1>5, <1>6, <1>7, <1>8
<1>10. /\ Total(f) = Weight(W, 1) * a + Weight(W, 2) * n + Weight(W, 3) * t + Weight(W, 4) * q
       /\ Total(p) = Weight(W, 1) * a1 + Weight(W, 2) * n1 + Weight(W, 3) * t1
                     + Weight(W, 4) * q
  BY <1>1 DEF Total
<1> HIDE DEF a, n, t, a1, n1, t1, q
<1>11. CASE W = <<30, 20, 20, 30>>
  <2>1. Weight(W, 1) = 30 /\ Weight(W, 2) = 20 /\ Weight(W, 3) = 20 /\ Weight(W, 4) = 30
    BY <1>11 DEF Weight
  <2> QED BY <2>1, <1>9, <1>10
<1>12. CASE W = <<10, -5, 10, 0>>
  <2>1. Weight(W, 1) = 10 /\ Weight(W, 2) = 0 /\ Weight(W, 3) = 10 /\ Weight(W, 4) = 0
    BY <1>12 DEF Weight
  <2> QED BY <2>1, <1>9, <1>10
<1>13. CASE W = <<0, -1, 0, 0>>
  <2>1. Weight(W, 1) = 1 /\ Weight(W, 2) = 1 /\ Weight(W, 3) = 1 /\ Weight(W, 4) = 1
    BY <1>13 DEF Weight
  <2> QED BY <2>1, <1>9, <1>10
<1> QED
  BY <1>1, <1>11, <1>12, <1>13

-----------------------------------------------------------------------------
(* Agent calls: what a change of one run's record keeps *)

Preparing == {"new", "asking", "backing", "queued"}
OneRun(a, rec) == rec \in AskRec /\ asks' = [asks EXCEPT ![a] = rec]

LEMMA OthersStand ==
  ASSUME AskTypes, NEW a \in Askers, NEW rec, OneRun(a, rec)
  PROVE  /\ asks' \in [Askers -> AskRec] /\ asks'[a] = rec
         /\ \A b \in Askers : b # a => asks'[b] = asks[b]
BY DEF AskTypes, OneRun

LEMMA ChargingIs ==
  ASSUME AskTypes, NEW a \in Askers, NEW rec, OneRun(a, rec)
  PROVE  LET mine == [who |-> a, try |-> rec.tries, charged |-> rec.charged]
         IN  \A p \in Charging' : p \in Charging \/ (rec.at \in {"backing", "queued"} /\ p = mine)
<1>1. \A b \in Askers : b # a => asks'[b] = asks[b]
  BY OthersStand
<1>2. asks'[a] = rec
  BY OthersStand
<1>3. SUFFICES ASSUME NEW p, NEW b \in Askers, p = Request(b)',
                      asks'[b].at \in {"backing", "queued"}
               PROVE  p \in Charging \/ (rec.at \in {"backing", "queued"}
                                    /\ p = [who |-> a, try |-> rec.tries, charged |-> rec.charged])
  BY DEF Charging
<1> QED
  BY <1>1, <1>2, <1>3 DEF Charging, Request

LEMMA ChargingTyped == ASSUME AskTypes PROVE Charging \subseteq SentRec
BY DEF AskTypes, Charging, Request, SentRec, AskRec

\* Whoever is charged for no new request leaves the count standing.
LEMMA QuotaStands ==
  ASSUME AskTypes, QuotaInv, posts' \cup Charging' \subseteq posts \cup Charging,
         quota' \in [day : Nat, spent : Nat], quota'.day <= Today',
         quota'.spent <= MaxPerDay,
         \A d \in Nat : CountedFor(d) <= CountedFor(d)'
  PROVE  QuotaInv'
<1>1. IsFiniteSet(posts \cup Charging)
  BY FS_Union DEF AskTypes, QuotaInv
<1>2. IsFiniteSet(Charging')
  <2>1. Charging' \subseteq posts \cup Charging
    OBVIOUS
  <2> QED BY <1>1, <2>1, FS_Subset
<1>3. ASSUME NEW d \in Nat PROVE Cardinality(ChargedTo(d)') <= CountedFor(d)'
  <2>1. ChargedTo(d)' \subseteq ChargedTo(d) /\ ChargedTo(d) \subseteq posts \cup Charging
    BY DEF ChargedTo
  <2>2. IsFiniteSet(ChargedTo(d))
    BY <2>1, <1>1, FS_Subset
  <2>3. Cardinality(ChargedTo(d)') <= Cardinality(ChargedTo(d)) /\ IsFiniteSet(ChargedTo(d)')
    BY <2>1, <2>2, FS_Subset
  <2>4. Cardinality(ChargedTo(d)) \in Nat /\ Cardinality(ChargedTo(d)') \in Nat
    BY <2>2, <2>3, FS_CardinalityType
  <2>5. Cardinality(ChargedTo(d)) <= CountedFor(d) /\ CountedFor(d) <= CountedFor(d)'
    BY DEF QuotaInv
  <2>6. CountedFor(d) \in Int /\ CountedFor(d)' \in Int
    BY AgentAssumption DEF CountedFor, AskTypes
  <2> QED BY <2>3, <2>4, <2>5, <2>6
<1> QED BY <1>2, <1>3 DEF QuotaInv

LEMMA TriesKept ==
  ASSUME AskTypes, TriesInv, NEW a \in Askers, NEW rec, OneRun(a, rec), posts' = posts,
         asks[a].tries <= rec.tries, rec.tries < MaxRetries,
         rec.at \in Preparing => asks[a].at \in Preparing \/ asks[a].tries < rec.tries
  PROVE  TriesInv'
<1>1. /\ \A b \in Askers : b # a => asks'[b] = asks[b]
      /\ asks'[a] = rec /\ asks[a].tries \in Nat /\ rec.tries \in Nat
  BY OthersStand DEF AskTypes, OneRun, AskRec
<1>2. \A b \in Askers : asks'[b].tries < MaxRetries
  BY <1>1 DEF TriesInv
<1>3. ASSUME NEW p \in posts
      PROVE  p.try <= asks'[p.who].tries
             /\ (asks'[p.who].at \in Preparing => p.try < asks'[p.who].tries)
  <2>1. p.who \in Askers /\ p.try \in Nat
    BY DEF AskTypes, SentRec
  <2>2. p.try <= asks[p.who].tries
        /\ (asks[p.who].at \in Preparing => p.try < asks[p.who].tries)
    BY DEF TriesInv, Preparing
  <2>3. CASE p.who # a
    BY <2>1, <2>2, <2>3, <1>1
  <2>4. CASE p.who = a
    BY <2>1, <2>2, <2>4, <1>1
  <2> QED BY <2>3, <2>4
<1> QED
  BY <1>2, <1>3 DEF TriesInv, Preparing

LEMMA CacheKept ==
  ASSUME AskTypes, CacheInv, NEW a \in Askers, NEW rec, OneRun(a, rec), asks[a].at # "done",
         rec.result # "none" => rec.at = "done",
         rec.result = "cached" => GaveVerdict(rec.from) /\ rec.now - rec.from.at < CacheSpan,
         \/ cached' = cached
         \/ cached' = [by |-> a, at |-> rec.now] /\ rec.at = "done" /\ rec.result = "verdict"
  PROVE  CacheInv'
<1>1. /\ \A b \in Askers : b # a => asks'[b] = asks[b]
      /\ asks'[a] = rec
  BY OthersStand
<1>2. \A e : GaveVerdict(e) => asks'[e.by] = asks[e.by]
  BY <1>1 DEF GaveVerdict
<1>3. cached'.by # Nobody =>
        /\ cached'.by \in Askers /\ asks'[cached'.by].at = "done"
        /\ asks'[cached'.by].result = "verdict" /\ cached'.at = asks'[cached'.by].now
  BY <1>1, <1>2 DEF CacheInv, GaveVerdict
<1>4. \A b \in Askers : asks'[b].result # "none" => asks'[b].at = "done"
  BY <1>1 DEF CacheInv
<1>5. ASSUME NEW b \in Askers, asks'[b].result = "cached"
      PROVE  LET e == asks'[b].from
             IN /\ e.by \in Askers /\ asks'[e.by].at = "done"
                /\ asks'[e.by].result = "verdict" /\ e.at = asks'[e.by].now
                /\ asks'[b].now - e.at < CacheSpan
  <2>1. GaveVerdict(asks'[b].from) /\ asks'[b].now - asks'[b].from.at < CacheSpan
    BY <1>1, <1>5 DEF CacheInv
  <2> QED BY <2>1, <1>2 DEF GaveVerdict
<1> QED
  BY <1>3, <1>4, <1>5 DEF CacheInv, GaveVerdict

\* A run that moves without charging or sending.
LEMMA RunMoves ==
  ASSUME AgentsInv, NEW a \in Askers, NEW rec, OneRun(a, rec),
         asks[a].at # "done", UNCHANGED <<hour, quota, posts, reading, panel>>,
         asks[a].tries <= rec.tries, rec.tries < MaxRetries,
         rec.at \in Preparing => asks[a].at \in Preparing \/ asks[a].tries < rec.tries,
         rec.at \in {"backing", "queued"} =>
           asks[a].at \in {"backing", "queued"}
           /\ rec.tries = asks[a].tries /\ rec.charged = asks[a].charged,
         rec.result # "none" => rec.at = "done",
         rec.result = "cached" => GaveVerdict(rec.from) /\ rec.now - rec.from.at < CacheSpan,
         \/ cached' = cached
         \/ cached' = [by |-> a, at |-> rec.now] /\ rec.at = "done" /\ rec.result = "verdict"
  PROVE  AgentsInv'
<1> USE DEF AgentsInv
<1>1. AskTypes'
  <2>1. asks' \in [Askers -> AskRec] /\ rec.now \in Nat
    BY OthersStand DEF OneRun, AskRec
  <2>2. cached' \in CachedRun
    BY <2>1 DEF AskTypes, CachedRun
  <2> QED BY <2>1, <2>2 DEF AskTypes
<1>2. QuotaInv'
  <2>1. Charging' \subseteq Charging
    <3>1. asks[a].at \in {"backing", "queued"} => Request(a) \in Charging
      BY DEF Charging
    <3> QED BY <3>1, ChargingIs DEF Request
  <2>2. /\ Today' = Today /\ quota' = quota /\ posts' = posts
        /\ \A d \in Nat : CountedFor(d)' = CountedFor(d)
    BY DEF Today, CountedFor
  <2>3. \A d \in Nat : CountedFor(d) \in Int
    BY AgentAssumption DEF CountedFor, AskTypes
  <2>4. \A d \in Nat : CountedFor(d) <= CountedFor(d)'
    BY <2>2, <2>3
  <2>5. quota'.day <= Today' /\ quota'.spent <= MaxPerDay /\ quota' \in [day : Nat, spent : Nat]
    BY <2>2 DEF QuotaInv, AskTypes
  <2> QED BY <2>1, <2>2, <2>4, <2>5, QuotaStands
<1>3. TriesInv'
  BY TriesKept
<1>4. CacheInv'
  BY CacheKept
<1> QED BY <1>1, <1>2, <1>3, <1>4

-----------------------------------------------------------------------------
(* Agent calls: the steps *)

LEMMA AgentsStart == AgentsInit => AgentsInv
<1> SUFFICES ASSUME AgentsInit PROVE AgentsInv
  OBVIOUS
<1> USE DEF AgentsInit, CallsInit
<1>1. AskTypes
  <2>1. cached \in CachedRun
    BY DEF CachedRun
  <2> QED BY <2>1, FS_EmptySet DEF AskTypes, AskRec, AskPlaces
<1>2. Charging = {} /\ posts = {}
  BY DEF Charging
<1>3. QuotaInv
  <2>1. Today = 0
    BY AgentAssumption DEF Today
  <2>2. \A d \in Nat : ChargedTo(d) = {}
    BY <1>2 DEF ChargedTo
  <2>3. Cardinality({}) = 0 /\ IsFiniteSet({})
    BY FS_EmptySet
  <2>4. \A d \in Nat : CountedFor(d) = 0
    BY DEF CountedFor
  <2> QED BY <1>2, <2>1, <2>2, <2>3, <2>4, AgentAssumption DEF QuotaInv
<1>4. TriesInv
  BY AgentAssumption DEF TriesInv
<1>5. CacheInv
  BY DEF CacheInv
<1> QED BY <1>1, <1>3, <1>4, <1>5 DEF AgentsInv

LEMMA EndIs ==
  ASSUME AskTypes, NEW a \in Askers, NEW result \in {"cached", "fallback", "verdict", "cancelled"},
         Ended(a, result)
  PROVE  LET rec == [asks[a] EXCEPT !.at = "done", !.result = result]
         IN  /\ OneRun(a, rec) /\ rec.at = "done" /\ rec.result = result
             /\ rec.now = asks[a].now /\ rec.tries = asks[a].tries
<1>1. asks[a] \in AskRec
  BY DEF AskTypes
<1> QED
  BY <1>1 DEF AskTypes, Ended, OneRun, AskRec, AskPlaces

LEMMA TriesBound ==
  ASSUME AgentsInv, NEW a \in Askers
  PROVE  asks[a].tries \in Nat /\ asks[a].tries < MaxRetries
BY DEF AgentsInv, AskTypes, AskRec, TriesInv

LEMMA BeginAskKeeps ==
  ASSUME AgentsInv, NEW a \in Askers, BeginAsk(a), UNCHANGED <<reading, panel>>
  PROVE  AgentsInv'
<1>1. AskTypes /\ asks[a] \in AskRec /\ cached \in CachedRun /\ hour \in Nat /\ CacheInv
  BY DEF AgentsInv, AskTypes
<1>2. asks[a].at = "new" /\ asks[a].result = "none"
  BY <1>1 DEF BeginAsk, CacheInv
<1>3. CASE a \in Timers /\ CacheIsFresh(hour)
  <2> DEFINE rec == [asks[a] EXCEPT !.at = "done", !.now = hour, !.result = "cached",
                                    !.from = cached]
  <2>1. OneRun(a, rec)
    BY <1>1, <1>3 DEF BeginAsk, OneRun, AskRec, AskPlaces
  <2>2. /\ rec.tries = asks[a].tries /\ rec.at = "done" /\ rec.from = cached
        /\ rec.now = hour
    BY <1>1 DEF AskRec
  <2>3. GaveVerdict(rec.from) /\ rec.now - rec.from.at < CacheSpan
    BY <1>1, <1>3, <2>2 DEF CacheIsFresh, CacheInv
  <2> HIDE DEF rec
  <2>4. UNCHANGED <<hour, quota, posts, reading, panel, cached>>
    BY DEF BeginAsk
  <2> QED BY <1>2, <2>1, <2>2, <2>3, <2>4, TriesBound, RunMoves DEF Preparing
<1>4. CASE ~(a \in Timers /\ CacheIsFresh(hour))
  <2> DEFINE rec == [asks[a] EXCEPT !.at = "asking", !.now = hour]
  <2>1. OneRun(a, rec)
    BY <1>1, <1>4 DEF BeginAsk, OneRun, AskRec, AskPlaces
  <2>2. /\ rec.tries = asks[a].tries /\ rec.at = "asking" /\ rec.result = "none"
    BY <1>1, <1>2 DEF AskRec
  <2> HIDE DEF rec
  <2>4. UNCHANGED <<hour, quota, posts, reading, panel, cached>>
    BY DEF BeginAsk
  <2> QED BY <1>2, <2>1, <2>2, <2>4, TriesBound, RunMoves DEF Preparing
<1> QED BY <1>3, <1>4

LEMMA BackedOffKeeps ==
  ASSUME AgentsInv, NEW a \in Askers, BackedOff(a), UNCHANGED <<reading, panel>>
  PROVE  AgentsInv'
<1> DEFINE rec == [asks[a] EXCEPT !.at = "queued"]
<1>1. AskTypes /\ asks[a] \in AskRec /\ CacheInv /\ asks[a].at = "backing"
  BY DEF AgentsInv, AskTypes, BackedOff
<1>2. OneRun(a, rec)
  BY <1>1 DEF BackedOff, OneRun, AskRec, AskPlaces
<1>3. /\ rec.tries = asks[a].tries /\ rec.at = "queued" /\ rec.result = "none"
      /\ rec.charged = asks[a].charged
  BY <1>1 DEF AskRec, CacheInv
<1> HIDE DEF rec
<1>4. UNCHANGED <<hour, quota, posts, reading, panel, cached>>
  BY DEF BackedOff
<1> QED BY <1>1, <1>2, <1>3, <1>4, TriesBound, RunMoves DEF Preparing

LEMMA EndKeeps ==
  ASSUME AgentsInv, NEW a \in Askers,
         NEW result \in {"fallback", "verdict", "cancelled"}, Ended(a, result),
         asks[a].at # "done", UNCHANGED <<hour, quota, posts, reading, panel>>,
         \/ cached' = cached
         \/ cached' = [by |-> a, at |-> asks[a].now] /\ result = "verdict"
  PROVE  AgentsInv'
<1> DEFINE rec == [asks[a] EXCEPT !.at = "done", !.result = result]
<1>1. /\ OneRun(a, rec) /\ rec.at = "done" /\ rec.result = result
      /\ rec.now = asks[a].now /\ rec.tries = asks[a].tries
  <2>1. AskTypes /\ result \in {"cached", "fallback", "verdict", "cancelled"}
    BY DEF AgentsInv
  <2> HIDE DEF rec
  <2> QED BY <2>1, EndIs DEF rec
<1> HIDE DEF rec
<1> QED BY <1>1, TriesBound, RunMoves DEF Preparing

LEMMA RetriesKeeps ==
  ASSUME AgentsInv, NEW a \in Askers, Retries(a), UNCHANGED <<reading, panel>>
  PROVE  AgentsInv'
<1>1. AskTypes /\ asks[a] \in AskRec /\ CacheInv /\ asks[a].at = "posted"
      /\ asks[a].result = "none" /\ UNCHANGED <<hour, quota, posts, cached>>
  BY DEF AgentsInv, AskTypes, Retries, CacheInv
<1>2. CASE asks[a].tries + 1 < MaxRetries
  <2> DEFINE rec == [asks[a] EXCEPT !.at = "asking", !.tries = @ + 1]
  <2>0. asks[a].tries + 1 \in Nat
    BY TriesBound
  <2>1. OneRun(a, rec)
    <3>1. rec \in AskRec
      BY <1>1, <2>0 DEF AskRec, AskPlaces
    <3>2. asks' = [asks EXCEPT ![a] = rec]
      BY <1>1, <1>2 DEF Retries, AskTypes
    <3> QED BY <3>1, <3>2 DEF OneRun
  <2>2. rec.tries = asks[a].tries + 1 /\ rec.at = "asking" /\ rec.result = "none"
    BY <1>1 DEF AskRec
  <2> HIDE DEF rec
  <2>3. asks[a].tries < rec.tries /\ asks[a].tries <= rec.tries /\ rec.tries < MaxRetries
    BY <2>2, <1>2, TriesBound
  <2> QED BY <1>1, <2>1, <2>2, <2>3, RunMoves
<1>3. CASE ~(asks[a].tries + 1 < MaxRetries)
  <2>1. Ended(a, "fallback")
    BY <1>3 DEF Retries
  <2> QED BY <1>1, <2>1, EndKeeps
<1> QED BY <1>2, <1>3

\* The counter of the day at hand: nothing is lost when it rolls over.
LEMMA RolledCounts ==
  ASSUME AskTypes, QuotaInv
  PROVE  /\ Today \in Nat /\ Rolled \in [day : Nat, spent : Nat]
         /\ Rolled.day = Today /\ Rolled.spent <= MaxPerDay
         /\ \A d \in Nat : CountedFor(d) <=
              IF d = Today THEN Rolled.spent ELSE IF d < Today THEN MaxPerDay ELSE 0
<1>1. Today \in Nat
  BY AgentAssumption DEF Today, AskTypes
<1>2. quota.day \in Nat /\ quota.spent \in Nat /\ quota.day <= Today /\ quota.spent <= MaxPerDay
  BY DEF AskTypes, QuotaInv
<1>3. /\ Rolled \in [day : Nat, spent : Nat] /\ Rolled.day = Today /\ Rolled.spent <= MaxPerDay
      /\ Rolled.spent = IF quota.day = Today THEN quota.spent ELSE 0
  BY <1>1, <1>2, AgentAssumption DEF Rolled, AskTypes
<1> QED
  BY <1>1, <1>2, <1>3, AgentAssumption DEF CountedFor

LEMMA PrecheckAskKeeps ==
  ASSUME AgentsInv, NEW a \in Askers, PrecheckAsk(a), UNCHANGED <<reading, panel>>
  PROVE  AgentsInv'
<1>1. AskTypes /\ QuotaInv /\ TriesInv /\ CacheInv /\ asks[a] \in AskRec
      /\ asks[a].at = "asking" /\ asks[a].result = "none"
      /\ UNCHANGED <<hour, posts, cached>> /\ Today' = Today
  BY DEF AgentsInv, AskTypes, PrecheckAsk, CacheInv, Today
<1>2. Today \in Nat /\ Rolled \in [day : Nat, spent : Nat] /\ Rolled.day = Today
      /\ Rolled.spent <= MaxPerDay
  BY <1>1, RolledCounts
<1>3. CASE Rolled.spent + 1 > MaxPerDay
  <2> DEFINE rec == [asks[a] EXCEPT !.at = "done", !.result = "fallback"]
  <2>1. quota' = Rolled /\ Ended(a, "fallback")
    BY <1>3 DEF PrecheckAsk
  <2>2. /\ OneRun(a, rec) /\ rec.at = "done" /\ rec.result = "fallback"
        /\ rec.tries = asks[a].tries
    BY <1>1, <2>1, EndIs
  <2> HIDE DEF rec
  <2>3. AskTypes'
    BY <1>1, <1>2, <2>1, <2>2, OthersStand DEF AskTypes
  <2>4. QuotaInv'
    <3>1. Charging' \subseteq Charging
      BY <1>1, <2>2, ChargingIs
    <3>2. \A d \in Nat : CountedFor(d)' =
            IF d = Today THEN Rolled.spent ELSE IF d < Today THEN MaxPerDay ELSE 0
      BY <2>1, <1>2 DEF CountedFor
    <3>3. \A d \in Nat : CountedFor(d) <= CountedFor(d)'
      BY <1>1, <3>2, RolledCounts
    <3> QED BY <1>1, <1>2, <2>1, <3>1, <3>3, QuotaStands
  <2>5. TriesInv'
    BY <1>1, <2>2, TriesBound, TriesKept DEF Preparing
  <2>6. CacheInv'
    BY <1>1, <2>2, CacheKept
  <2> QED BY <2>3, <2>4, <2>5, <2>6 DEF AgentsInv
<1>4. CASE ~(Rolled.spent + 1 > MaxPerDay)
  <2> DEFINE place == IF asks[a].tries = 0 THEN "queued" ELSE "backing"
             rec == [asks[a] EXCEPT !.charged = Today, !.at = place]
             mine == [who |-> a, try |-> asks[a].tries, charged |-> Today]
  <2>1. OneRun(a, rec)
    BY <1>1, <1>2, <1>4 DEF PrecheckAsk, OneRun, AskRec, AskPlaces
  <2>2. /\ rec.tries = asks[a].tries /\ rec.charged = Today /\ rec.result = "none"
        /\ rec.at \in {"queued", "backing"}
    BY <1>1 DEF AskRec
  <2> HIDE DEF rec
  <2>3. /\ quota' = [Rolled EXCEPT !.spent = @ + 1] /\ quota' \in [day : Nat, spent : Nat]
        /\ quota'.day = Today /\ quota'.spent = Rolled.spent + 1 /\ quota'.spent <= MaxPerDay
    BY <1>2, <1>4, AgentAssumption DEF PrecheckAsk
  <2>4. AskTypes'
    BY <1>1, <2>3, <2>1, OthersStand DEF AskTypes
  <2>5. QuotaInv'
    <3>1. Charging' \subseteq Charging \cup {mine}
      BY <1>1, <2>1, <2>2, ChargingIs
    <3>2. IsFiniteSet(posts \cup Charging)
      BY <1>1, FS_Union DEF AskTypes, QuotaInv
    <3>3. IsFiniteSet(Charging')
      <4>1. IsFiniteSet(Charging \cup {mine})
        BY <1>1, FS_AddElement DEF QuotaInv
      <4> QED BY <3>1, <4>1, FS_Subset
    <3>4. ASSUME NEW d \in Nat PROVE Cardinality(ChargedTo(d)') <= CountedFor(d)'
      <4>0. ChargedTo(d) \subseteq posts \cup Charging
        BY DEF ChargedTo
      <4>1. IsFiniteSet(ChargedTo(d)) /\ Cardinality(ChargedTo(d)) \in Nat
        BY <4>0, <3>2, FS_Subset, FS_CardinalityType
      <4>2. Cardinality(ChargedTo(d)) <= CountedFor(d)
        BY <1>1 DEF QuotaInv
      <4>3. CountedFor(d) <= IF d = Today THEN Rolled.spent ELSE IF d < Today THEN MaxPerDay ELSE 0
        BY <1>1, RolledCounts
      <4>4. CountedFor(d)' = IF d = Today THEN Rolled.spent + 1
                             ELSE IF d < Today THEN MaxPerDay ELSE 0
        BY <2>3 DEF CountedFor
      <4>5. CountedFor(d) \in Int
        BY <1>1, AgentAssumption DEF CountedFor, AskTypes
      <4>6. CASE d = Today
        <5>1. ChargedTo(d)' \subseteq ChargedTo(d) \cup {mine}
          BY <1>1, <3>1 DEF ChargedTo
        <5>2. /\ IsFiniteSet(ChargedTo(d) \cup {mine})
              /\ Cardinality(ChargedTo(d) \cup {mine}) <= Cardinality(ChargedTo(d)) + 1
          <6> HIDE DEF mine
          <6>1. /\ IsFiniteSet(ChargedTo(d) \cup {mine})
                /\ \/ Cardinality(ChargedTo(d) \cup {mine}) = Cardinality(ChargedTo(d))
                   \/ Cardinality(ChargedTo(d) \cup {mine}) = Cardinality(ChargedTo(d)) + 1
            BY <4>1, FS_AddElement, Zenon
          <6> QED BY <6>1, <4>1
        <5>3. Cardinality(ChargedTo(d)') <= Cardinality(ChargedTo(d) \cup {mine})
              /\ IsFiniteSet(ChargedTo(d)')
          BY <5>1, <5>2, FS_Subset
        <5>4. Cardinality(ChargedTo(d)') \in Nat /\ Cardinality(ChargedTo(d) \cup {mine}) \in Nat
          BY <5>2, <5>3, FS_CardinalityType
        <5> QED BY <1>2, <4>1, <4>2, <4>3, <4>4, <4>5, <4>6, <5>2, <5>3, <5>4
      <4>7. CASE d # Today
        <5>1. ChargedTo(d)' \subseteq ChargedTo(d)
          BY <1>1, <3>1, <4>7 DEF ChargedTo
        <5>2. Cardinality(ChargedTo(d)') <= Cardinality(ChargedTo(d)) /\ IsFiniteSet(ChargedTo(d)')
          BY <4>1, <5>1, FS_Subset
        <5>3. Cardinality(ChargedTo(d)') \in Nat
          BY <5>2, FS_CardinalityType
        <5> QED BY <1>2, <4>1, <4>2, <4>3, <4>4, <4>5, <4>7, <5>2, <5>3, AgentAssumption
      <4> QED BY <4>6, <4>7
    <3>5. quota'.day <= Today'
      BY <1>1, <1>2, <2>3
    <3> QED BY <3>3, <3>4, <3>5, <2>3 DEF QuotaInv
  <2>6. TriesInv'
    BY <1>1, <2>1, <2>2, TriesBound, TriesKept DEF Preparing
  <2>7. CacheInv'
    BY <1>1, <2>1, <2>2, CacheKept
  <2> QED BY <2>4, <2>5, <2>6, <2>7 DEF AgentsInv
<1> QED BY <1>3, <1>4

LEMMA PostAskKeeps ==
  ASSUME AgentsInv, NEW a \in Askers, PostAsk(a), UNCHANGED <<reading, panel>>
  PROVE  AgentsInv'
<1> DEFINE rec == [asks[a] EXCEPT !.at = "posted"]
<1>1. AskTypes /\ QuotaInv /\ TriesInv /\ CacheInv /\ asks[a] \in AskRec
      /\ asks[a].at = "queued" /\ asks[a].result = "none"
      /\ UNCHANGED <<hour, quota, cached>> /\ Today' = Today
      /\ posts' = posts \cup {Request(a)}
  BY DEF AgentsInv, AskTypes, PostAsk, CacheInv, Today, Request
<1>2. OneRun(a, rec)
  BY <1>1 DEF PostAsk, OneRun, AskRec, AskPlaces
<1>3. rec.tries = asks[a].tries /\ rec.at = "posted" /\ rec.result = "none"
  BY <1>1 DEF AskRec
<1> HIDE DEF rec
<1>4. Request(a) \in Charging
  BY <1>1 DEF Charging
<1>5. Request(a) \in SentRec
  BY <1>1, <1>4, ChargingTyped
<1>6. AskTypes'
  <2>1. IsFiniteSet(posts')
    BY <1>1, FS_AddElement DEF AskTypes
  <2> QED BY <1>1, <1>2, <1>5, <2>1, OthersStand DEF AskTypes
<1>7. QuotaInv'
  <2>1. Charging' \subseteq Charging
    BY <1>1, <1>2, <1>3, ChargingIs
  <2>2. \A d \in Nat : CountedFor(d) \in Int /\ CountedFor(d)' = CountedFor(d)
    BY <1>1, AgentAssumption DEF CountedFor, AskTypes
  <2>3. \A d \in Nat : CountedFor(d) <= CountedFor(d)'
    BY <2>2
  <2>4. posts' \cup Charging' \subseteq posts \cup Charging
    BY <1>1, <1>4, <2>1
  <2>5. quota'.day <= Today' /\ quota'.spent <= MaxPerDay /\ quota' \in [day : Nat, spent : Nat]
    BY <1>1 DEF QuotaInv, AskTypes
  <2> QED BY <1>1, <2>3, <2>4, <2>5, QuotaStands
<1>8. TriesInv'
  <2>1. /\ asks'[a] = rec /\ \A b \in Askers : b # a => asks'[b] = asks[b]
    BY <1>1, <1>2, OthersStand
  <2>2. Request(a).who = a /\ Request(a).try = asks[a].tries
    BY DEF Request
  <2>3. ASSUME NEW p \in posts
        PROVE  /\ p.who \in Askers /\ p.try \in Nat /\ p.try <= asks'[p.who].tries
               /\ asks'[p.who].at \in Preparing => p.try < asks'[p.who].tries
               /\ p.who = a => p.try < asks[a].tries
    <3>1. p.who \in Askers /\ p.try \in Nat
      BY <1>1 DEF AskTypes, SentRec
    <3>2. p.try <= asks[p.who].tries
          /\ (asks[p.who].at \in Preparing => p.try < asks[p.who].tries)
      BY <1>1 DEF TriesInv, Preparing
    <3> QED BY <1>1, <1>3, <2>1, <3>1, <3>2 DEF Preparing
  <2>4. \A b \in Askers : asks'[b].tries < MaxRetries
    BY <1>1, <1>3, <2>1 DEF TriesInv
  <2>5. asks[a].tries \in Nat
    BY <1>1 DEF AskRec
  <2>6. \A p \in posts' :
          /\ p.try <= asks'[p.who].tries
          /\ asks'[p.who].at \in Preparing => p.try < asks'[p.who].tries
    BY <1>1, <1>3, <2>1, <2>2, <2>3, <2>5 DEF Preparing
  <2>7. \A p, q \in posts' : (p.who = q.who /\ p.try = q.try) => p = q
    <3>1. \A p, q \in posts : (p.who = q.who /\ p.try = q.try) => p = q
      BY <1>1 DEF TriesInv
    <3> QED BY <1>1, <2>2, <2>3, <2>5, <3>1
  <2> QED BY <2>4, <2>6, <2>7 DEF TriesInv, Preparing
<1>9. CacheInv'
  BY <1>1, <1>2, <1>3, CacheKept
<1> QED BY <1>6, <1>7, <1>8, <1>9 DEF AgentsInv

LEMMA InvalidateKeeps ==
  AgentsInv /\ Invalidate /\ UNCHANGED <<reading, panel>> => AgentsInv'
<1> SUFFICES ASSUME AgentsInv, Invalidate, UNCHANGED <<reading, panel>> PROVE AgentsInv'
  OBVIOUS
<1> USE DEF Invalidate, AgentsInv
<1>1. AskTypes'
  BY DEF AskTypes, CachedRun
<1>2. QuotaInv'
  BY DEF QuotaInv, ChargedTo, CountedFor, Charging, Request, Today
<1>3. TriesInv'
  BY DEF TriesInv
<1>4. CacheInv'
  BY DEF CacheInv, GaveVerdict
<1> QED BY <1>1, <1>2, <1>3, <1>4

\* A later hour is of the same or a later day.
LEMMA DayGoesOn ==
  ASSUME NEW n \in Nat, NEW h \in Nat \ {0}
  PROVE  n \div h <= (n + 1) \div h
<1> DEFINE p == n \div h
           q == (n + 1) \div h
<1>1. p \in Nat /\ q \in Nat
  OBVIOUS
<1>2. h * p <= n /\ n + 1 < h * q + h
  OBVIOUS
<1>3. ASSUME q < p PROVE FALSE
  <2> HIDE DEF p, q
  <2>1. p >= q + 1
    BY <1>1, <1>3
  <2>2. h * p >= h * (q + 1)
    BY <1>1, <2>1
  <2>3. h * (q + 1) = h * q + h
    BY <1>1
  <2> QED BY <1>1, <1>2, <2>2, <2>3
<1> QED BY <1>1, <1>3

LEMMA HourKeeps ==
  AgentsInv /\ Hour /\ UNCHANGED <<reading, panel>> => AgentsInv'
<1> SUFFICES ASSUME AgentsInv, Hour, UNCHANGED <<reading, panel>> PROVE AgentsInv'
  OBVIOUS
<1> USE DEF AgentsInv
<1>1. hour \in Nat /\ hour' = hour + 1 /\ UNCHANGED <<quota, asks, posts, cached>>
  BY DEF Hour, AskTypes
<1>2. AskTypes'
  BY <1>1 DEF AskTypes
<1>3. QuotaInv'
  <2>1. Today \in Nat /\ Today' \in Nat /\ Today <= Today'
    BY <1>1, AgentAssumption, DayGoesOn DEF Today
  <2>2. quota'.day <= Today'
    BY <1>1, <2>1 DEF QuotaInv, AskTypes
  <2> QED BY <1>1, <2>2 DEF QuotaInv, ChargedTo, CountedFor, Charging, Request
<1>4. TriesInv'
  BY <1>1 DEF TriesInv
<1>5. CacheInv'
  BY <1>1 DEF CacheInv, GaveVerdict
<1> QED BY <1>2, <1>3, <1>4, <1>5

LEMMA AgentsGoOn == AgentsInv /\ [AgentsNext]_agentVars => AgentsInv'
<1> SUFFICES ASSUME AgentsInv, [AgentsNext]_agentVars PROVE AgentsInv'
  OBVIOUS
<1>1. CASE CallsNext /\ UNCHANGED <<reading, panel>>
  <2>1. ASSUME NEW a \in Askers, AnswerGood(a) PROVE AgentsInv'
    BY <1>1, <2>1, EndKeeps DEF AnswerGood
  <2>2. ASSUME NEW a \in Askers, AnswerUseless(a) PROVE AgentsInv'
    BY <1>1, <2>2, EndKeeps DEF AnswerUseless
  <2>3. ASSUME NEW a \in Askers, CancelAsk(a) PROVE AgentsInv'
    BY <1>1, <2>3, EndKeeps DEF CancelAsk
  <2> QED
    BY <1>1, <2>1, <2>2, <2>3, BeginAskKeeps, PrecheckAskKeeps, BackedOffKeeps, PostAskKeeps,
       RetriesKeeps, InvalidateKeeps, HourKeeps DEF CallsNext
<1>2. ASSUME UNCHANGED callVars, reading' \subseteq Readings, panel' \subseteq Panels
      PROVE  AgentsInv'
  <2> USE <1>2 DEF callVars, AgentsInv
  <2>1. AskTypes'
    BY DEF AskTypes
  <2>2. QuotaInv'
    BY DEF QuotaInv, ChargedTo, CountedFor, Charging, Request, Today
  <2>3. TriesInv'
    BY DEF TriesInv
  <2>4. CacheInv'
    BY DEF CacheInv, GaveVerdict
  <2> QED BY <2>1, <2>2, <2>3, <2>4
<1>3. reading \subseteq Readings /\ panel \subseteq Panels
  BY DEF AgentsInv, AskTypes
<1>4. CASE Analyze /\ UNCHANGED <<callVars, panel>>
  BY <1>2, <1>3, <1>4 DEF Analyze
<1>5. CASE ScorePanel /\ UNCHANGED <<callVars, reading>>
  BY <1>2, <1>3, <1>5 DEF ScorePanel
<1>6. CASE UNCHANGED agentVars
  BY <1>2, <1>3, <1>6 DEF agentVars
<1> QED BY <1>1, <1>4, <1>5, <1>6 DEF AgentsNext

LEMMA BudgetHolds == AgentsInv => BudgetKept
<1> SUFFICES ASSUME AgentsInv PROVE BudgetKept
  OBVIOUS
<1> USE DEF AgentsInv
<1>1. ASSUME NEW d \in 0..Today
      PROVE  Cardinality({p \in posts : p.charged = d}) <= MaxPerDay
  <2>1. d \in Nat
    BY AgentAssumption DEF Today, AskTypes
  <2> DEFINE ofDay == {p \in posts : p.charged = d}
  <2>2. IsFiniteSet(ChargedTo(d))
    <3>1. IsFiniteSet(posts \cup Charging)
      BY FS_Union DEF AskTypes, QuotaInv
    <3>2. ChargedTo(d) \subseteq posts \cup Charging
      BY DEF ChargedTo
    <3> QED BY <3>1, <3>2, FS_Subset
  <2>3. ofDay \subseteq ChargedTo(d)
    BY DEF ChargedTo
  <2>4. Cardinality(ofDay) <= Cardinality(ChargedTo(d)) /\ IsFiniteSet(ofDay)
    BY <2>2, <2>3, FS_Subset
  <2>5. Cardinality(ofDay) \in Nat /\ Cardinality(ChargedTo(d)) \in Nat
    BY <2>2, <2>4, FS_CardinalityType
  <2>6. Cardinality(ChargedTo(d)) <= CountedFor(d) /\ CountedFor(d) \in Int
        /\ CountedFor(d) <= MaxPerDay
    BY <2>1, AgentAssumption DEF QuotaInv, CountedFor, AskTypes
  <2> QED BY <2>4, <2>5, <2>6, AgentAssumption
<1>2. \A p \in posts : p.try < MaxRetries
  <2> SUFFICES ASSUME NEW p \in posts PROVE p.try < MaxRetries
    OBVIOUS
  <2>1. p.who \in Askers /\ p.try \in Nat
    BY DEF AskTypes, SentRec
  <2>2. asks[p.who].tries \in Nat /\ asks[p.who].tries < MaxRetries
    BY <2>1, TriesBound
  <2>3. p.try <= asks[p.who].tries
    BY DEF TriesInv
  <2> QED BY <2>1, <2>2, <2>3, AgentAssumption
<1> QED BY <1>1, <1>2 DEF BudgetKept, TriesInv

\* For any runs, budget, slots, retries and midnights: no day is charged more
\* requests than its budget and no try is sent twice, a cached verdict is one a
\* run really got within the span, and neither a failed fetch of trades or card
\* nor a missing or pessimistic verdict makes a token look better.
THEOREM AgentsAreSound == AgentsSpec => []AgentsSound
<1>1. AgentsInv => CacheHonest
  BY DEF AgentsInv, CacheInv, CacheHonest, GaveVerdict
<1>2. AgentsInv => AgentsSound
  BY <1>1, BudgetHolds, FailsClosed, NeverHelps DEF AgentsInv, AgentsSound
<1> QED
  BY <1>2, AgentsStart, AgentsGoOn, PTL DEF AgentsSpec

=============================================================================
