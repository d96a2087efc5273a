--------------------------- MODULE SecretFiles_proofs ---------------------------
(***************************************************************************)
(* Proofs about the files of secrets: which of them are guarded, whose     *)
(* denial is reported, and what a reader is given instead.                 *)
(*                                                                         *)
(* The fanotify read-guard (module ReadGuard), for any number of           *)
(* processes, of protected paths, of files made and replaced, of errors    *)
(* and of restarts; then the store of secrets (module SecretVault), for    *)
(* any files, texts, hosts and allowlist and any number of changes.        *)
(***************************************************************************)
EXTENDS ReadGuard, SecretVault, FiniteSetTheorems, TLAPS

-----------------------------------------------------------------------------
(* The inductive invariant.                                                *)

\* Each file was made and is at one path: what keeps a mark on its file when
\* another file is replaced.
FilesMade ==
  /\ inode \in [Paths -> 0..made]
  /\ \A p, q \in Paths : inode[p] = inode[q] => p = q \/ inode[p] = NoFile

\* While an event is in hand it is somebody's open, and what is about to be
\* reported was denied.
EventInHand ==
  /\ guard \in {"decide", "name"} => ev \in Opens
  /\ guard = "name" => ev \in denied

\* A pair is left out as a repetition only after it was reported.
RecentReported == recent \subseteq reports

\* The denied process whose report is the event thread's next step.
InHand == IF guard = "name" THEN {ev[1]} ELSE {}

\* Processes are denied one at a time, so the unreported ones can be counted.
Countable == IsFiniteSet({d[1] : d \in denied})

IInv == /\ TypeOK /\ FilesMade /\ EventInHand /\ RecentReported /\ Countable
        /\ MarkedIsGuarded /\ DeniedIsReported

-----------------------------------------------------------------------------
(* Types.                                                                  *)

\* The state in which the daemon starts satisfies the invariant.
LEMMA InitIInv == Init => IInv
  <1> SUFFICES ASSUME Init PROVE IInv
    OBVIOUS
  <1> USE ReadGuardAssumption
  <1>1. TypeOK /\ FilesMade /\ EventInHand /\ RecentReported
    BY DEF Init, TypeOK, FilesMade, EventInHand, RecentReported, Steps, Walks, NoFile
  <1>2. Countable /\ MarkedIsGuarded
    BY FS_EmptySet DEF Init, Countable, MarkedIsGuarded
  <1>3. Unreported \ InHand = {} /\ crashes = 0 /\ fails = 0
    BY DEF Init, Unreported, InHand
  <1>4. DeniedIsReported
    BY <1>3, FS_EmptySet DEF DeniedIsReported, InHand
  <1> QED
    BY <1>1, <1>2, <1>4 DEF IInv

\* Files that come, go and are replaced keep the marks among the files made,
\* and each file at its one path.
LEMMA FilesStep ==
  ASSUME TypeOK, FilesMade, NEW p \in Paths, Replace(p) \/ Remove(p)
  PROVE  TypeOK' /\ FilesMade'
  <1>0. /\ MaxInodes \in Nat /\ made \in 0..MaxInodes
        /\ inode \in [Paths -> 0..made] /\ marks \subseteq 1..made
        /\ changed \subseteq marked
    BY ReadGuardAssumption DEF TypeOK, FilesMade
  <1>1. made' \in 0..MaxInodes /\ made <= made' /\ FilesMade'
    <2>1. CASE Replace(p)
      <3>1. made < MaxInodes /\ made' = made + 1 /\ inode' = [inode EXCEPT ![p] = made']
        BY <2>1 DEF Replace
      <3>2. /\ made' \in 0..MaxInodes /\ made <= made' /\ made' \in 0..made'
            /\ 0..made \subseteq 0..made' /\ made' \notin 0..made
        BY <1>0, <3>1
      <3>3. inode' \in [Paths -> 0..made']
        BY <1>0, <3>1, <3>2
      <3>4. \A q, r \in Paths : inode'[q] = inode'[r] => q = r \/ inode'[q] = NoFile
        BY <1>0, <3>1, <3>2 DEF FilesMade
      <3> QED
        BY <3>2, <3>3, <3>4 DEF FilesMade
    <2>2. CASE Remove(p)
      <3>1. made' = made /\ inode' = [inode EXCEPT ![p] = NoFile]
        BY <2>2 DEF Remove
      <3>2. NoFile \in 0..made /\ made <= made
        BY <1>0 DEF NoFile
      <3>3. inode' \in [Paths -> 0..made']
        BY <1>0, <3>1, <3>2
      <3>4. \A q, r \in Paths : inode'[q] = inode'[r] => q = r \/ inode'[q] = NoFile
        BY <1>0, <3>1 DEF FilesMade
      <3> QED
        BY <1>0, <3>1, <3>2, <3>3, <3>4 DEF FilesMade
    <2> QED
      BY <2>1, <2>2
  <1>2. 1..made \subseteq 1..made' /\ 0..made' \subseteq 0..MaxInodes
    BY <1>0, <1>1
  <1>3. marks' \subseteq 1..made' /\ changed' \subseteq marked'
    BY <1>0, <1>2 DEF Replace, Remove, Unmark
  <1>4. inode' \in [Paths -> 0..MaxInodes]
    BY <1>1, <1>2 DEF FilesMade
  <1> QED
    BY <1>1, <1>3, <1>4
    DEF TypeOK, Replace, Remove, Unmark, eventVars, threadVars, resultVars, boundVars

\* An opener waits for an answer or gets the file.
LEMMA OpenStep ==
  ASSUME TypeOK, FilesMade, NEW who \in Openers, NEW p \in Paths, Open(who, p)
  PROVE  TypeOK' /\ FilesMade'
  <1> USE ReadGuardAssumption DEF TypeOK, FilesMade
  <1>1. asks' \in 0..MaxAsks /\ waiting' \subseteq Openers
    BY SMTT(30) DEF Open, eventVars
  <1>2. events' \in Seq(Opens)
    <2>1. Append(events, <<who, p>>) \in Seq(Opens)
      BY DEF Opens
    <2> QED
      BY <2>1 DEF Open, eventVars
  <1>3. raw' \in (Agents \X Globs) \cup {Nobody}
    BY SMTT(30) DEF Open, Gets
  <1> QED
    BY <1>1, <1>2, <1>3 DEF Open, fileVars, markVars, threadVars, resultVars, boundVars

\* The marker thread marks inodes of files that exist.
LEMMA MarkerStep ==
  ASSUME TypeOK, FilesMade, Marker
  PROVE  TypeOK' /\ FilesMade'
  <1> USE DEF TypeOK, FilesMade
  <1>1. CASE Scan
    BY <1>1
    DEF Scan, Found, Walks, Paths, fileVars, eventVars, threadVars, resultVars, boundVars
  <1>2. ASSUME NEW p \in Paths, Mark(p) PROVE TypeOK' /\ FilesMade'
    <2>1. inode[p] # NoFile => inode[p] \in 1..made
      <3>1. inode[p] \in 0..made /\ made \in Nat
        BY ReadGuardAssumption
      <3> QED
        BY <3>1 DEF NoFile
    <2>2. /\ marks' \subseteq 1..made /\ marked' \subseteq Paths
          /\ marked \subseteq marked'
      BY <1>2, <2>1 DEF Mark
    <2>3. targets' \subseteq Paths /\ failing' \subseteq Paths
      BY <1>2 DEF Mark
    <2> QED
      BY <1>2, <2>2, <2>3 DEF Mark, fileVars, eventVars, threadVars, resultVars, boundVars
  <1> QED
    BY <1>1, <1>2 DEF Marker

\* The event thread answers the event it read and reports whom it denied.
LEMMA GuardStep ==
  ASSUME TypeOK, FilesMade, EventInHand, Guard \/ ReadFails
  PROVE  TypeOK' /\ FilesMade'
  <1>0. events # <<>> => Head(events) \in Opens /\ Tail(events) \in Seq(Opens)
    <2>1. events \in Seq(Opens)
      BY DEF TypeOK
    <2> QED
      BY <2>1
  <1> USE DEF TypeOK, FilesMade
  <1>1. CASE Read
    BY <1>0, <1>1 DEF Read, Steps, fileVars, markVars, resultVars, boundVars
  <1>2. CASE ReadFails
    <2>1. fails' \in 0..MaxFails
      BY <1>2, ReadGuardAssumption DEF ReadFails
    <2> QED
      BY <1>0, <1>2, <2>1 DEF ReadFails, Steps, fileVars, markVars
  <1>3. CASE Respond
    <2>1. ev \in Opens
      BY <1>3 DEF Respond, EventInHand
    <2>2. denied' \subseteq Opens /\ guard' \in Steps /\ ev' \in Opens \cup {Nobody}
      BY <1>3, <2>1 DEF Respond, Steps
    <2>3. raw' \in (Agents \X Globs) \cup {Nobody}
      BY <1>3 DEF Respond, Gets
    <2> QED
      BY <1>3, <2>2, <2>3 DEF Respond, fileVars, markVars, boundVars
  <1>4. CASE Report
    <2>1. ev \in Opens
      BY <1>4 DEF Report, EventInHand
    <2>2. reports' \subseteq Openers \X Names /\ recent' \subseteq Openers \X Names
      BY <1>4, <2>1 DEF Report, Opens
    <2> QED
      BY <1>4, <2>2 DEF Report, Steps, fileVars, markVars, eventVars, boundVars
  <1> QED
    BY <1>1, <1>2, <1>3, <1>4 DEF Guard

\* A restart starts all threads anew.
LEMMA RestartStep ==
  ASSUME TypeOK, FilesMade, Restart
  PROVE  TypeOK' /\ FilesMade'
  <1> USE ReadGuardAssumption DEF TypeOK, FilesMade
  <1>1. raw' \in (Agents \X Globs) \cup {Nobody}
    BY DEF Restart, Opens
  <1>2. crashes' \in 0..MaxCrashes
    BY DEF Restart
  <1> QED
    BY <1>1, <1>2 DEF Restart, Steps, Walks, fileVars

\* Every step keeps the types.
LEMMA NextTypes ==
  ASSUME TypeOK, FilesMade, EventInHand, [Next]_vars
  PROVE  TypeOK' /\ FilesMade'
  <1>1. CASE Refresh
    BY <1>1 DEF Refresh, TypeOK, FilesMade, fileVars, markVars, eventVars, threadVars,
                resultVars, boundVars
  <1>2. CASE Expire
    BY <1>2 DEF Expire, TypeOK, FilesMade, fileVars, markVars, eventVars, resultVars,
                boundVars
  <1>3. CASE Close
    BY <1>3 DEF Close, TypeOK, FilesMade, fileVars, markVars, eventVars, threadVars,
                resultVars, boundVars
  <1>4. CASE UNCHANGED vars
    BY <1>4 DEF TypeOK, FilesMade, vars, fileVars, markVars, eventVars, threadVars,
                resultVars, boundVars
  <1> QED
    BY <1>1, <1>2, <1>3, <1>4, FilesStep, OpenStep, MarkerStep, GuardStep, RestartStep
    DEF Next

-----------------------------------------------------------------------------
(* What is marked.                                                         *)

\* Every step leaves the file marked that is at a path of the marker's set,
\* unless it is the one that replaces or removes this file: another's mark goes
\* with another inode.
LEMMA StepMarked ==
  ASSUME TypeOK, FilesMade, MarkedIsGuarded, [Next]_vars
  PROVE  MarkedIsGuarded'
  <1>0. \A q \in Paths : inode[q] \in marks => inode[q] # NoFile
    BY ReadGuardAssumption DEF TypeOK, NoFile
  <1>1. ASSUME NEW p \in Paths, Replace(p) \/ Remove(p) PROVE MarkedIsGuarded'
    <2>1. /\ marked' = marked /\ marks' = marks \ {inode[p]}
          /\ changed' = changed \cup ({p} \cap marked)
      BY <1>1 DEF Replace, Remove, Unmark
    <2>2. \A q \in Paths \ {p} : inode'[q] = inode[q]
      BY <1>1 DEF Replace, Remove, TypeOK
    <2> SUFFICES ASSUME NEW q \in marked, q \notin changed, q # p
                 PROVE  inode'[q] \in marks'
      BY <2>1 DEF MarkedIsGuarded
    <2>3. q \in Paths /\ inode[q] \in marks
      BY DEF TypeOK, MarkedIsGuarded
    <2>4. inode[q] # inode[p]
      BY <1>0, <2>3 DEF FilesMade
    <2> QED
      BY <2>1, <2>2, <2>3, <2>4
  <1>2. ASSUME NEW p \in Paths, Mark(p) PROVE MarkedIsGuarded'
    BY <1>2 DEF Mark, MarkedIsGuarded, fileVars
  <1>3. CASE Restart
    BY <1>3 DEF Restart, MarkedIsGuarded
  <1>4. CASE UNCHANGED <<inode, marks, marked, changed>>
    BY <1>4 DEF MarkedIsGuarded
  <1> QED
    BY <1>1, <1>2, <1>3, <1>4
    DEF Next, Marker, Guard, Open, Scan, Close, Refresh, Expire, Read, ReadFails, Respond,
        Report, vars, fileVars, markVars

-----------------------------------------------------------------------------
(* Who is denied, and who is reported.                                     *)

\* Steps of files, openers, the marker and the tracker deny and report nobody.
LEMMA Bystanders ==
  ASSUME [Next]_vars, ~Guard, ~ReadFails, ~Restart
  PROVE  /\ UNCHANGED <<guard, ev, denied, reports, fails, crashes>>
         /\ recent' \in {recent, {}}
  BY DEF Next, Marker, Replace, Remove, Open, Scan, Mark, Close, Refresh, Expire, vars,
         threadVars, resultVars, boundVars

\* The event in hand stays somebody's, and what is left out was reported.
LEMMA StepInHand ==
  ASSUME TypeOK, EventInHand, RecentReported, [Next]_vars
  PROVE  EventInHand' /\ RecentReported'
  <1> USE DEF EventInHand, RecentReported
  <1>1. CASE ~Guard /\ ~ReadFails /\ ~Restart
    BY <1>1, Bystanders
  <1>2. CASE Read
    <2>1. Head(events) \in Opens
      BY <1>2 DEF Read, TypeOK
    <2> QED
      BY <1>2, <2>1 DEF Read, resultVars
  <1>3. CASE ReadFails
    BY <1>3 DEF ReadFails
  <1>4. CASE Respond
    BY <1>4 DEF Respond
  <1>5. CASE Report
    BY <1>5 DEF Report
  <1>6. CASE Restart
    BY <1>6 DEF Restart
  <1> QED
    BY <1>1, <1>2, <1>3, <1>4, <1>5, <1>6 DEF Guard

\* The denied processes stay countable.
LEMMA StepCountable ==
  ASSUME Countable, [Next]_vars
  PROVE  Countable'
  <1>1. \/ denied' = denied \/ denied' = denied \cup {ev}
        \/ denied' = denied \cup {Head(events)}
    <2>1. CASE ~Guard /\ ~ReadFails /\ ~Restart
      BY <2>1, Bystanders
    <2> QED
      BY <2>1 DEF Guard, Read, Respond, Report, ReadFails, Restart, resultVars
  <1>2. \E who : \/ {d[1] : d \in denied'} = {d[1] : d \in denied}
                \/ {d[1] : d \in denied'} = {d[1] : d \in denied} \cup {who}
    <2>1. ASSUME NEW o, denied' = denied \cup {o}
          PROVE  {d[1] : d \in denied'} = {d[1] : d \in denied} \cup {o[1]}
      BY <2>1
    <2> QED
      BY <1>1, <2>1
  <1> QED
    BY <1>2, FS_AddElement DEF Countable

\* The denied processes no report names, but for the one about to be reported.
Lost == Unreported \ InHand

\* Outside a restart and a hard error the lost ones grow by nobody.
LEMMA NobodyForgotten ==
  ASSUME EventInHand, RecentReported, [Next]_vars, ~Restart, ~ReadFails
  PROVE  Lost' \subseteq Lost
  <1> USE DEF Lost, Unreported, InHand
  <1>1. CASE ~Guard
    BY <1>1, Bystanders
  <1>2. CASE Read
    BY <1>2 DEF Read, resultVars
  <1>3. CASE Respond
    <2>1. InHand = {} /\ reports' = reports
      BY <1>3 DEF Respond
    <2>2. \/ denied' = denied
          \/ denied' = denied \cup {ev} /\ InHand' = {ev[1]}
      BY <1>3 DEF Respond
    <2> QED
      BY <2>1, <2>2
  <1>4. CASE Report
    <2>1. InHand = {ev[1]} /\ InHand' = {} /\ denied' = denied
      BY <1>4 DEF Report
    <2>2. reports \subseteq reports'
      BY <1>4 DEF Report
    <2>3. PICK n \in Names : <<ev[1], n>> \in reports'
      BY <1>4 DEF Report, RecentReported
    <2>4. ev[1] \in {r[1] : r \in reports'}
      BY <2>3
    <2> QED
      BY <2>1, <2>2, <2>4
  <1> QED
    BY <1>1, <1>2, <1>3, <1>4 DEF Guard

\* A restart forgets at most the one process that was about to be reported, a
\* hard error the one the kernel denies.
LEMMA ForgetsOne ==
  ASSUME Restart \/ ReadFails
  PROVE  /\ \E who : Lost' \subseteq Lost \cup {who}
         /\ \/ crashes' = crashes + 1 /\ fails' = fails
            \/ crashes' = crashes /\ fails' = fails + 1
  <1> USE DEF Lost, Unreported, InHand
  <1>1. CASE Restart
    <2>1. Lost' \subseteq Lost \cup {ev[1]}
      BY <1>1 DEF Restart
    <2> QED
      BY <1>1, <2>1 DEF Restart
  <1>2. CASE ReadFails
    <2>1. Lost' \subseteq Lost \cup {Head(events)[1]}
      BY <1>2 DEF ReadFails
    <2> QED
      BY <1>2, <2>1 DEF ReadFails
  <1> QED
    BY <1>1, <1>2

\* Every step leaves no more denied processes unreported than there were
\* restarts and hard errors.
LEMMA StepReported ==
  ASSUME IInv, [Next]_vars
  PROVE  DeniedIsReported'
  <1>1. /\ IsFiniteSet(Lost) /\ Cardinality(Lost) \in Nat
        /\ Cardinality(Lost) <= crashes + fails
    BY FS_Subset, FS_CardinalityType
    DEF IInv, Countable, Lost, Unreported, DeniedIsReported, InHand
  <1>2. crashes \in Nat /\ fails \in Nat
    BY ReadGuardAssumption DEF IInv, TypeOK
  <1>3. SUFFICES Cardinality(Lost') <= crashes' + fails'
    BY DEF DeniedIsReported, Lost, InHand
  <1>4. CASE ~Restart /\ ~ReadFails
    <2>1. Lost' \subseteq Lost
      BY <1>4, NobodyForgotten DEF IInv
    <2>2. IsFiniteSet(Lost') /\ Cardinality(Lost') <= Cardinality(Lost)
      BY <1>1, <2>1, FS_Subset
    <2>3. crashes' = crashes /\ fails' = fails
      <3>1. CASE ~Guard
        BY <1>4, <3>1, Bystanders
      <3> QED
        BY <3>1 DEF Guard, Read, Respond, Report, boundVars
    <2> QED
      BY <1>1, <1>2, <2>2, <2>3, FS_CardinalityType
  <1>5. CASE Restart \/ ReadFails
    <2>1. /\ crashes' + fails' = crashes + fails + 1
          /\ \E who : Lost' \subseteq Lost \cup {who}
      BY <1>2, <1>5, ForgetsOne
    <2>2. PICK who : Lost' \subseteq Lost \cup {who}
      BY <2>1
    <2>3. IsFiniteSet(Lost \cup {who}) /\ Cardinality(Lost \cup {who}) <= Cardinality(Lost) + 1
      BY <1>1, FS_AddElement
    <2>4. IsFiniteSet(Lost') /\ Cardinality(Lost') <= Cardinality(Lost \cup {who})
      BY <2>2, <2>3, FS_Subset
    <2>5. Cardinality(Lost') \in Nat /\ Cardinality(Lost \cup {who}) \in Nat
      BY <2>3, <2>4, FS_CardinalityType
    <2> QED
      BY <1>1, <1>2, <2>1, <2>3, <2>4, <2>5
  <1> QED
    BY <1>4, <1>5

-----------------------------------------------------------------------------
\* The inductive invariant holds in every reachable state.
THEOREM SpecIInv == Spec => []IInv
  <1>1. IInv /\ [Next]_vars => IInv'
    BY NextTypes, StepMarked, StepInHand, StepCountable, StepReported DEF IInv
  <1> QED
    BY InitIInv, <1>1, PTL DEF Spec

\* The read-guard's state is always well typed (ReadGuard.TypeOK); above all
\* no mark is placed on something that is not a file.
THEOREM SpecTypeOK == Spec => []TypeOK
  <1>1. IInv => TypeOK
    BY DEF IInv
  <1> QED
    BY SpecIInv, <1>1, PTL

\* A path the marker believes marked has its file marked in the kernel, unless
\* that file was replaced or removed after it (ReadGuard.MarkedIsGuarded).
THEOREM SpecMarkedIsGuarded == Spec => []MarkedIsGuarded
  <1>1. IInv => MarkedIsGuarded
    BY DEF IInv
  <1> QED
    BY SpecIInv, <1>1, PTL

\* Every denied process appears in the reports, but for one at most per
\* restart of the daemon and one per hard error of its reads
\* (ReadGuard.DeniedIsReported).
THEOREM SpecDeniedIsReported == Spec => []DeniedIsReported
  <1>1. IInv => DeniedIsReported
    BY DEF IInv
  <1> QED
    BY SpecIInv, <1>1, PTL

-----------------------------------------------------------------------------
(* The store of secrets.                                                   *)

\* Only lines that are masked hold tokens, so no token is taken over from a file
\* without an entry being made for what it stands for.
TokensMasked(lines) ==
  \A i \in 1..Len(lines) : IsToken(lines[i].val) => Masks(lines[i])

\* No text of a file has been masked so often that the bound is reached.
BelowBound(lines) == \A i \in 1..Len(lines) : lines[i].val[1] < MaxDepth

\* Every token in the lines has an entry.
Known(lines) == \A x \in TokensOf(lines) : x \in {Token(v) : v \in store}

VaultInv ==
  /\ VaultTypeOK /\ SentIsMeant
  /\ \A p \in SecretPaths :
       /\ TokensMasked(files[p]) /\ BelowBound(files[p])
       /\ TokensMasked(pending[p].lines) /\ TokensMasked(shown[p])
       /\ pending[p].kept => Known(pending[p].lines)

\* What is assumed of the constants.
LEMMA VaultConstants ==
  /\ MaxDepth \in Nat \ {0} /\ MaxEvents \in Nat
  /\ \A p \in SecretPaths : \A lines \in FilesOf(p) :
       /\ lines \in Seq(Lines) /\ TokensMasked(lines) /\ BelowBound(lines)
  <1>1. MaxDepth \in Nat \ {0} /\ MaxEvents \in Nat
    BY VaultAssumption
  <1>2. ASSUME NEW p \in SecretPaths, NEW lines \in FilesOf(p)
        PROVE  lines \in Seq(Lines) /\ TokensMasked(lines) /\ BelowBound(lines)
    <2>1. lines \in Seq({l \in Lines : ~IsToken(l.val)})
      BY VaultAssumption
    <2>2. lines \in Seq(Lines)
      BY <2>1
    <2>3. ASSUME NEW i \in 1..Len(lines)
          PROVE  lines[i] \in Lines /\ ~IsToken(lines[i].val)
      BY <2>1, <2>3
    <2>4. ASSUME NEW i \in 1..Len(lines) PROVE lines[i].val[1] < MaxDepth
      <3>1. lines[i].val \in (0..MaxDepth) \X STRING /\ ~(lines[i].val[1] > 0)
        BY <2>3 DEF Lines, Texts, IsToken
      <3> QED
        BY <1>1, <3>1
    <2> QED
      BY <2>2, <2>3, <2>4 DEF TokensMasked, BelowBound
  <1> QED
    BY <1>1, <1>2

\* A line of a file that is masked.
LEMMA MaskedLine ==
  ASSUME NEW l \in Lines, l.val[1] < MaxDepth,
         IsToken(l.val) => Masks(l)
  PROVE  /\ Masked(l) \in Lines
         /\ IsToken(Masked(l).val) => Masks(Masked(l)) /\ Masks(l)
         /\ Masks(l) => /\ Masked(l).val = Token(l.val)
                          /\ l.val \in (0..MaxDepth - 1) \X STRING
  <1>0. MaxDepth \in Nat \ {0} /\ l.val \in (0..MaxDepth) \X STRING
    BY VaultConstants DEF Lines, Texts
  <1>1. l.val \in (0..MaxDepth - 1) \X STRING
    BY <1>0
  <1>2. Token(l.val) \in Texts
    BY <1>1, <1>0 DEF Token, Texts
  <1>3. CASE Masks(l)
    <2>1. Masked(l) = [l EXCEPT !.form = "pair", !.val = Token(l.val)]
      BY <1>3 DEF Masked
    <2>2. /\ Masked(l) \in Lines /\ Masked(l).form = "pair"
          /\ Masked(l).secret = l.secret /\ Masked(l).val = Token(l.val)
      BY <1>2, <2>1 DEF Lines, Forms
    <2>3. Masks(Masked(l))
      BY <1>3, <2>2 DEF Masks, mask_env, mask_yaml, mask_json
    <2> QED
      BY <1>1, <1>3, <2>2, <2>3
  <1>4. CASE ~Masks(l)
    BY <1>4 DEF Masked
  <1> QED
    BY <1>3, <1>4

\* The tokens of some lines, one by one.
LEMMA TokensOne ==
  ASSUME NEW lines, NEW x \in TokensOf(lines)
  PROVE  \E i \in 1..Len(lines) : x = lines[i].val /\ IsToken(lines[i].val)
  BY DEF TokensOf, LinesOf

\* The tokens of typed lines are tokens.
LEMMA TokensTyped ==
  ASSUME NEW lines \in Seq(Lines), NEW x \in TokensOf(lines)
  PROVE  x \in Texts /\ IsToken(x)
  <1>1. PICK i \in 1..Len(lines) : x = lines[i].val /\ IsToken(lines[i].val)
    BY TokensOne
  <1>2. lines[i] \in Lines
    OBVIOUS
  <1> QED
    BY <1>1, <1>2 DEF Lines

\* A file that is masked: each of its tokens has an entry afterwards.
LEMMA MaskedFile ==
  ASSUME VaultInv, NEW p \in SecretPaths
  PROVE  /\ mask_file(p) \in Seq(Lines) /\ TokensMasked(mask_file(p))
         /\ \A x \in TokensOf(mask_file(p)) : x \in {Token(v) : v \in tokenize(p)}
         /\ \A v \in tokenize(p) : v \in (0..MaxDepth - 1) \X STRING
         /\ store \subseteq tokenize(p)
  <1> DEFINE f == files[p]   g == mask_file(p)
  <1>1. f \in Seq(Lines) /\ TokensMasked(f) /\ BelowBound(f)
    BY DEF VaultInv, VaultTypeOK
  <1>2. ASSUME NEW i \in 1..Len(f)
        PROVE  /\ f[i] \in Lines /\ f[i].val[1] < MaxDepth
               /\ IsToken(f[i].val) => Masks(f[i])
    BY <1>1 DEF TokensMasked, BelowBound
  <1>3. g = [i \in 1..Len(f) |-> Masked(f[i])]
    BY <1>1 DEF mask_file
  <1>4. \A i \in 1..Len(f) : Masked(f[i]) \in Lines
    BY <1>2, MaskedLine
  <1>5. g \in Seq(Lines) /\ Len(g) = Len(f) /\ \A i \in 1..Len(f) : g[i] = Masked(f[i])
    BY <1>1, <1>3, <1>4
  <1>6. TokensMasked(g)
    BY <1>2, <1>5, MaskedLine DEF TokensMasked
  <1>7. ASSUME NEW i \in 1..Len(f), Masks(f[i])
        PROVE  f[i].val \in tokenize(p)
    BY <1>7 DEF tokenize, Maskable, LinesOf
  <1>8. ASSUME NEW x \in TokensOf(g)
        PROVE  x \in {Token(v) : v \in tokenize(p)}
    <2>1. PICK i \in 1..Len(g) : x = g[i].val /\ IsToken(g[i].val)
      BY <1>8, TokensOne
    <2>2. Masks(f[i]) /\ g[i].val = Token(f[i].val)
      BY <1>2, <1>5, <2>1, MaskedLine
    <2> QED
      BY <1>5, <1>7, <2>1, <2>2
  <1>9. ASSUME NEW v \in tokenize(p) PROVE v \in (0..MaxDepth - 1) \X STRING
    <2>1. CASE v \in store
      BY <2>1 DEF VaultInv, VaultTypeOK
    <2>2. CASE v \notin store
      <3>1. PICK i \in 1..Len(f) : Masks(f[i]) /\ v = f[i].val
        BY <1>9, <2>2 DEF tokenize, Maskable, LinesOf
      <3> QED
        BY <1>2, <3>1, MaskedLine
    <2> QED
      BY <2>1, <2>2
  <1> QED
    BY <1>5, <1>6, <1>8, <1>9 DEF tokenize

\* Files as the user wrote them, and nothing handed out.
LEMMA InitVault ==
  ASSUME VaultInit
  PROVE  VaultInv
  <1>1. ASSUME NEW p \in SecretPaths
        PROVE  files[p] \in Seq(Lines) /\ TokensMasked(files[p]) /\ BelowBound(files[p])
    BY VaultConstants DEF VaultInit
  <1>2. /\ files \in [SecretPaths -> UNION {FilesOf(p) : p \in SecretPaths}]
        /\ pending = [p \in SecretPaths |-> [lines |-> <<>>, kept |-> FALSE]]
        /\ shown = [p \in SecretPaths |-> <<>>]
        /\ store = {} /\ held = {} /\ current = {} /\ last = NoRequest /\ changes = 0
        /\ format \in Formats
    BY DEF VaultInit, Nothing
  <1>3. files \in [SecretPaths -> Seq(Lines)]
    BY <1>1, <1>2
  <1>4. <<>> \in Seq(Lines) /\ TokensMasked(<<>>)
    BY DEF TokensMasked
  <1>5. pending \in [SecretPaths -> [lines : Seq(Lines), kept : BOOLEAN]]
        /\ shown \in [SecretPaths -> Seq(Lines)]
    BY <1>2, <1>4
  <1>6. changes \in 0..MaxEvents
    BY <1>2, VaultConstants
  <1>7. VaultTypeOK
    BY <1>2, <1>3, <1>5, <1>6 DEF VaultTypeOK
  <1>8. SentIsMeant
    BY <1>2 DEF SentIsMeant
  <1> QED
    BY <1>1, <1>2, <1>4, <1>7, <1>8 DEF VaultInv

\* What VaultInv says, without the last request.
Kept ==
  /\ format \in Formats
  /\ files \in [SecretPaths -> Seq(Lines)]
  /\ \A v \in store : v \in (0..MaxDepth - 1) \X STRING
  /\ pending \in [SecretPaths -> [lines : Seq(Lines), kept : BOOLEAN]]
  /\ shown \in [SecretPaths -> Seq(Lines)]
  /\ \A x \in held : x \in Texts /\ IsToken(x)
  /\ current \subseteq held /\ current \subseteq {Token(v) : v \in store}
  /\ changes \in 0..MaxEvents
  /\ \A p \in SecretPaths :
       /\ TokensMasked(files[p]) /\ BelowBound(files[p])
       /\ TokensMasked(pending[p].lines) /\ TokensMasked(shown[p])
       /\ pending[p].kept => Known(pending[p].lines)
Request ==
  last = NoRequest \/ last \in [arg : held, out : Texts, made : BOOLEAN,
                                  relayed : BOOLEAN]

\* It is the rest of it.
LEMMA VaultParts ==
  /\ VaultInv <=> Kept /\ Request /\ SentIsMeant
  /\ VaultInv' <=> Kept' /\ Request' /\ SentIsMeant'
  BY DEF VaultInv, Kept, Request, VaultTypeOK

\* The last request stays one of a token that was given.
LEMMA RequestStays ==
  ASSUME Request, UNCHANGED last, held \subseteq held', SentIsMeant
  PROVE  Request' /\ SentIsMeant'
  BY DEF Request, SentIsMeant, NoRequest

\* One more change.
LEMMA OneChange ==
  ASSUME Kept, Event
  PROVE  changes' \in 0..MaxEvents
  BY VaultConstants DEF Kept, Event

\* The masked text of a file is put on its way.
LEMMA MaskKeeps ==
  ASSUME VaultInv, NEW p \in SecretPaths, Mask(p)
  PROVE  Kept'
  <1> PICK g : g = mask_file(p)
    OBVIOUS
  <1>1. /\ store' = tokenize(p)
        /\ pending' = [pending EXCEPT ![p] = [lines |-> g, kept |-> TRUE]]
        /\ UNCHANGED <<format, files, shown, held, current, last, changes>>
    BY DEF Mask
  <1>2. Kept
    BY VaultParts
  <1>3. /\ g \in Seq(Lines) /\ TokensMasked(g)
        /\ \A x \in TokensOf(g) : x \in {Token(v) : v \in store'}
        /\ \A v \in store' : v \in (0..MaxDepth - 1) \X STRING
        /\ store \subseteq store'
    BY <1>1, MaskedFile
  <1>4. /\ pending' \in [SecretPaths -> [lines : Seq(Lines), kept : BOOLEAN]]
        /\ pending'[p] = [lines |-> g, kept |-> TRUE]
        /\ \A q \in SecretPaths : q # p => pending'[q] = pending[q]
    BY <1>1, <1>2, <1>3 DEF Kept
  <1>5. ASSUME NEW q \in SecretPaths
        PROVE  TokensMasked(files[q])' /\ TokensMasked(shown[q])'
    BY <1>1, <1>2
    DEF Kept, TokensMasked, Masks, mask_env, mask_yaml, mask_json
  <1>6. ASSUME NEW q \in SecretPaths
        PROVE  TokensMasked(pending[q].lines)'
    <2> PICK h : h = pending'[q].lines
      OBVIOUS
    <2>1. TokensMasked(h)
      <3>1. CASE q = p
        BY <1>3, <1>4, <3>1
      <3>2. CASE q # p
        BY <1>2, <1>4, <3>2 DEF Kept
      <3> QED
        BY <3>1, <3>2
    <2> QED
      BY <1>1, <2>1
      DEF TokensMasked, Masks, mask_env, mask_yaml, mask_json
  <1>7. ASSUME NEW q \in SecretPaths, pending'[q].kept
        PROVE  Known(pending[q].lines)'
    <2>1. CASE q = p
      BY <1>3, <1>4, <2>1 DEF Known
    <2>2. CASE q # p
      <3>1. pending'[q] = pending[q] /\ Known(pending[q].lines)
        BY <1>2, <1>4, <1>7, <2>2 DEF Kept
      <3> QED
        BY <1>3, <3>1 DEF Known
    <2> QED
      BY <2>1, <2>2
  <1>8. ASSUME NEW q \in SecretPaths
        PROVE  BelowBound(files[q])'
    BY <1>1, <1>2 DEF Kept, BelowBound
  <1> QED
    BY <1>1, <1>2, <1>3, <1>4, <1>5, <1>6, <1>7, <1>8 DEF Kept

\* A reader gets the masked text: tokens, each with an entry if the store was not
\* emptied meanwhile.
LEMMA DeliverKeeps ==
  ASSUME VaultInv, NEW p \in SecretPaths, Deliver(p)
  PROVE  Kept' /\ held \subseteq held'
  <1> PICK g : g = pending[p].lines
    OBVIOUS
  <1>1. /\ pending' = [pending EXCEPT ![p] = [lines |-> <<>>, kept |-> FALSE]]
        /\ shown' = [shown EXCEPT ![p] = g]
        /\ held' = held \cup TokensOf(g)
        /\ current' = IF pending[p].kept THEN current \cup TokensOf(g) ELSE current
        /\ UNCHANGED <<format, files, store, last, changes>>
    BY DEF Deliver, Nothing
  <1>2. Kept
    BY VaultParts
  <1>3. /\ g \in Seq(Lines) /\ TokensMasked(g)
        /\ pending[p].kept => Known(g)
    BY <1>2 DEF Kept
  <1>4. \A x \in TokensOf(g) : x \in Texts /\ IsToken(x)
    BY <1>3, TokensTyped
  <1>5. \A x \in held' : x \in Texts /\ IsToken(x)
    BY <1>1, <1>2, <1>4 DEF Kept
  <1>6. current' \subseteq held' /\ current' \subseteq {Token(v) : v \in store}
    <2>1. CASE pending[p].kept
      BY <1>1, <1>2, <1>3, <2>1 DEF Kept, Known
    <2>2. CASE ~pending[p].kept
      BY <1>1, <1>2, <2>2 DEF Kept
    <2> QED
      BY <2>1, <2>2
  <1>7. /\ <<>> \in Seq(Lines)
        /\ pending' \in [SecretPaths -> [lines : Seq(Lines), kept : BOOLEAN]]
        /\ pending'[p] = [lines |-> <<>>, kept |-> FALSE]
        /\ \A q \in SecretPaths : q # p => pending'[q] = pending[q]
    BY <1>1, <1>2 DEF Kept
  <1>8. /\ shown' \in [SecretPaths -> Seq(Lines)]
        /\ shown'[p] = g
        /\ \A q \in SecretPaths : q # p => shown'[q] = shown[q]
    BY <1>1, <1>2, <1>3 DEF Kept
  <1>9. ASSUME NEW q \in SecretPaths
        PROVE  TokensMasked(files[q])' /\ BelowBound(files[q])'
    BY <1>1, <1>2
    DEF Kept, BelowBound, TokensMasked, Masks, mask_env, mask_yaml, mask_json
  <1>10. ASSUME NEW q \in SecretPaths
         PROVE  TokensMasked(pending[q].lines)'
    <2> PICK h : h = pending'[q].lines
      OBVIOUS
    <2>1. TokensMasked(h)
      <3>1. CASE q = p
        BY <1>7, <3>1 DEF TokensMasked
      <3>2. CASE q # p
        BY <1>2, <1>7, <3>2 DEF Kept
      <3> QED
        BY <3>1, <3>2
    <2> QED
      BY <1>1, <2>1
      DEF TokensMasked, Masks, mask_env, mask_yaml, mask_json
  <1>11. ASSUME NEW q \in SecretPaths
         PROVE  TokensMasked(shown[q])'
    <2> PICK h : h = shown'[q]
      OBVIOUS
    <2>1. TokensMasked(h)
      <3>1. CASE q = p
        BY <1>3, <1>8, <3>1
      <3>2. CASE q # p
        BY <1>2, <1>8, <3>2 DEF Kept
      <3> QED
        BY <3>1, <3>2
    <2> QED
      BY <1>1, <2>1
      DEF TokensMasked, Masks, mask_env, mask_yaml, mask_json
  <1>12. ASSUME NEW q \in SecretPaths, pending'[q].kept
         PROVE  Known(pending[q].lines)'
    <2>1. q # p
      BY <1>7, <1>12
    <2>2. pending'[q] = pending[q] /\ Known(pending[q].lines)
      BY <1>2, <1>7, <1>12, <2>1 DEF Kept
    <2> QED
      BY <1>1, <2>2 DEF Known
  <1>13. (\A v \in store : v \in (0..MaxDepth - 1) \X STRING)'
    BY <1>1, <1>2 DEF Kept
  <1> QED
    BY <1>1, <1>2, <1>5, <1>6, <1>7, <1>8, <1>9, <1>10, <1>11, <1>12, <1>13 DEF Kept

\* The store is emptied, by the user or by a new daemon: what is on its way goes
\* on or not, without entries.
LEMMA EmptiedKeeps ==
  ASSUME VaultInv, Event, Emptied,
         pending' \in [SecretPaths -> [lines : Seq(Lines), kept : BOOLEAN]],
         \A q \in SecretPaths : /\ ~pending'[q].kept
                                /\ pending'[q].lines \in {pending[q].lines, <<>>}
  PROVE  Kept'
  <1>1. /\ store' = {} /\ current' = {}
        /\ UNCHANGED <<format, files, shown, held, last>>
    BY DEF Emptied
  <1>2. Kept
    BY VaultParts
  <1>3. ASSUME NEW q \in SecretPaths
        PROVE  /\ TokensMasked(files[q])' /\ BelowBound(files[q])'
               /\ TokensMasked(shown[q])'
    BY <1>1, <1>2
    DEF Kept, BelowBound, TokensMasked, Masks, mask_env, mask_yaml, mask_json
  <1>4. ASSUME NEW q \in SecretPaths
        PROVE  TokensMasked(pending[q].lines)'
    <2> PICK h : h = pending'[q].lines
      OBVIOUS
    <2>1. TokensMasked(h)
      <3>1. CASE h = <<>>
        BY <3>1 DEF TokensMasked
      <3>2. CASE h # <<>>
        <4>1. h = pending[q].lines
          BY <3>2
        <4> QED
          BY <1>2, <4>1 DEF Kept
      <3> QED
        BY <3>1, <3>2
    <2> QED
      BY <1>1, <2>1
      DEF TokensMasked, Masks, mask_env, mask_yaml, mask_json
  <1>5. changes' \in 0..MaxEvents
    BY <1>2, OneChange
  <1> QED
    BY <1>1, <1>2, <1>3, <1>4, <1>5 DEF Kept

\* The two ways in which it is emptied.
LEMMA EmptyKeeps ==
  ASSUME VaultInv, clear \/ VaultRestart
  PROVE  Kept'
  <1>1. Kept
    BY VaultParts
  <1>2. CASE clear
    <2>1. /\ Event /\ Emptied
          /\ pending' = [p \in SecretPaths |-> [pending[p] EXCEPT !.kept = FALSE]]
      BY <1>2 DEF clear
    <2>2. ASSUME NEW p \in SecretPaths
          PROVE  /\ pending'[p] \in [lines : Seq(Lines), kept : BOOLEAN]
                 /\ ~pending'[p].kept /\ pending'[p].lines = pending[p].lines
      BY <1>1, <2>1 DEF Kept
    <2> QED
      BY <2>1, <2>2, EmptiedKeeps
  <1>3. CASE VaultRestart
    <2>1. /\ Event /\ Emptied
          /\ pending' = [p \in SecretPaths |-> [lines |-> <<>>, kept |-> FALSE]]
      BY <1>3 DEF VaultRestart, Nothing
    <2>2. <<>> \in Seq(Lines)
      OBVIOUS
    <2> QED
      BY <2>1, <2>2, EmptiedKeeps
  <1> QED
    BY <1>2, <1>3

\* A file gets other lines.
LEMMA FileKeeps ==
  ASSUME VaultInv, Event, NEW p \in SecretPaths,
         NEW lines \in Seq(Lines), TokensMasked(lines), BelowBound(lines),
         files' = [files EXCEPT ![p] = lines],
         UNCHANGED <<format, store, pending, shown, held, current, last>>
  PROVE  Kept'
  <1>1. Kept
    BY VaultParts
  <1>2. files' \in [SecretPaths -> Seq(Lines)]
    BY <1>1 DEF Kept
  <1>3. ASSUME NEW q \in SecretPaths
        PROVE  TokensMasked(files[q])' /\ BelowBound(files[q])'
    <2> PICK h : h = files'[q]
      OBVIOUS
    <2>1. TokensMasked(h) /\ BelowBound(h)
      <3>1. CASE q = p
        BY <1>1, <3>1 DEF Kept
      <3>2. CASE q # p
        <4>1. h = files[q]
          BY <1>1, <3>2 DEF Kept
        <4> QED
          BY <1>1, <4>1 DEF Kept
      <3> QED
        BY <3>1, <3>2
    <2>2. BelowBound(files[q])'
      BY <2>1 DEF BelowBound
    <2>3. TokensMasked(files[q])'
      BY <2>1 DEF TokensMasked, Masks, mask_env, mask_yaml, mask_json
    <2> QED
      BY <2>2, <2>3
  <1>4. ASSUME NEW q \in SecretPaths
        PROVE  TokensMasked(pending[q].lines)' /\ TokensMasked(shown[q])'
    BY <1>1 DEF Kept, TokensMasked, Masks, mask_env, mask_yaml, mask_json
  <1>5. ASSUME NEW q \in SecretPaths, pending'[q].kept
        PROVE  Known(pending[q].lines)'
    BY <1>1, <1>5 DEF Kept, Known
  <1>6. changes' \in 0..MaxEvents
    BY <1>1, OneChange
  <1> QED
    BY <1>1, <1>2, <1>3, <1>4, <1>5, <1>6 DEF Kept

\* The lines the agent writes into a file are of a masked text: the tokens in
\* them are masked once more, if the file is read.
LEMMA CopyKeeps ==
  ASSUME VaultInv, NEW p \in SecretPaths, NEW q \in SecretPaths,
         Copy(p, q)
  PROVE  Kept'
  <1> PICK g : g = shown[p]
    OBVIOUS
  <1>1. /\ Event /\ files' = [files EXCEPT ![q] = g]
        /\ \A x \in TokensOf(g) : x[1] < MaxDepth
        /\ UNCHANGED <<format, store, pending, shown, held, current, last>>
    BY DEF Copy
  <1>2. Kept /\ MaxDepth \in Nat \ {0}
    BY VaultParts, VaultConstants
  <1>3. g \in Seq(Lines) /\ TokensMasked(g)
    BY <1>2 DEF Kept
  <1>4. ASSUME NEW i \in 1..Len(g) PROVE g[i].val[1] < MaxDepth
    <2>1. g[i] \in Lines
      BY <1>3
    <2>2. g[i].val \in (0..MaxDepth) \X STRING
      BY <2>1 DEF Lines, Texts
    <2>3. CASE IsToken(g[i].val)
      <3>1. g[i].val \in TokensOf(g)
        BY <2>3 DEF TokensOf, LinesOf
      <3> QED
        BY <1>1, <3>1
    <2>4. CASE ~IsToken(g[i].val)
      BY <1>2, <2>2, <2>4 DEF IsToken
    <2> QED
      BY <2>3, <2>4
  <1>5. BelowBound(g)
    BY <1>4 DEF BelowBound
  <1> QED
    BY <1>1, <1>3, <1>5, FileKeeps

\* What becomes of a token in a request: the text it was made of, or one that it
\* goes back to further, if it is a token that has an entry, or it stays.
LEMMA Resolved ==
  ASSUME Kept, NEW x \in held, NEW y \in detokenize(x)
  PROVE  /\ y \in Texts /\ y[2] = x[2] /\ y[1] <= x[1]
         /\ x \in current => y[1] < x[1]
  <1>1. x \in (0..MaxDepth) \X STRING /\ MaxDepth \in Nat
    BY VaultConstants DEF Kept, Texts
  <1>2. PICK d \in 0..x[1] : /\ y = <<d, x[2]>>
                             /\ d = x[1] => <<d - 1, x[2]>> \notin store
    BY DEF detokenize
  <1>3. ASSUME x \in current PROVE <<x[1] - 1, x[2]>> \in store
    <2>1. PICK v \in store : x = Token(v)
      BY <1>3 DEF Kept
    <2>2. v \in (0..MaxDepth - 1) \X STRING
      BY <2>1 DEF Kept
    <2>3. v = <<x[1] - 1, x[2]>>
      BY <2>1, <2>2 DEF Token
    <2> QED
      BY <2>1, <2>3
  <1>4. x \in current => d # x[1]
    BY <1>2, <1>3
  <1> QED
    BY <1>1, <1>2, <1>4 DEF Texts

\* A request is sent.
LEMMA SentKeeps ==
  ASSUME VaultInv, NEW x \in held,
         Release(x) \/ \E urls \in SUBSET Addresses : Relay(x, urls)
  PROVE  Kept' /\ Request' /\ SentIsMeant'
  <1>1. Kept
    BY VaultParts
  <1> PICK m : m = (x \in current)
    OBVIOUS
  <1>2. PICK y :
          \/ /\ last' = [arg |-> x, out |-> y, made |-> m, relayed |-> TRUE]
             /\ y \in detokenize(x)
          \/ /\ last' = [arg |-> x, out |-> y, made |-> m, relayed |-> FALSE]
             /\ y = x
    <2>1. CASE \E urls \in SUBSET Addresses : Relay(x, urls)
      BY <2>1 DEF Relay, Sent
    <2>2. CASE Release(x)
      BY <2>2 DEF Release, Sent
    <2> QED
      BY <2>1, <2>2
  <1>3. UNCHANGED <<format, files, store, pending, shown, held, current, changes>>
    BY DEF Relay, Release, Sent
  <1>4. /\ y \in Texts /\ y[2] = x[2] /\ y[1] <= x[1]
        /\ x \in current /\ last'.relayed => y[1] < x[1]
    <2>1. CASE y \in detokenize(x)
      BY <1>1, <2>1, Resolved
    <2>2. CASE ~last'.relayed /\ y = x
      BY <1>1, <2>2 DEF Kept, Texts
    <2> QED
      BY <1>2, <2>1, <2>2
  <1>5. Request'
    <2>1. m \in BOOLEAN
      OBVIOUS
    <2>2. last' \in [arg : held, out : Texts, made : BOOLEAN,
                     relayed : BOOLEAN]
      <3> PICK r : r = last'.relayed
        OBVIOUS
      <3>1. r \in BOOLEAN
        <4>1. last'.relayed = TRUE \/ last'.relayed = FALSE
          BY <1>2
        <4> QED
          BY <4>1, Zenon
      <3>2. last' = [arg |-> x, out |-> y, made |-> m, relayed |-> r]
        BY <1>2
      <3> QED
        BY <1>4, <2>1, <3>1, <3>2
    <2> QED
      BY <1>3, <2>2 DEF Request
  <1>6. SentIsMeant'
    <2>1. last'.arg = x /\ last'.out = y /\ last'.made = m
      BY <1>2
    <2> QED
      BY <1>4, <2>1 DEF SentIsMeant
  <1>7. ASSUME NEW q \in SecretPaths
        PROVE  /\ TokensMasked(files[q])' /\ BelowBound(files[q])'
               /\ TokensMasked(pending[q].lines)' /\ TokensMasked(shown[q])'
    BY <1>1, <1>3
    DEF Kept, BelowBound, TokensMasked, Masks, mask_env, mask_yaml, mask_json
  <1>8. ASSUME NEW q \in SecretPaths, pending'[q].kept
        PROVE  Known(pending[q].lines)'
    BY <1>1, <1>3, <1>8 DEF Kept, Known
  <1>9. Kept'
    BY <1>1, <1>3, <1>7, <1>8 DEF Kept
  <1> QED
    BY <1>5, <1>6, <1>9

\* Nothing happens.
LEMMA VaultStutters ==
  ASSUME VaultInv, UNCHANGED vaultVars
  PROVE  VaultInv'
  <1> USE DEF vaultVars
  <1>1. VaultTypeOK'
    BY DEF VaultInv, VaultTypeOK, NoRequest
  <1>2. SentIsMeant'
    BY DEF VaultInv, SentIsMeant, NoRequest
  <1>3. ASSUME NEW p \in SecretPaths
        PROVE  /\ TokensMasked(files[p])' /\ BelowBound(files[p])'
               /\ TokensMasked(pending[p].lines)' /\ TokensMasked(shown[p])'
    BY DEF VaultInv, BelowBound, TokensMasked, Masks, mask_env, mask_yaml, mask_json
  <1>4. ASSUME NEW p \in SecretPaths, pending'[p].kept
        PROVE  Known(pending[p].lines)'
    BY <1>4 DEF VaultInv, Known
  <1> QED
    BY <1>1, <1>2, <1>3, <1>4 DEF VaultInv

\* Every step keeps the invariant.
LEMMA VaultStep ==
  ASSUME VaultInv, [VaultNext]_vaultVars
  PROVE  VaultInv'
  <1>1. Kept /\ Request /\ SentIsMeant
    BY VaultParts
  <1>2. ASSUME NEW p \in SecretPaths, Mask(p) PROVE VaultInv'
    <2>1. UNCHANGED <<last, held>>
      BY <1>2 DEF Mask
    <2> QED
      BY <1>1, <1>2, <2>1, MaskKeeps, RequestStays, VaultParts
  <1>3. ASSUME NEW p \in SecretPaths, Deliver(p) PROVE VaultInv'
    <2>1. UNCHANGED last
      BY <1>3 DEF Deliver
    <2> QED
      BY <1>1, <1>3, <2>1, DeliverKeeps, RequestStays, VaultParts
  <1>4. ASSUME NEW p \in SecretPaths, NEW lines \in FilesOf(p), Edit(p, lines)
        PROVE  VaultInv'
    <2>1. /\ Event /\ files' = [files EXCEPT ![p] = lines]
          /\ UNCHANGED <<format, store, pending, shown, held, current, last>>
      BY <1>4 DEF Edit
    <2>2. lines \in Seq(Lines) /\ TokensMasked(lines) /\ BelowBound(lines)
      BY VaultConstants
    <2>3. Kept'
      BY <2>1, <2>2, FileKeeps
    <2> QED
      BY <1>1, <2>1, <2>3, RequestStays, VaultParts
  <1>5. ASSUME NEW p \in SecretPaths, NEW q \in SecretPaths, Copy(p, q)
        PROVE  VaultInv'
    <2>1. UNCHANGED <<last, held>>
      BY <1>5 DEF Copy
    <2> QED
      BY <1>1, <1>5, <2>1, CopyKeeps, RequestStays, VaultParts
  <1>6. ASSUME clear \/ VaultRestart PROVE VaultInv'
    <2>1. UNCHANGED <<last, held>>
      BY <1>6 DEF clear, VaultRestart, Emptied
    <2> QED
      BY <1>1, <1>6, <2>1, EmptyKeeps, RequestStays, VaultParts
  <1>7. ASSUME NEW x \in held,
               Release(x) \/ \E urls \in SUBSET Addresses : Relay(x, urls)
        PROVE  VaultInv'
    BY <1>7, SentKeeps, VaultParts
  <1>8. CASE UNCHANGED vaultVars
    BY <1>8, VaultStutters
  <1> QED
    BY <1>2, <1>3, <1>4, <1>5, <1>6, <1>7, <1>8 DEF VaultNext

\* The store of secrets, the masked texts and the tokens keep their types, of any
\* number of files: above all a token that counts as made since the store was
\* emptied was handed out and has an entry.
THEOREM Vault_TypeCorrect == VaultSpec => []VaultTypeOK
  <1>1. VaultInit => VaultInv
    BY InitVault
  <1>2. VaultInv /\ [VaultNext]_vaultVars => VaultInv'
    BY VaultStep
  <1>3. VaultInv => VaultTypeOK
    BY DEF VaultInv
  <1> QED
    BY <1>1, <1>2, <1>3, PTL DEF VaultSpec

\* What a request is sent with, whichever files, formats and addresses there are:
\* a token made since the store was emptied is resolved if the request is relayed,
\* an older one never into another secret (SecretVault.SentIsMeant).
THEOREM Sent_IsMeant == VaultSpec => []SentIsMeant
  <1>1. VaultInit => VaultInv
    BY InitVault
  <1>2. VaultInv /\ [VaultNext]_vaultVars => VaultInv'
    BY VaultStep
  <1>3. VaultInv => SentIsMeant
    BY DEF VaultInv
  <1> QED
    BY <1>1, <1>2, <1>3, PTL DEF VaultSpec
=================================================================================
