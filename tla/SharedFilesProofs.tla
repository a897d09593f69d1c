--------------------------- MODULE SharedFilesProofs ---------------------------
(* Theorems about SharedFiles and ReviewLog for any number of servers,      *)
(* hooks, keys and saves, with their proofs.                                *)
EXTENDS SharedFiles, ReviewLog, TLAPS

-----------------------------------------------------------------------------
(* Sequences                                                                *)

(* The last n of a sequence that has more.                                  *)
LEMMA EndOfSeq ==
    ASSUME NEW S, NEW seq \in Seq(S), NEW n \in Nat, n < Len(seq)
    PROVE  /\ SubSeq(seq, Len(seq) - n + 1, Len(seq)) \in Seq(S)
           /\ Len(SubSeq(seq, Len(seq) - n + 1, Len(seq))) = n
           /\ \A i \in 1..n : SubSeq(seq, Len(seq) - n + 1, Len(seq))[i] = seq[Len(seq) - n + i]
OBVIOUS

LEMMA AppendInSeq ==
    ASSUME NEW S, NEW seq \in Seq(S), NEW e \in S
    PROVE  /\ Append(seq, e) \in Seq(S)
           /\ Len(Append(seq, e)) = Len(seq) + 1
           /\ Append(seq, e)[Len(seq) + 1] = e
           /\ \A i \in 1..Len(seq) : Append(seq, e)[i] = seq[i]
OBVIOUS

LEMMA SameSeq ==
    ASSUME NEW S, NEW a \in Seq(S), NEW b \in Seq(S), Len(a) = Len(b),
           \A i \in 1..Len(a) : a[i] = b[i]
    PROVE  a = b
OBVIOUS

LEMMA TrimmedIsTurns ==
    ASSUME StoreAssumption, NEW turns \in Turns
    PROVE  /\ Trimmed(turns) \in Turns
           /\ Len(Trimmed(turns)) <= MaxTurns
           /\ Len(turns) <= MaxTurns => Trimmed(turns) = turns
           /\ Len(turns) > MaxTurns =>
                  /\ Len(Trimmed(turns)) = MaxTurns
                  /\ \A i \in 1..MaxTurns : Trimmed(turns)[i] = turns[Len(turns) - MaxTurns + i]
BY EndOfSeq DEF StoreAssumption, Turns, Trimmed

(* To trim before a turn is appended, and again, is to trim once.           *)
LEMMA TrimmedTwice ==
    ASSUME StoreAssumption, NEW turns \in Turns, NEW turn1 \in Nat
    PROVE  Trimmed(Append(Trimmed(turns), turn1)) = Trimmed(Append(turns, turn1))
<1> DEFINE short == Trimmed(turns)
           ashort == Append(short, turn1)
           along == Append(turns, turn1)
<1>1. MaxTurns \in Nat \ {0} /\ Len(turns) \in Nat
      BY DEF StoreAssumption, Turns
<1>2. CASE Len(turns) <= MaxTurns
      BY <1>2, TrimmedIsTurns
<1>3. CASE Len(turns) > MaxTurns
  <2>1. /\ short \in Turns /\ Len(short) = MaxTurns
        /\ \A i \in 1..MaxTurns : short[i] = turns[Len(turns) - MaxTurns + i]
        BY <1>3, TrimmedIsTurns
  <2> HIDE DEF short
  <2>2. /\ ashort \in Turns /\ Len(ashort) = MaxTurns + 1
        /\ ashort[MaxTurns + 1] = turn1
        /\ \A i \in 1..MaxTurns : ashort[i] = short[i]
        BY <2>1, AppendInSeq DEF Turns
  <2>3. /\ along \in Turns /\ Len(along) = Len(turns) + 1
        /\ along[Len(turns) + 1] = turn1
        /\ \A i \in 1..Len(turns) : along[i] = turns[i]
        BY AppendInSeq DEF Turns
  <2> HIDE DEF ashort, along
  <2>4. /\ Trimmed(ashort) \in Turns /\ Len(Trimmed(ashort)) = MaxTurns
        /\ \A i \in 1..MaxTurns : Trimmed(ashort)[i] = ashort[i + 1]
        BY <1>1, <2>2, TrimmedIsTurns
  <2>5. /\ Trimmed(along) \in Turns /\ Len(Trimmed(along)) = MaxTurns
        /\ \A i \in 1..MaxTurns : Trimmed(along)[i] = along[Len(turns) + 1 - MaxTurns + i]
    <3>1. Len(along) > MaxTurns
          BY <1>1, <1>3, <2>3
    <3>2. /\ Trimmed(along) \in Turns /\ Len(Trimmed(along)) = MaxTurns
          /\ \A i \in 1..MaxTurns : Trimmed(along)[i] = along[Len(along) - MaxTurns + i]
          BY <2>3, <3>1, TrimmedIsTurns
    <3> QED
        BY <1>1, <2>3, <3>2
  <2>6. ASSUME NEW i \in 1..MaxTurns PROVE Trimmed(ashort)[i] = Trimmed(along)[i]
    <3>1. CASE i = MaxTurns
          BY <1>1, <2>2, <2>3, <2>4, <2>5, <3>1
    <3>2. CASE i < MaxTurns
      <4>1. i + 1 \in 1..MaxTurns /\ Len(turns) + 1 - MaxTurns + i \in 1..Len(turns)
            BY <1>1, <1>3, <3>2
      <4>2. Trimmed(ashort)[i] = turns[Len(turns) - MaxTurns + (i + 1)]
            BY <2>1, <2>2, <2>4, <4>1
      <4>3. Trimmed(along)[i] = turns[Len(turns) + 1 - MaxTurns + i]
            BY <2>3, <2>5, <4>1
      <4> QED
          BY <1>1, <4>2, <4>3
    <3> QED
        BY <1>1, <3>1, <3>2
  <2>7. Trimmed(ashort) = Trimmed(along)
        BY <2>4, <2>5, <2>6, SameSeq DEF Turns
  <2> QED
      BY <2>7 DEF ashort, along, short
<1> QED
    BY <1>1, <1>2, <1>3

-----------------------------------------------------------------------------
(* SharedFiles: types                                                       *)

LEMMA InitStoreTypeOK == StoreInit => StoreTypeOK
BY StoreAssumption DEF StoreInit, StoreTypeOK, Calls, Turns

LEMMA NextStoreTypeOK == StoreTypeOK /\ [StoreNext]_storeVars => StoreTypeOK'
<1> SUFFICES ASSUME StoreTypeOK, [StoreNext]_storeVars PROVE StoreTypeOK'
    OBVIOUS
<1> USE StoreAssumption
    DEF StoreTypeOK, Calls, ours, request, listing, lineages, history, Goes, Forgets
<1>1. CASE StoreTick
      BY <1>1 DEF StoreTick
<1>2. ASSUME NEW s \in Servers, Step(s) PROVE StoreTypeOK'
  <2>1. ASSUME NEW k \in Keys, BeginSave(s, k) PROVE StoreTypeOK'
        BY <2>1 DEF BeginSave, Begins, Turns
  <2>2. ASSUME NEW k \in Keys, BeginLoad(s, k) PROVE StoreTypeOK'
        BY <2>2 DEF BeginLoad, Begins, Turns
  <2>3. CASE Exists(s) \/ ReadFails(s)
        BY <2>3 DEF Exists, ReadFails
  <2>4. CASE Misses(s)
        BY <2>4 DEF Misses, Loads, Returns, Turns
  <2>5. CASE Read(s)
    <3>1. file[key[s]].turns \in Turns
          BY <2>5 DEF Read, Readable, File
    <3> QED
        BY <2>5, <3>1 DEF Read, Loads, Returns
  <2>6. CASE Discard(s)
    <3>1. disturbed' \in [Servers -> BOOLEAN] /\ file' \in [Keys -> File \cup {NoFile}]
          BY <2>6 DEF Discard, Returns, Settled, Disturbed, Works
    <3>2. got' \in [Servers -> Turns]
          BY <2>6 DEF Discard, Returns, Turns
    <3> QED
        BY <2>6, <3>1, <3>2 DEF Discard, Returns
  <2>7. CASE List(s)
        BY <2>7 DEF List, Present
  <2>8. ASSUME NEW k \in Keys, SweepStat(s, k) PROVE StoreTypeOK'
        BY <2>8 DEF SweepStat
  <2>9. ASSUME NEW k \in Keys, SweepUnlink(s, k) PROVE StoreTypeOK'
        BY <2>9 DEF SweepUnlink, Unlinks, Disturbed, Works
  <2>10. CASE SweepEnds(s)
         BY <2>10 DEF SweepEnds
  <2>11. CASE WriteTemp(s)
         BY <2>11 DEF WriteTemp
  <2>12. CASE Rename(s)
    <3>1. Record(s) \in Turns /\ key[s] \in Keys
          BY <2>12, TrimmedIsTurns, AppendInSeq DEF Rename, Record, Turns
    <3>2. [inode |-> turn[s], turns |-> Record(s), stamp |-> clock[s], mtime |-> clock[s],
           whole |-> TRUE] \in File
          BY <3>1 DEF File
    <3>3. (IF got[s] = <<>> THEN <<turn[s]>> ELSE Append(lineage[key[s]], turn[s])) \in Turns
          BY <3>1, AppendInSeq DEF Turns
    <3> QED
        BY <2>12, <3>1, <3>2, <3>3 DEF Rename, Replaces, Settled, Disturbed, Works
  <2>13. CASE Open(s)
    <3>1. key[s] \in Keys
          BY <2>13 DEF Open
    <3> DEFINE inode == IF file[key[s]] = NoFile THEN turn[s] ELSE file[key[s]].inode
    <3>2. inode \in Nat
          BY <3>1 DEF File
    <3>3. [inode |-> inode, turns |-> <<>>, stamp |-> now, mtime |-> now, whole |-> FALSE] \in File
          BY <3>2 DEF File, Turns
    <3>4. file' \in [Keys -> File \cup {NoFile}] /\ disturbed' \in [Servers -> BOOLEAN]
      <4> HIDE DEF inode
      <4>1. Replaces(s, key[s], [inode |-> inode, turns |-> <<>>, stamp |-> now, mtime |-> now,
                                 whole |-> FALSE])
            BY <2>13 DEF Open, inode
      <4> QED
          BY <3>1, <3>3, <4>1 DEF Replaces, Settled, Disturbed, Works
    <3>5. opened' = [opened EXCEPT ![s] = inode]
          BY <2>13 DEF Open
    <3>6. now \in Nat
          OBVIOUS
    <3> HIDE DEF inode
    <3> QED
        BY ONLY <2>13, <3>1, <3>2, <3>4, <3>5, <3>6, StoreTypeOK, s \in Servers DEF Open
  <2>14. CASE Fill(s)
    <3>1. key[s] \in Keys
          BY <2>14 DEF Fill
    <3>2. CASE UNCHANGED <<file, disturbed, written>>
          BY <2>14, <3>2 DEF Fill
    <3>3. CASE ~UNCHANGED <<file, disturbed, written>>
      <4>1. file[key[s]] \in File
            BY <2>14, <3>1, <3>3 DEF Fill
      <4> DEFINE filled == [file[key[s]] EXCEPT !.turns = <<turn[s]>>, !.stamp = clock[s],
                                                !.mtime = now, !.whole = TRUE]
                 mixed == [filled EXCEPT !.turns = @ \o file[key[s]].turns, !.whole = FALSE]
      <4>2. <<turn[s]>> \in Turns /\ clock[s] \in Nat /\ now \in Nat
            BY DEF Turns
      <4>3. filled \in File
            BY <4>1, <4>2 DEF File
      <4>4. <<turn[s]>> \o file[key[s]].turns \in Turns
            BY <4>1, <4>2 DEF File, Turns
      <4>5. mixed \in File
            BY <4>1, <4>3, <4>4 DEF File
      <4>6. PICK content \in {filled, mixed} : Replaces(s, key[s], content)
            BY <2>14, <3>3 DEF Fill
      <4> HIDE DEF filled, mixed
      <4>7. file' \in [Keys -> File \cup {NoFile}] /\ disturbed' \in [Servers -> BOOLEAN]
            BY <3>1, <4>3, <4>5, <4>6 DEF Replaces, Settled, Disturbed, Works
      <4>8. written' = [written EXCEPT ![key[s]] = @ \cup {<<turn[s]>>}]
            BY <2>14, <3>3 DEF Fill
      <4> QED
          BY <2>14, <3>1, <4>2, <4>7, <4>8 DEF Fill
    <3> QED
        BY <3>2, <3>3
  <2>15. CASE WriteFails(s)
         BY <2>15 DEF WriteFails
  <2>16. CASE Relist(s)
         BY <2>16 DEF Relist, Present
  <2>17. ASSUME NEW k \in Keys, Stat(s, k) PROVE StoreTypeOK'
    <3>1. file[k].mtime \in Nat
          BY <2>17 DEF Stat, File
    <3> QED
        BY <2>17, <3>1 DEF Stat
  <2>18. ASSUME NEW k \in Keys, StatThrows(s, k) PROVE StoreTypeOK'
         BY <2>18 DEF StatThrows, Ends, Turns
  <2>19. CASE Chooses(s)
    <3>1. \A p \in aged[s] : p[1] \in Keys
          OBVIOUS
    <3>2. \A v \in Oldest(aged[s]) : v \in SUBSET Keys
          BY <3>1 DEF Oldest
    <3> QED
        BY <2>19, <3>2 DEF Chooses
  <2>20. CASE Fits(s)
         BY <2>20 DEF Fits, Ends, Turns
  <2>21. ASSUME NEW k \in Keys, Evict(s, k) PROVE StoreTypeOK'
    <3>1. file' \in [Keys -> File \cup {NoFile}] /\ disturbed' \in [Servers -> BOOLEAN]
          BY <2>21 DEF Evict, Unlinks, Disturbed, Works
    <3>2. victims' \in [Servers -> SUBSET Keys]
          BY <2>21 DEF Evict
    <3>3. CASE Ends(s)
          BY <2>21, <3>1, <3>2, <3>3 DEF Evict, Ends, Turns
    <3>4. CASE UNCHANGED <<ours, now, at, request, got, opened, names, aged, lineages>>
          BY <2>21, <3>1, <3>2, <3>4 DEF Evict
    <3> QED
        BY <2>21, <3>3, <3>4 DEF Evict
  <2>22. CASE Crash(s)
         BY <2>22 DEF Crash, Turns
  <2> QED
      BY <1>2, <2>1, <2>2, <2>3, <2>4, <2>5, <2>6, <2>7, <2>8, <2>9, <2>10, <2>11, <2>12,
         <2>13, <2>14, <2>15, <2>16, <2>17, <2>18, <2>19, <2>20, <2>21, <2>22 DEF Step
<1>3. CASE UNCHANGED storeVars
      BY <1>3 DEF storeVars
<1> QED
    BY <1>1, <1>2, <1>3 DEF StoreNext

(* StoreTypeOK in every state: the names, inodes and turns the calls of     *)
(* sessions.ts and chunkCache.ts work with are what they take them for.     *)
THEOREM StoreTypeCorrect == StoreSpec => []StoreTypeOK
BY InitStoreTypeOK, NextStoreTypeOK, PTL DEF StoreSpec

-----------------------------------------------------------------------------
(* What a load returns                                                      *)

(* A file that parses is what one save wrote, and so is what was loaded.    *)
Wholeness ==
    /\ \A s \in Servers : got[s] # <<>> => key[s] \in Keys /\ got[s] \in written[key[s]]
    /\ \A k \in Keys : file[k] # NoFile /\ file[k].whole => file[k].turns \in written[k]

(* No save takes anything from what was written.                            *)
LEMMA WrittenGrows ==
    ASSUME StoreTypeOK, NEW k \in Keys, NEW turns \in Turns,
           written' = [written EXCEPT ![k] = @ \cup {turns}]
    PROVE  /\ \A j \in Keys : written[j] \subseteq written'[j]
           /\ turns \in written'[k]
BY DEF StoreTypeOK

LEMMA NextWholeness ==
    StoreTypeOK /\ Wholeness /\ [StoreNext]_storeVars => Wholeness'
<1> SUFFICES ASSUME StoreTypeOK, Wholeness, [StoreNext]_storeVars PROVE Wholeness'
    OBVIOUS
<1> USE DEF ours, request, listing, lineages, history
<1>1. CASE UNCHANGED <<file, written, got, key>>
      BY <1>1 DEF Wholeness
<1>2. ASSUME NEW s \in Servers, Step(s) PROVE Wholeness'
  <2>0. /\ at[s] # "idle" => key[s] \in Keys
        /\ written \in [Keys -> SUBSET Turns] /\ got \in [Servers -> Turns]
        /\ key \in [Servers -> Keys \cup {NoKey}] /\ file \in [Keys -> File \cup {NoFile}]
        /\ turn[s] \in Nat
        BY DEF StoreTypeOK
  <2> USE DEF Wholeness
  <2>1. ASSUME NEW k \in Keys, BeginSave(s, k) \/ BeginLoad(s, k) PROVE Wholeness'
        BY <2>0, <2>1 DEF BeginSave, BeginLoad, Begins
  <2>2. CASE Misses(s)
        BY <2>0, <2>2 DEF Misses, Loads, Returns
  <2>3. CASE Read(s)
        BY <2>0, <2>3 DEF Read, Readable, Loads, Returns
  <2>4. CASE Discard(s)
        BY <2>0, <2>4 DEF Discard, Returns
  <2>5. ASSUME NEW k \in Keys, Unlinks(s, k), UNCHANGED written,
               \/ UNCHANGED <<got, key>>
               \/ got' = [got EXCEPT ![s] = <<>>] /\ key' = [key EXCEPT ![s] = NoKey]
        PROVE  Wholeness'
        BY <2>0, <2>5 DEF Unlinks
  <2>6. ASSUME NEW k \in Keys, SweepUnlink(s, k) PROVE Wholeness'
        BY <2>5, <2>6 DEF SweepUnlink
  <2>7. CASE Rename(s)
    <3>1. Record(s) \in Turns /\ key[s] \in Keys
          BY <2>0, <2>7, TrimmedIsTurns, AppendInSeq, StoreAssumption DEF Rename, Record, Turns
    <3>2. /\ \A j \in Keys : written[j] \subseteq written'[j]
          /\ Record(s) \in written'[key[s]]
          BY <2>7, <3>1, WrittenGrows DEF Rename
    <3>3. PICK time : file' = [file EXCEPT ![key[s]] =
                          [inode |-> turn[s], turns |-> Record(s), stamp |-> time,
                           mtime |-> time, whole |-> TRUE]]
          BY <2>7 DEF Rename, Replaces
    <3>4. UNCHANGED <<got, key>>
          BY <2>7 DEF Rename
    <3>5. \A g \in Servers : got'[g] # <<>> => key'[g] \in Keys /\ got'[g] \in written'[key'[g]]
          BY <3>2, <3>4
    <3>6. \A k \in Keys : file'[k] # NoFile /\ file'[k].whole => file'[k].turns \in written'[k]
          BY <2>0, <3>1, <3>2, <3>3
    <3> QED
        BY <3>5, <3>6
  <2>8. CASE Open(s)
    <3>1. key[s] \in Keys /\ UNCHANGED <<got, key, written>>
          BY <2>0, <2>8 DEF Open
    <3>2. PICK inode, time : file' = [file EXCEPT ![key[s]] =
                                 [inode |-> inode, turns |-> <<>>, stamp |-> time,
                                  mtime |-> time, whole |-> FALSE]]
          BY <2>8 DEF Open, Replaces
    <3> QED
        BY <2>0, <3>1, <3>2
  <2>9. CASE Fill(s)
    <3>1. key[s] \in Keys /\ UNCHANGED <<got, key>>
          BY <2>0, <2>9 DEF Fill
    <3>2. CASE UNCHANGED <<file, disturbed, written>>
          BY <1>1, <3>1, <3>2
    <3>3. CASE ~UNCHANGED <<file, disturbed, written>>
      <4>1. <<turn[s]>> \in Turns /\ file[key[s]] \in File
            BY <2>0, <2>9, <3>1, <3>3 DEF Fill, Turns
      <4>2. /\ \A j \in Keys : written[j] \subseteq written'[j]
            /\ <<turn[s]>> \in written'[key[s]]
            BY <2>9, <3>1, <3>3, <4>1, WrittenGrows DEF Fill
      <4> DEFINE filled == [file[key[s]] EXCEPT !.turns = <<turn[s]>>, !.stamp = clock[s],
                                                !.mtime = now, !.whole = TRUE]
                 mixed == [filled EXCEPT !.turns = @ \o file[key[s]].turns, !.whole = FALSE]
      <4>a. filled.turns = <<turn[s]>> /\ ~mixed.whole
            BY <4>1 DEF File
      <4>b. PICK f \in {filled, mixed} : file' = [file EXCEPT ![key[s]] = f]
            BY <2>9, <3>3 DEF Fill, Replaces
      <4>3. f.whole => f.turns = <<turn[s]>>
            BY <4>a, <4>b
      <4> HIDE DEF filled, mixed
      <4>4. \A g \in Servers : got'[g] # <<>> => key'[g] \in Keys /\ got'[g] \in written'[key'[g]]
            BY <3>1, <4>2
      <4>5. \A k \in Keys : file'[k] # NoFile /\ file'[k].whole => file'[k].turns \in written'[k]
            BY <2>0, <3>1, <4>2, <4>3, <4>b
      <4> QED
          BY <4>4, <4>5
    <3> QED
        BY <3>2, <3>3
  <2>10. ASSUME NEW k \in Keys, StatThrows(s, k) \/ Fits(s) PROVE Wholeness'
         BY <2>0, <2>10 DEF StatThrows, Fits, Ends
  <2>11. ASSUME NEW k \in Keys, Evict(s, k) PROVE Wholeness'
         BY <2>5, <2>11 DEF Evict, Ends
  <2>12. CASE Crash(s)
         BY <2>0, <2>12 DEF Crash
  <2>13. CASE Fits(s)
         BY <2>0, <2>13 DEF Fits, Ends
  <2>14. ASSUME \/ Exists(s) \/ ReadFails(s) \/ List(s) \/ SweepEnds(s) \/ WriteTemp(s)
                \/ WriteFails(s) \/ Relist(s) \/ Chooses(s)
                \/ \E k \in Keys : SweepStat(s, k) \/ Stat(s, k)
         PROVE  Wholeness'
         BY <1>1, <2>14 DEF Exists, ReadFails, List, SweepEnds, WriteTemp, WriteFails, Relist,
            Chooses, SweepStat, Stat
  <2> QED
      BY <1>2, <2>1, <2>2, <2>3, <2>4, <2>6, <2>7, <2>8, <2>9, <2>10, <2>11, <2>12, <2>13,
         <2>14 DEF Step
<1> QED
    BY <1>1, <1>2 DEF StoreNext, StoreTick, storeVars

(* LoadsAreWhole for any number of servers and saves: a load in sessions.ts *)
(* or chunkCache.ts never returns a torn or a mixed file.                   *)
THEOREM NoLoadIsTorn == StoreSpec => []LoadsAreWhole
<1>1. StoreInit => Wholeness
      BY DEF StoreInit, Wholeness
<1>2. Wholeness => LoadsAreWhole
      BY DEF Wholeness, LoadsAreWhole
<1> QED
    BY <1>1, <1>2, InitStoreTypeOK, NextStoreTypeOK, NextWholeness, PTL DEF StoreSpec

-----------------------------------------------------------------------------
(* What a session keeps                                                     *)

Saving == {"list", "sweep", "expire", "write", "rename"}

(* Who has loaded a session and is not disturbed has all of its turns: what *)
(* it goes on to rename is the session and one turn.                        *)
Lineage ==
    store = "sessions" =>
        /\ \A s \in Servers : at[s] \notin {"open", "fill"}
        /\ \A k \in Keys \ overlaid :
               file[k] # NoFile => file[k].turns = Trimmed(lineage[k])
        /\ \A s \in Servers, k \in Keys \ overlaid :
               at[s] \in Saving /\ key[s] = k /\ ~disturbed[s] /\ got[s] # <<>>
                   => got[s] = Trimmed(lineage[k])

LEMMA RenameKeepsLineage ==
    ASSUME StoreTypeOK, Lineage, NEW s \in Servers, Rename(s)
    PROVE  Lineage'
<1>0. /\ key[s] \in Keys /\ at[s] = "rename" /\ turn[s] \in Nat
      /\ got[s] \in Turns /\ lineage[key[s]] \in Turns
      /\ file \in [Keys -> File \cup {NoFile}] /\ lineage \in [Keys -> Turns]
      /\ at \in [Servers -> Calls] /\ disturbed \in [Servers -> BOOLEAN]
      BY DEF StoreTypeOK, Rename, Calls
<1> DEFINE k0 == key[s]
           fresh == got[s] = <<>>
<1>1. /\ UNCHANGED <<store, key, got>>
      /\ at' = [at EXCEPT ![s] = "relist"]
      /\ lineage' = [lineage EXCEPT ![k0] = IF fresh THEN <<turn[s]>> ELSE Append(@, turn[s])]
      /\ overlaid' = IF disturbed[s] THEN overlaid \cup {k0}
                     ELSE IF fresh THEN overlaid \ {k0} ELSE overlaid
      /\ disturbed' = Settled(s, k0)
      BY DEF Rename, Goes, Replaces, ours, request
<1>2. PICK time : file' = [file EXCEPT ![k0] =
                     [inode |-> turn[s], turns |-> Record(s), stamp |-> time, mtime |-> time,
                      whole |-> TRUE]]
      BY DEF Rename, Replaces
<1> SUFFICES ASSUME store = "sessions"
             PROVE  /\ \A t \in Servers : at'[t] \notin {"open", "fill"}
                    /\ \A k \in Keys \ overlaid' :
                           file'[k] # NoFile => file'[k].turns = Trimmed(lineage'[k])
                    /\ \A t \in Servers, k \in Keys \ overlaid' :
                           at'[t] \in Saving /\ key'[t] = k /\ ~disturbed'[t] /\ got'[t] # <<>>
                               => got'[t] = Trimmed(lineage'[k])
    BY <1>1 DEF Lineage, Trimmed
<1>3. \A t \in Servers : at'[t] \notin {"open", "fill"}
      BY <1>0, <1>1 DEF Lineage
<1>4. k0 \notin overlaid' => Record(s) = Trimmed(lineage'[k0])
  <2>1. CASE fresh
    <3>1. Append(<<>>, turn[s]) = <<turn[s]>>
          BY <1>0
    <3> QED
        BY <1>0, <1>1, <2>1, <3>1 DEF Record
  <2>2. CASE ~fresh /\ k0 \notin overlaid'
    <3>1. ~disturbed[s] /\ k0 \notin overlaid
          BY <1>1, <2>2
    <3>2. got[s] = Trimmed(lineage[k0])
          BY <1>0, <2>2, <3>1 DEF Lineage, Saving
    <3>3. Record(s) = Trimmed(Append(lineage[k0], turn[s]))
          BY <1>0, <3>2, StoreAssumption, TrimmedTwice DEF Record
    <3> QED
        BY <1>0, <1>1, <2>2, <3>3
  <2> QED
      BY <2>1, <2>2
<1>5. ASSUME NEW k \in Keys \ overlaid', file'[k] # NoFile
      PROVE  file'[k].turns = Trimmed(lineage'[k])
  <2>1. CASE k = k0
        BY <1>0, <1>2, <1>4, <1>5, <2>1
  <2>2. CASE k # k0
    <3>1. k \notin overlaid /\ file'[k] = file[k] /\ lineage'[k] = lineage[k]
          BY <1>0, <1>1, <1>2, <1>5, <2>2
    <3> QED
        BY <1>5, <3>1 DEF Lineage
  <2> QED
      BY <2>1, <2>2
<1>6. ASSUME NEW t \in Servers, NEW k \in Keys \ overlaid',
             at'[t] \in Saving /\ key'[t] = k /\ ~disturbed'[t] /\ got'[t] # <<>>
      PROVE  got'[t] = Trimmed(lineage'[k])
  <2>1. t # s
        BY <1>0, <1>1, <1>6 DEF Saving
  <2>2. at[t] \in Saving /\ key[t] = k /\ got[t] # <<>>
        BY <1>0, <1>1, <1>6, <2>1
  <2>3. ~disturbed[t] /\ ~Works(t, k0)
        BY <1>0, <1>1, <1>6, <2>1 DEF Settled, Disturbed
  <2>4. k # k0
        BY <2>2, <2>3 DEF Works, Saving
  <2>5. k \notin overlaid /\ lineage'[k] = lineage[k]
        BY <1>0, <1>1, <1>6, <2>4
  <2> QED
      BY <1>1, <2>2, <2>3, <2>5 DEF Lineage
<1> QED
    BY <1>3, <1>5, <1>6 DEF Trimmed

LEMMA NextLineage ==
    StoreTypeOK /\ Lineage /\ [StoreNext]_storeVars => Lineage'
<1> SUFFICES ASSUME StoreTypeOK, Lineage, [StoreNext]_storeVars PROVE Lineage'
    OBVIOUS
<1>0. /\ key \in [Servers -> Keys \cup {NoKey}] /\ file \in [Keys -> File \cup {NoFile}]
      /\ at \in [Servers -> Calls] /\ disturbed \in [Servers -> BOOLEAN]
      /\ got \in [Servers -> Turns]
      BY DEF StoreTypeOK
<1> USE DEF ours, request, listing, lineages, history, Goes
<1>1. CASE UNCHANGED <<store, file, at, key, got, lineage, overlaid, disturbed>>
      BY <1>1 DEF Lineage, Trimmed
<1>2. ASSUME NEW s \in Servers, Step(s) PROVE Lineage'
  (* A step of s that takes it out of a save.                               *)
  <2>1. ASSUME UNCHANGED <<store, lineage, overlaid>>,
               \A k \in Keys : file'[k] \in {file[k], NoFile},
               \A t \in Servers : disturbed[t] => t = s \/ disturbed'[t],
               \A t \in Servers \ {s} : at'[t] = at[t] /\ key'[t] = key[t] /\ got'[t] = got[t],
               at'[s] \notin Saving \cup {"open", "fill"}
        PROVE  Lineage'
        BY <2>1 DEF Lineage, Trimmed
  (* A step of s that goes on with a save.                                  *)
  <2>2. ASSUME UNCHANGED <<store, lineage, overlaid, key, got>>,
               \A k \in Keys : file'[k] \in {file[k], NoFile},
               \A t \in Servers : disturbed[t] => disturbed'[t],
               \A t \in Servers \ {s} : at'[t] = at[t],
               at[s] \in Saving,
               store = "sessions" => at'[s] \notin {"open", "fill"}
        PROVE  Lineage'
        BY <2>2 DEF Lineage, Trimmed
  <2>3. ASSUME NEW k \in Keys, BeginSave(s, k) PROVE Lineage'
    <3>1. CASE store = "sessions"
          BY <1>0, <2>1, <2>3, <3>1 DEF BeginSave, Begins, Saving
    <3>2. CASE store # "sessions"
          BY <2>3, <3>2 DEF BeginSave, Begins, Lineage
    <3> QED
        BY <3>1, <3>2
  <2>4. ASSUME NEW k \in Keys, BeginLoad(s, k) PROVE Lineage'
        BY <1>0, <2>1, <2>4 DEF BeginLoad, Begins, Saving
  <2>5. CASE Exists(s) \/ ReadFails(s) \/ WriteFails(s) \/ Relist(s)
        BY <1>0, <2>1, <2>5 DEF Exists, ReadFails, WriteFails, Relist, Saving
  <2>6. CASE Misses(s)
        BY <1>0, <2>6 DEF Misses, Loads, Returns, Lineage, Trimmed
  <2>7. CASE Read(s)
    <3>1. /\ UNCHANGED <<store, file, key, lineage, overlaid>>
          /\ key[s] \in Keys /\ file[key[s]] # NoFile
          /\ got' = [got EXCEPT ![s] = file[key[s]].turns]
          /\ at'[s] \notin {"open", "fill"}
          /\ \A t \in Servers \ {s} : at'[t] = at[t] /\ disturbed'[t] = disturbed[t]
          BY <1>0, <2>7 DEF Read, Readable, Loads, Returns, StoreTypeOK
    <3>2. \A t \in Servers \ {s} : got'[t] = got[t]
          BY <1>0, <3>1
    <3>3. got'[s] = file[key[s]].turns
          BY <1>0, <3>1
    <3> QED
        BY ONLY <3>1, <3>2, <3>3, Lineage, s \in Servers DEF Lineage, Trimmed
  <2>8. CASE Discard(s)
    <3>1. /\ UNCHANGED <<store, key, lineage, overlaid>>
          /\ got'[s] = <<>> /\ at'[s] \notin {"open", "fill"}
          /\ \A k \in Keys : file'[k] \in {file[k], NoFile}
          /\ \A t \in Servers \ {s} : at'[t] = at[t] /\ got'[t] = got[t]
          BY <1>0, <2>8 DEF Discard, Returns
    <3>2. \A t \in Servers \ {s} : disturbed[t] => disturbed'[t]
          BY <1>0, <2>8 DEF Discard, Settled, Disturbed
    <3> QED
        BY <3>1, <3>2 DEF Lineage, Trimmed
  <2>9. CASE List(s)
        BY <1>0, <2>2, <2>9 DEF List, Saving
  <2>10. ASSUME NEW k \in Keys, SweepStat(s, k) PROVE Lineage'
         BY <1>0, <2>2, <2>10 DEF SweepStat, Saving
  <2>11. ASSUME NEW k \in Keys, SweepUnlink(s, k) PROVE Lineage'
         BY <1>0, <2>2, <2>11 DEF SweepUnlink, Unlinks, Disturbed, Saving
  <2>12. CASE SweepEnds(s)
         BY <1>0, <2>2, <2>12 DEF SweepEnds, Saving
  <2>13. CASE WriteTemp(s)
         BY <1>0, <2>2, <2>13 DEF WriteTemp, Saving
  <2>14. CASE Rename(s)
         BY <2>14, RenameKeepsLineage
  <2>15. CASE Open(s) \/ Fill(s)
    <3>1. store # "sessions" /\ UNCHANGED store
          BY <2>15 DEF Open, Fill, Lineage
    <3> QED
        BY <3>1 DEF Lineage
  <2>16. ASSUME NEW k \in Keys, Stat(s, k) \/ StatThrows(s, k) \/ Fits(s) \/ Chooses(s)
         PROVE  Lineage'
         BY <1>0, <2>1, <2>16 DEF Stat, StatThrows, Fits, Chooses, Ends, Saving
  <2>17. CASE Fits(s) \/ Chooses(s)
         BY <1>0, <2>1, <2>17 DEF Fits, Chooses, Ends, Saving
  <2>18. ASSUME NEW k \in Keys, Evict(s, k) PROVE Lineage'
         BY <1>0, <2>1, <2>18 DEF Evict, Unlinks, Disturbed, Ends, Saving
  <2>19. CASE Crash(s)
         BY <1>0, <2>1, <2>19 DEF Crash, Saving
  <2> QED
      BY <1>2, <2>3, <2>4, <2>5, <2>6, <2>7, <2>8, <2>9, <2>10, <2>11, <2>12, <2>13, <2>14,
         <2>15, <2>16, <2>17, <2>18, <2>19 DEF Step
<1> QED
    BY <1>1, <1>2 DEF StoreNext, StoreTick, storeVars

(* TurnsAreKept for any number of servers, saves and turns: only a server   *)
(* whose session changed between its load and its save can take a turn from *)
(* a session, or bring one back.                                            *)
THEOREM SessionsKeepTheirTurns == StoreSpec => []TurnsAreKept
<1>1. StoreInit => Lineage
      BY DEF StoreInit, Lineage
<1>2. Lineage => TurnsAreKept
      BY DEF Lineage, TurnsAreKept
<1> QED
    BY <1>1, <1>2, InitStoreTypeOK, NextStoreTypeOK, NextLineage, PTL DEF StoreSpec

-----------------------------------------------------------------------------
(* ReviewLog: types                                                         *)

LEMMA ClampedIsNat ==
    ASSUME NEW r \in Reasons, NEW bytes \in clampReason(r)
    PROVE  EntryBytes + bytes \in Nat
<1>1. /\ r.bytes \in Nat /\ r.starts \subseteq Nat
      /\ SuffixBytes \in Nat /\ EntryBytes \in Nat
      BY LogAssumption DEF ReasonsAreText
<1> QED
    BY <1>1 DEF clampReason, CutsOf

LEMMA ReplaceInSeq ==
    ASSUME NEW S, NEW seq \in Seq(S), NEW n \in 1..Len(seq), NEW e \in S
    PROVE  /\ [seq EXCEPT ![n] = e] \in Seq(S)
           /\ Len([seq EXCEPT ![n] = e]) = Len(seq)
           /\ [seq EXCEPT ![n] = e][n] = e
           /\ \A i \in 1..Len(seq) : i # n => [seq EXCEPT ![n] = e][i] = seq[i]
OBVIOUS

LEMMA TailIsLines ==
    ASSUME NEW lines \in Lines, ~IsShort(lines)
    PROVE  /\ TailOf(lines) \in Lines
           /\ Len(TailOf(lines)) = MaxLogEntries
           /\ \A i \in 1..MaxLogEntries :
                  TailOf(lines)[i] = lines[Len(lines) - MaxLogEntries + i]
BY EndOfSeq, LogAssumption DEF Lines, IsShort, TailOf

LEMMA OneInSeq ==
    ASSUME NEW S, NEW e \in S
    PROVE  <<e>> \in Seq(S) /\ Len(<<e>>) = 1 /\ <<e>>[1] = e /\ <<e>> # <<>>
OBVIOUS

LEMMA InitLogTypeOK == LogInit => LogTypeOK
<1> SUFFICES ASSUME LogInit PROVE LogTypeOK
    OBVIOUS
<1>1. <<>> \in Lines
      BY DEF Lines
<1>2. nodes \in Seq(Lines) \ {<<>>}
      BY <1>1, OneInSeq DEF LogInit
<1> QED
    BY <1>1, <1>2 DEF LogInit, LogTypeOK

LEMMA LogIsLines ==
    ASSUME LogTypeOK
    PROVE  /\ Len(nodes) \in Nat \ {0} /\ Log \in Lines
           /\ \A n \in 1..Len(nodes) : nodes[n] \in Lines
BY DEF LogTypeOK, Log

(* What a write does to the files.                                          *)
LEMMA WriteExtends ==
    ASSUME LogTypeOK, NEW h \in Hooks, WriteLog(h)
    PROVE  /\ node[h] \in 1..Len(nodes) /\ Len(nodes') = Len(nodes)
           /\ nodes' \in Seq(Lines) \ {<<>>}
           /\ \A n \in 1..Len(nodes) : n # node[h] => nodes'[n] = nodes[n]
           /\ Len(nodes'[node[h]]) = Len(nodes[node[h]]) + 1
           /\ nodes'[node[h]][Len(nodes[node[h]]) + 1].id = count + 1
           /\ \A i \in 1..Len(nodes[node[h]]) : nodes'[node[h]][i] = nodes[node[h]][i]
<1> DEFINE n0 == node[h]
           line == [id |-> count + 1, bytes |-> entry[h]]
<1>1. n0 \in 1..Len(nodes) /\ nodes \in Seq(Lines) /\ nodes[n0] \in Seq(Line)
      BY LogIsLines DEF LogTypeOK, WriteLog, Lines
<1>2. line \in Line /\ line.id = count + 1
      BY DEF LogTypeOK, Line
<1>3. nodes' = [nodes EXCEPT ![n0] = Append(nodes[n0], line)]
      BY DEF WriteLog
<1> HIDE DEF n0, line
<1>4. /\ Append(nodes[n0], line) \in Lines
      /\ Len(Append(nodes[n0], line)) = Len(nodes[n0]) + 1
      /\ Append(nodes[n0], line)[Len(nodes[n0]) + 1] = line
      /\ \A i \in 1..Len(nodes[n0]) : Append(nodes[n0], line)[i] = nodes[n0][i]
      BY <1>1, <1>2, AppendInSeq DEF Lines
<1>5. /\ nodes' \in Seq(Lines) /\ Len(nodes') = Len(nodes)
      /\ nodes'[n0] = Append(nodes[n0], line)
      /\ \A n \in 1..Len(nodes) : n # n0 => nodes'[n] = nodes[n]
      BY <1>1, <1>3, <1>4, ReplaceInSeq
<1>6. nodes' # <<>>
      BY <1>1, <1>5
<1> QED
    BY <1>1, <1>2, <1>4, <1>5, <1>6 DEF n0

(* What a rename does to the files.                                         *)
LEMMA RenameExtends ==
    ASSUME LogTypeOK, NEW h \in Hooks, RenameLog(h)
    PROVE  /\ Len(nodes') = Len(nodes) + 1 /\ nodes' \in Seq(Lines) \ {<<>>}
           /\ Log' = tail[h] /\ tail[h] \in Lines
           /\ \A n \in 1..Len(nodes) : nodes'[n] = nodes[n]
<1>1. nodes \in Seq(Lines) /\ tail[h] \in Lines /\ nodes' = Append(nodes, tail[h])
      BY DEF LogTypeOK, RenameLog
<1>2. /\ nodes' \in Seq(Lines) /\ Len(nodes') = Len(nodes) + 1
      /\ nodes'[Len(nodes) + 1] = tail[h]
      /\ \A n \in 1..Len(nodes) : nodes'[n] = nodes[n]
      BY <1>1, AppendInSeq
<1>3. nodes' # <<>>
      BY <1>1, <1>2
<1> QED
    BY <1>1, <1>2, <1>3 DEF Log

LEMMA NextLogTypeOK == LogTypeOK /\ [LogNext]_logVars => LogTypeOK'
<1> SUFFICES ASSUME LogTypeOK, [LogNext]_logVars PROVE LogTypeOK'
    OBVIOUS
<1> USE DEF LogTypeOK, Proceeds
<1>1. ASSUME NEW h \in Hooks, LogStep(h) PROVE LogTypeOK'
  <2>1. CASE BeginAppend(h)
    <3>1. PICK bytes : EntryBytes + bytes \in Nat /\ entry' = [entry EXCEPT ![h] = EntryBytes + bytes]
          BY <2>1, ClampedIsNat DEF BeginAppend
    <3> QED
        BY <2>1, <3>1 DEF BeginAppend
  <2>2. CASE OpenLog(h) \/ ReopenLog(h)
    <3>1. Len(nodes) \in 1..Len(nodes) /\ Len(nodes) \in Nat
          BY LogIsLines
    <3> QED
        BY <2>2, <3>1 DEF OpenLog, ReopenLog
  <2>3. CASE WriteLog(h)
    <3>1. nodes' \in Seq(Lines) \ {<<>>} /\ Len(nodes') = Len(nodes)
          BY <2>3, WriteExtends
    <3>2. /\ count' \in Nat /\ entry' \in [Hooks -> Nat] /\ overlapped' \subseteq Nat
          /\ node' = [node EXCEPT ![h] = 0] /\ pc' = [pc EXCEPT ![h] = "stat"]
          /\ UNCHANGED <<tail, unrotated>>
          BY <2>3 DEF WriteLog
    <3> QED
        BY <3>1, <3>2
  <2>4. CASE StatLog(h)
        BY <2>4 DEF StatLog
  <2>5. CASE ReadLog(h)
    <3>1. nodes[node[h]] \in Lines
          BY <2>5, LogIsLines DEF ReadLog
    <3>2. tail' \in [Hooks -> Lines]
          BY <2>5, <3>1, TailIsLines DEF ReadLog
    <3>3. \/ pc' = [pc EXCEPT ![h] = "idle"]
          \/ pc' = [pc EXCEPT ![h] = "rename"]
          BY <2>5 DEF ReadLog
    <3> QED
        BY <2>5, <3>2, <3>3 DEF ReadLog
  <2>6. CASE RenameLog(h)
    <3>1. nodes' \in Seq(Lines) \ {<<>>} /\ Len(nodes') = Len(nodes) + 1
          BY <2>6, RenameExtends
    <3>2. \A n \in 1..Len(nodes) : n \in 1..Len(nodes')
          BY <3>1, LogIsLines
    <3>3. /\ tail' \in [Hooks -> Lines] /\ unrotated' = FALSE
          /\ pc' = [pc EXCEPT ![h] = "idle"] /\ UNCHANGED <<count, entry, node, overlapped>>
          BY <2>6 DEF RenameLog, Lines
    <3> QED
        BY <3>1, <3>2, <3>3
  <2>7. CASE StopLogging(h)
        BY <2>7 DEF StopLogging, Lines
  <2> QED
      BY <1>1, <2>1, <2>2, <2>3, <2>4, <2>5, <2>6, <2>7 DEF LogStep
<1>2. CASE UNCHANGED logVars
      BY <1>2 DEF logVars
<1> QED
    BY <1>1, <1>2 DEF LogNext

(* LogTypeOK in every state: a hook writes to and reads from a file that    *)
(* has had the name of the log.                                             *)
THEOREM LogTypeCorrect == LogSpec => []LogTypeOK
BY InitLogTypeOK, NextLogTypeOK, PTL DEF LogSpec

-----------------------------------------------------------------------------
(* The log is bounded                                                       *)

(* Whoever finds the log too long is still at it; one that reads a file     *)
(* that has lost the name does not count, as it may find that short enough. *)
Watched ==
    \/ IsSmall(Log)
    \/ IsShort(Log)
    \/ unrotated
    \/ \E h \in Hooks :
           \/ pc[h] \in {"stat", "reopen", "rename"}
           \/ pc[h] = "read" /\ node[h] = Len(nodes)

TailsAreShort == \A h \in Hooks : pc[h] = "rename" => IsShort(tail[h])

LEMMA NextTailsAreShort ==
    LogTypeOK /\ TailsAreShort /\ [LogNext]_logVars => TailsAreShort'
<1> SUFFICES ASSUME LogTypeOK, TailsAreShort, [LogNext]_logVars PROVE TailsAreShort'
    OBVIOUS
<1>0. pc \in [Hooks -> {"idle", "open", "write", "stat", "reopen", "read", "rename"}]
      /\ tail \in [Hooks -> Lines]
      BY DEF LogTypeOK
<1> USE DEF TailsAreShort, Proceeds, IsShort
<1>1. ASSUME NEW h \in Hooks, ReadLog(h) PROVE TailsAreShort'
  <2>1. nodes[node[h]] \in Lines
        BY <1>1, LogIsLines DEF ReadLog, LogTypeOK
  <2>2. ~IsShort(nodes[node[h]]) => Len(TailOf(nodes[node[h]])) <= MaxLogEntries
        BY <2>1, TailIsLines, LogAssumption
  <2> QED
      BY <1>0, <1>1, <2>2 DEF ReadLog
<1>2. ASSUME NEW h \in Hooks, LogStep(h), ~ReadLog(h) PROVE TailsAreShort'
      BY <1>0, <1>2 DEF LogStep, BeginAppend, OpenLog, WriteLog, StatLog, ReopenLog, RenameLog,
         StopLogging
<1>3. CASE UNCHANGED logVars
      BY <1>3 DEF logVars
<1> QED
    BY <1>1, <1>2, <1>3 DEF LogNext

LEMMA NextWatched ==
    LogTypeOK /\ TailsAreShort /\ Watched /\ [LogNext]_logVars => Watched'
<1> SUFFICES ASSUME LogTypeOK, TailsAreShort, Watched, [LogNext]_logVars PROVE Watched'
    OBVIOUS
<1>0. /\ pc \in [Hooks -> {"idle", "open", "write", "stat", "reopen", "read", "rename"}]
      /\ node \in [Hooks -> Nat]
      BY DEF LogTypeOK
<1> USE DEF Proceeds
<1>1. ASSUME NEW h \in Hooks, LogStep(h) PROVE Watched'
  <2>1. ASSUME UNCHANGED <<nodes, unrotated>>,
               \A g \in Hooks \ {h} : pc'[g] = pc[g] /\ node'[g] = node[g],
               \/ pc[h] \notin {"stat", "reopen", "rename", "read"}
               \/ pc'[h] \in {"reopen", "rename"}
               \/ pc'[h] = "read" /\ node'[h] = Len(nodes)
               \/ pc[h] = "read" /\ node[h] # Len(nodes)
               \/ IsSmall(Log) \/ IsShort(Log)
        PROVE  Watched'
    <3>1. Log' = Log /\ (IsSmall(Log))' = IsSmall(Log) /\ (IsShort(Log))' = IsShort(Log)
          BY <2>1 DEF Log, IsSmall, IsShort, SizeOf
    <3> QED
        BY <2>1, <3>1 DEF Watched
  <2>2. CASE BeginAppend(h)
        BY <1>0, <2>1, <2>2 DEF BeginAppend
  <2>3. CASE OpenLog(h)
        BY <1>0, <2>1, <2>3 DEF OpenLog
  <2>4. CASE WriteLog(h)
        BY <1>0, <2>4 DEF WriteLog, Watched
  <2>5. CASE StatLog(h)
        BY <1>0, <2>1, <2>5 DEF StatLog
  <2>6. CASE ReopenLog(h)
        BY <1>0, <2>1, <2>6 DEF ReopenLog
  <2>7. CASE ReadLog(h)
        BY <1>0, <2>1, <2>7 DEF ReadLog, Log
  <2>8. CASE RenameLog(h)
    <3>1. Log' = tail[h] /\ IsShort(tail[h])
          BY <2>8, RenameExtends DEF RenameLog, TailsAreShort
    <3> QED
        BY <3>1 DEF Watched, IsShort
  <2>9. CASE StopLogging(h)
    <3>1. CASE pc[h] \in {"stat", "reopen", "read", "rename"}
          BY <2>9, <3>1 DEF StopLogging, Watched
    <3>2. CASE pc[h] \notin {"stat", "reopen", "read", "rename"}
      <4>1. UNCHANGED <<nodes, unrotated>>
            BY <2>9, <3>2 DEF StopLogging, LogTypeOK
      <4> QED
          BY <1>0, <2>1, <2>9, <3>2, <4>1 DEF StopLogging
    <3> QED
        BY <3>1, <3>2
  <2> QED
      BY <1>1, <2>2, <2>3, <2>4, <2>5, <2>6, <2>7, <2>8, <2>9 DEF LogStep
<1>2. CASE UNCHANGED logVars
      BY <1>2 DEF logVars, Watched, Log, IsSmall, IsShort, SizeOf
<1> QED
    BY <1>1, <1>2 DEF LogNext

(* QuietLogIsBounded for any number of hooks and any limits: rotations that *)
(* cross never leave the log longer than one rotation alone would.          *)
THEOREM LogStaysBounded == LogSpec => []QuietLogIsBounded
<1>1. LogInit => TailsAreShort /\ Watched
  <2> SUFFICES ASSUME LogInit PROVE TailsAreShort /\ Watched
      OBVIOUS
  <2>1. Log = <<>> /\ IsShort(<<>>)
        BY LogAssumption DEF LogInit, Log, IsShort
  <2> QED
      BY <2>1 DEF LogInit, TailsAreShort, Watched
<1>2. Watched => QuietLogIsBounded
      BY DEF Watched, QuietLogIsBounded
<1> QED
    BY <1>1, <1>2, InitLogTypeOK, NextLogTypeOK, NextTailsAreShort, NextWatched, PTL DEF LogSpec

-----------------------------------------------------------------------------
(* What the log keeps                                                       *)

(* Ids that grow by one at least from line to line.                         *)
IsOrdered(lines, last) ==
    /\ \A i \in 1..Len(lines) : lines[i].id \in 1..last
    /\ \A i, j \in 1..Len(lines) : i <= j => lines[j].id - lines[i].id >= j - i

Excused(id, last, lost) == id \in lost \/ last - id >= MaxLogEntries
Has(lines, id) == \E i \in 1..Len(lines) : lines[i].id = id
IsComplete(lines, last, lost) ==
    \A id \in 1..last : Has(lines, id) \/ Excused(id, last, lost)

(* A hook that has lines to replace the log by, or is about to read them,   *)
(* has all of the log but what it will excuse.                              *)
LogIsSound ==
    /\ \A n \in 1..Len(nodes) : IsOrdered(nodes[n], count)
    /\ IsComplete(nodes[Len(nodes)], count, overlapped)
    /\ \A h \in Hooks : pc[h] = "read" => IsComplete(nodes[node[h]], count, overlapped)
    /\ \A h \in Hooks : pc[h] = "rename" =>
           IsOrdered(tail[h], count) /\ IsComplete(tail[h], count, overlapped)

LEMMA TailIsSound ==
    ASSUME NEW lines \in Lines, ~IsShort(lines), NEW last \in Nat, NEW lost,
           IsOrdered(lines, last), IsComplete(lines, last, lost)
    PROVE  IsOrdered(TailOf(lines), last) /\ IsComplete(TailOf(lines), last, lost)
<1> DEFINE short == TailOf(lines)
           gap == Len(lines) - MaxLogEntries
<1>1. /\ short \in Lines /\ Len(short) = MaxLogEntries
      /\ \A i \in 1..MaxLogEntries : short[i] = lines[gap + i]
      BY TailIsLines
<1>2. /\ Len(lines) \in Nat /\ MaxLogEntries \in Nat \ {0} /\ gap \in Nat \ {0}
      /\ gap + MaxLogEntries = Len(lines)
      BY LogAssumption DEF Lines, IsShort
<1>3. \A i \in 1..Len(lines) : lines[i].id \in Nat
      BY DEF IsOrdered
<1> HIDE DEF short, gap
<1>4. IsOrdered(short, last)
  <2>1. \A i \in 1..MaxLogEntries : gap + i \in 1..Len(lines)
        BY <1>2
  <2>2. \A i \in 1..Len(short) : short[i].id \in 1..last
        BY <1>1, <2>1 DEF IsOrdered
  <2>3. ASSUME NEW i \in 1..Len(short), NEW j \in 1..Len(short), i <= j
        PROVE  short[j].id - short[i].id >= j - i
    <3>1. lines[gap + j].id - lines[gap + i].id >= (gap + j) - (gap + i)
          BY <1>1, <1>2, <2>1, <2>3 DEF IsOrdered
    <3> QED
        BY <1>1, <1>2, <2>3, <3>1
  <2> QED
      BY <2>2, <2>3 DEF IsOrdered
<1>5. ASSUME NEW id \in 1..last PROVE Has(short, id) \/ Excused(id, last, lost)
  <2>1. CASE Excused(id, last, lost)
        BY <2>1
  <2>2. CASE ~Excused(id, last, lost)
    <3>1. PICK i \in 1..Len(lines) : lines[i].id = id
          BY <2>2 DEF IsComplete, Has
    <3>2. CASE i > gap
      <4>1. i - gap \in 1..MaxLogEntries /\ gap + (i - gap) = i
            BY <1>2, <3>2
      <4>2. short[i - gap].id = id
            BY <1>1, <3>1, <4>1
      <4> QED
          BY <1>1, <4>1, <4>2 DEF Has
    <3>3. CASE i <= gap
      <4>1. Len(lines) \in 1..Len(lines) /\ i <= Len(lines)
            BY <1>2, <3>1
      <4>2. lines[Len(lines)].id - lines[i].id >= Len(lines) - i
            BY <4>1 DEF IsOrdered
      <4>3. lines[Len(lines)].id \in 1..last
            BY <4>1 DEF IsOrdered
      <4>4. last - id >= MaxLogEntries
            BY <1>2, <1>3, <3>1, <3>3, <4>2, <4>3
      <4> QED
          BY <4>4 DEF Excused
    <3> QED
        BY <1>2, <3>2, <3>3
  <2> QED
      BY <2>1, <2>2
<1>6. IsComplete(short, last, lost)
      BY <1>5 DEF IsComplete
<1> QED
    BY <1>4, <1>6 DEF short


(* What was complete stays so when another entry has been written, if that  *)
(* is among the lines or excused.                                           *)
LEMMA StaysComplete ==
    ASSUME NEW lines, NEW longer, NEW last \in Nat, NEW lost, NEW more, lost \subseteq more,
           \A i \in 1..Len(lines) : i \in 1..Len(longer) /\ longer[i] = lines[i],
           IsComplete(lines, last, lost),
           Has(longer, last + 1) \/ last + 1 \in more
    PROVE  IsComplete(longer, last + 1, more)
<1>1. ASSUME NEW id \in 1..(last + 1) PROVE Has(longer, id) \/ Excused(id, last + 1, more)
  <2>1. CASE id = last + 1
        BY <2>1 DEF Excused
  <2>2. CASE id # last + 1
    <3>1. id \in 1..last
          BY <2>2
    <3>2. CASE Has(lines, id)
          BY <3>2 DEF Has
    <3>3. CASE Excused(id, last, lost)
          BY <3>1, <3>3, LogAssumption DEF Excused
    <3> QED
        BY <3>1, <3>2, <3>3 DEF IsComplete
  <2> QED
      BY <2>1, <2>2
<1> QED
    BY <1>1 DEF IsComplete

LEMMA StaysOrdered ==
    ASSUME NEW lines, NEW last \in Nat, IsOrdered(lines, last)
    PROVE  IsOrdered(lines, last + 1)
BY DEF IsOrdered

LEMMA LongerIsOrdered ==
    ASSUME NEW lines, NEW longer, NEW last \in Nat, IsOrdered(lines, last),
           Len(lines) \in Nat, Len(longer) = Len(lines) + 1,
           \A i \in 1..Len(lines) : longer[i] = lines[i],
           longer[Len(longer)].id = last + 1
    PROVE  IsOrdered(longer, last + 1)
<1> DEFINE n == Len(lines)
<1>1. \A i \in 1..n : longer[i].id \in 1..last /\ longer[i].id \in Nat
      BY DEF IsOrdered
<1>2. \A i \in 1..Len(longer) : longer[i].id \in 1..(last + 1)
      BY <1>1
<1>3. ASSUME NEW i \in 1..Len(longer), NEW j \in 1..Len(longer), i <= j
      PROVE  longer[j].id - longer[i].id >= j - i
  <2>1. CASE j <= n
    <3>1. i \in 1..n /\ j \in 1..n
          BY <1>3, <2>1
    <3>2. longer[i] = lines[i] /\ longer[j] = lines[j]
          BY <3>1
    <3>3. lines[j].id - lines[i].id >= j - i
          BY <1>3, <3>1 DEF IsOrdered
    <3> QED
        BY <3>2, <3>3
  <2>2. CASE j = n + 1 /\ i = n + 1
        BY <2>2
  <2>3. CASE j = n + 1 /\ i <= n
    <3>1. lines[n].id - lines[i].id >= n - i /\ lines[n].id \in 1..last /\ lines[i].id \in 1..last
          BY <1>3, <2>3 DEF IsOrdered
    <3> QED
        BY <1>3, <2>3, <3>1
  <2> QED
      BY <1>3, <2>1, <2>2, <2>3
<1> QED
    BY <1>2, <1>3 DEF IsOrdered

LEMMA WriteIsSound ==
    ASSUME LogTypeOK, LogIsSound, NEW h \in Hooks, WriteLog(h)
    PROVE  LogIsSound'
<1> DEFINE n0 == node[h]
<1>1. /\ n0 \in 1..Len(nodes) /\ Len(nodes') = Len(nodes) /\ Len(nodes) \in Nat \ {0}
      /\ \A n \in 1..Len(nodes) : n # n0 => nodes'[n] = nodes[n]
      /\ Len(nodes'[n0]) = Len(nodes[n0]) + 1 /\ Len(nodes[n0]) \in Nat
      /\ nodes'[n0][Len(nodes[n0]) + 1].id = count + 1
      /\ \A i \in 1..Len(nodes[n0]) : nodes'[n0][i] = nodes[n0][i]
      BY WriteExtends, LogIsLines DEF Lines
<1>2. /\ count \in Nat /\ count' = count + 1 /\ tail' = tail /\ overlapped \subseteq overlapped'
      /\ IsLossy(h) => count + 1 \in overlapped'
      /\ pc' = [pc EXCEPT ![h] = "stat"] /\ node' = [node EXCEPT ![h] = 0]
      /\ pc[h] = "write"
      BY DEF WriteLog, LogTypeOK, Proceeds
<1>3. /\ \A g \in Hooks : pc'[g] \in {"read", "rename"} =>
             g # h /\ pc'[g] = pc[g] /\ node'[g] = node[g]
      /\ \A g \in Hooks : pc[g] = "read" => node[g] \in 1..Len(nodes)
      BY <1>2 DEF LogTypeOK
<1>4. ASSUME NEW n \in 1..Len(nodes)
      PROVE  /\ IsOrdered(nodes'[n], count')
             /\ \A i \in 1..Len(nodes[n]) : i \in 1..Len(nodes'[n]) /\ nodes'[n][i] = nodes[n][i]
             /\ n = n0 => Has(nodes'[n], count + 1)
  <2>1. CASE n = n0
    <3>1. IsOrdered(nodes[n], count)
          BY DEF LogIsSound
    <3>2. nodes'[n][Len(nodes'[n])].id = count + 1 /\ Len(nodes'[n]) \in 1..Len(nodes'[n])
          BY <1>1, <2>1
    <3>3. IsOrdered(nodes'[n], count + 1)
          BY <1>1, <1>2, <2>1, <3>1, <3>2, LongerIsOrdered
    <3>4. \A i \in 1..Len(nodes[n]) : i \in 1..Len(nodes'[n]) /\ nodes'[n][i] = nodes[n][i]
          BY <1>1, <2>1
    <3>5. Has(nodes'[n], count + 1)
          BY <3>2 DEF Has
    <3> QED
        BY <1>2, <3>3, <3>4, <3>5
  <2>2. CASE n # n0
        BY <1>1, <1>2, <2>2, StaysOrdered DEF LogIsSound
  <2> QED
      BY <2>1, <2>2
<1>5. ASSUME NEW n \in 1..Len(nodes), IsComplete(nodes[n], count, overlapped),
             n = n0 \/ count + 1 \in overlapped'
      PROVE  IsComplete(nodes'[n], count', overlapped')
      BY <1>2, <1>4, <1>5, StaysComplete
<1>6. IsComplete(nodes'[Len(nodes')], count', overlapped')
      BY <1>1, <1>2, <1>5 DEF LogIsSound, IsLossy
<1>7. ASSUME NEW g \in Hooks, pc'[g] = "read"
      PROVE  IsComplete(nodes'[node'[g]], count', overlapped')
  <2>1. pc[g] = "read" /\ node'[g] = node[g] /\ node[g] \in 1..Len(nodes)
        BY <1>3, <1>7
  <2>2. node[g] = n0 \/ count + 1 \in overlapped'
    <3>1. CASE node[g] # Len(nodes) \/ n0 # Len(nodes)
          BY <1>2, <2>1, <3>1 DEF IsLossy, Outdated
    <3>2. CASE node[g] = Len(nodes) /\ n0 = Len(nodes)
          BY <3>2
    <3> QED
        BY <3>1, <3>2
  <2> QED
      BY <1>5, <2>1, <2>2 DEF LogIsSound
<1>8. ASSUME NEW g \in Hooks, pc'[g] = "rename"
      PROVE  IsOrdered(tail'[g], count') /\ IsComplete(tail'[g], count', overlapped')
  <2>1. pc[g] = "rename"
        BY <1>3, <1>8
  <2>2. count + 1 \in overlapped'
        BY <1>2, <2>1 DEF IsLossy, Outdated
  <2>3. IsOrdered(tail[g], count) /\ IsComplete(tail[g], count, overlapped)
        BY <2>1 DEF LogIsSound
  <2>4. IsComplete(tail[g], count + 1, overlapped')
        BY <1>2, <2>2, <2>3, StaysComplete
  <2> QED
      BY <1>2, <2>3, <2>4, StaysOrdered
<1> QED
    BY <1>1, <1>4, <1>6, <1>7, <1>8 DEF LogIsSound

LEMMA NextLogIsSound ==
    LogTypeOK /\ LogIsSound /\ [LogNext]_logVars => LogIsSound'
<1> SUFFICES ASSUME LogTypeOK, LogIsSound, [LogNext]_logVars PROVE LogIsSound'
    OBVIOUS
<1>0. /\ pc \in [Hooks -> {"idle", "open", "write", "stat", "reopen", "read", "rename"}]
      /\ node \in [Hooks -> Nat] /\ tail \in [Hooks -> Lines] /\ count \in Nat
      /\ \A h \in Hooks : pc[h] = "read" => node[h] \in 1..Len(nodes)
      /\ Len(nodes) \in Nat \ {0} /\ \A n \in 1..Len(nodes) : nodes[n] \in Lines
      BY LogIsLines DEF LogTypeOK
<1> USE DEF Proceeds
<1>1. ASSUME NEW h \in Hooks, LogStep(h) PROVE LogIsSound'
  <2>1. ASSUME UNCHANGED <<nodes, count, overlapped>>,
               \A g \in Hooks \ {h} : pc'[g] = pc[g] /\ node'[g] = node[g] /\ tail'[g] = tail[g],
               pc'[h] = "read" => node'[h] = Len(nodes),
               pc'[h] = "rename" =>
                   IsOrdered(tail'[h], count) /\ IsComplete(tail'[h], count, overlapped)
        PROVE  LogIsSound'
        BY <1>0, <2>1 DEF LogIsSound
  <2>2. CASE BeginAppend(h)
        BY <1>0, <2>1, <2>2 DEF BeginAppend
  <2>3. CASE OpenLog(h)
        BY <1>0, <2>1, <2>3 DEF OpenLog
  <2>4. CASE WriteLog(h)
        BY <2>4, WriteIsSound
  <2>5. CASE StatLog(h)
        BY <1>0, <2>1, <2>5 DEF StatLog
  <2>6. CASE ReopenLog(h)
        BY <1>0, <2>1, <2>6 DEF ReopenLog
  <2>7. CASE ReadLog(h)
    <3> DEFINE lines == nodes[node[h]]
    <3>1. /\ lines \in Lines /\ IsOrdered(lines, count)
          /\ IsComplete(lines, count, overlapped)
          BY <1>0, <2>7 DEF ReadLog, LogIsSound
    <3>2. ~IsShort(lines) =>
              IsOrdered(TailOf(lines), count) /\ IsComplete(TailOf(lines), count, overlapped)
          BY <1>0, <3>1, TailIsSound
    <3>3. \/ pc'[h] = "idle"
          \/ pc'[h] = "rename" /\ ~IsShort(lines) /\ tail'[h] = TailOf(lines)
          BY <1>0, <2>7 DEF ReadLog
    <3>4. /\ UNCHANGED <<nodes, count, overlapped>>
          /\ \A g \in Hooks \ {h} : pc'[g] = pc[g] /\ node'[g] = node[g] /\ tail'[g] = tail[g]
          BY <1>0, <2>7 DEF ReadLog
    <3> QED
        BY <2>1, <3>2, <3>3, <3>4
  <2>8. CASE RenameLog(h)
    <3>1. /\ Len(nodes') = Len(nodes) + 1 /\ nodes'[Len(nodes) + 1] = tail[h]
          /\ \A n \in 1..Len(nodes) : nodes'[n] = nodes[n]
          BY <2>8, RenameExtends DEF Log
    <3>2. IsOrdered(tail[h], count) /\ IsComplete(tail[h], count, overlapped)
          BY <2>8 DEF RenameLog, LogIsSound
    <3>3. /\ UNCHANGED <<count, overlapped, node>> /\ pc' = [pc EXCEPT ![h] = "idle"]
          /\ tail' = [tail EXCEPT ![h] = <<>>]
          BY <2>8 DEF RenameLog
    <3>4. \A n \in 1..Len(nodes') : IsOrdered(nodes'[n], count')
      <4> SUFFICES ASSUME NEW n \in 1..Len(nodes') PROVE IsOrdered(nodes'[n], count')
          OBVIOUS
      <4>1. n \in 1..Len(nodes) \/ n = Len(nodes) + 1
            BY <1>0, <3>1
      <4> QED
          BY <3>1, <3>2, <3>3, <4>1 DEF LogIsSound
    <3>5. IsComplete(nodes'[Len(nodes')], count', overlapped')
          BY <3>1, <3>2, <3>3
    <3>6. ASSUME NEW g \in Hooks, pc'[g] = "read"
          PROVE  IsComplete(nodes'[node'[g]], count', overlapped')
          BY <1>0, <3>1, <3>3, <3>6 DEF LogIsSound
    <3>7. ASSUME NEW g \in Hooks, pc'[g] = "rename"
          PROVE  IsOrdered(tail'[g], count') /\ IsComplete(tail'[g], count', overlapped')
          BY <1>0, <3>3, <3>7 DEF LogIsSound
    <3> QED
        BY <3>4, <3>5, <3>6, <3>7 DEF LogIsSound
  <2>9. CASE StopLogging(h)
        BY <1>0, <2>1, <2>9 DEF StopLogging
  <2> QED
      BY <1>1, <2>2, <2>3, <2>4, <2>5, <2>6, <2>7, <2>8, <2>9 DEF LogStep
<1>2. CASE UNCHANGED logVars
      BY <1>2 DEF logVars, LogIsSound
<1> QED
    BY <1>1, <1>2 DEF LogNext

(* LogKeepsTheNewest for any number of hooks, entries and limits: rotations *)
(* that cross lose what was appended beside them, never an older entry that *)
(* a single rotation would have kept, and never mix up the order.           *)
THEOREM LogIsATail == LogSpec => []LogKeepsTheNewest
<1>1. LogInit => LogIsSound
  <2> SUFFICES ASSUME LogInit PROVE LogIsSound
      OBVIOUS
  <2>1. Len(nodes) = 1 /\ nodes[1] = <<>> /\ count = 0 /\ Len(<<>>) = 0
        BY DEF LogInit
  <2>2. IsOrdered(<<>>, 0) /\ IsComplete(<<>>, 0, overlapped)
        BY <2>1 DEF IsOrdered, IsComplete
  <2>3. \A h \in Hooks : pc[h] = "idle"
        BY DEF LogInit
  <2> QED
      BY <2>1, <2>2, <2>3 DEF LogIsSound
<1>2. LogTypeOK /\ LogIsSound => LogKeepsTheNewest
  <2> SUFFICES ASSUME LogTypeOK, LogIsSound PROVE LogKeepsTheNewest
      OBVIOUS
  <2>1. IsOrdered(Log, count) /\ IsComplete(Log, count, overlapped)
        BY LogIsLines DEF LogIsSound, Log
  <2>2. ASSUME NEW i \in 1..Len(Log), NEW j \in 1..Len(Log), i < j PROVE Log[i].id < Log[j].id
    <3>1. Log[j].id - Log[i].id >= j - i /\ Log[i].id \in 1..count /\ Log[j].id \in 1..count
          BY <2>1, <2>2 DEF IsOrdered
    <3>2. i \in Int /\ j \in Int /\ count \in Nat
          BY LogIsLines DEF LogTypeOK
    <3> QED
        BY <2>2, <3>1, <3>2
  <2> QED
      BY <2>1, <2>2 DEF IsComplete, Has, Excused, LogKeepsTheNewest
<1> QED
    BY <1>1, <1>2, InitLogTypeOK, NextLogTypeOK, NextLogIsSound, PTL DEF LogSpec

=============================================================================
