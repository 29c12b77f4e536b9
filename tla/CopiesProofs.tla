---------------------------- MODULE CopiesProofs ----------------------------
(****************************************************************************)
(* What is made once and what is copied: the contacts of an import, the      *)
(* resources of the voice bootstrap, the numbers of quotes and the campaign  *)
(* of a form, and the key in KV, the score of a contact and the counts that  *)
(* an import shows.                                                          *)
(* Every theorem is about any number of jobs, runs, tabs and scorers.        *)
(****************************************************************************)
EXTENDS ClockProofs

(* A set with a member more, and with one fewer. *)
LEMMA Joins ==
  ASSUME NEW S, IsFiniteSet(S), NEW x, x \notin S
  PROVE  IsFiniteSet(S \cup {x}) /\ Cardinality(S \cup {x}) = Cardinality(S) + 1
  BY FS_AddElement

LEMMA Leaves ==
  ASSUME NEW S, IsFiniteSet(S), NEW x, x \in S
  PROVE  IsFiniteSet(S \ {x}) /\ Cardinality(S \ {x}) = Cardinality(S) - 1
  BY FS_RemoveElement

-----------------------------------------------------------------------------
(* The state of the imports: what a job has counted is what it has been *)
(* through.                                                             *)
ImportTypes ==
  /\ Import!TypeOK
  /\ \A j \in ImportJobs :
       /\ importAccepted[j] + importRejected[j] = importRow[j] - 1
       /\ importAt[j] \in {"row", "update", "create", "consent"} => importRow[j] <= ImportRows
       /\ importAt[j] \in {"upload", "insert", "send", "queued", "open"} => importRow[j] = 1

LEMMA InitImportTypes == Import!Init => ImportTypes
  <1> SUFFICES ASSUME Import!Init PROVE ImportTypes
    OBVIOUS
  <1> ImportMaxFailures \in Nat /\ ImportRows \in Nat /\ ImportChunk \in Nat \ {0}
    BY ServicesAssumption, ServicesBounds
  <1> USE DEF Import!Init, Import!Zero
  <1>1. importRow \in [ImportJobs -> 1..(ImportRows + 1)]
    OBVIOUS
  <1>2. importAccepted \in [ImportJobs -> 0..ImportRows] /\ importRejected \in [ImportJobs -> 0..ImportRows]
    OBVIOUS
  <1>3. Import!Zero \in [processed : 0..ImportRows, accepted : 0..ImportRows, rejected : 0..ImportRows]
    OBVIOUS
  <1>4. importShown \in [ImportJobs -> [processed : 0..ImportRows, accepted : 0..ImportRows, rejected : 0..ImportRows]]
    OBVIOUS
  <1>5. importFailures \in 0..ImportMaxFailures
    OBVIOUS
  <1> QED BY <1>1, <1>2, <1>3, <1>4, <1>5 DEF Import!TypeOK, ImportTypes

LEMMA NextImportTypes ==
  ASSUME ImportTypes, Import!Next \/ UNCHANGED importVars
  PROVE  ImportTypes'
  <1> ImportMaxFailures \in Nat /\ ImportRows \in Nat /\ ImportChunk \in Nat \ {0}
    BY ServicesAssumption, ServicesBounds
  <1> USE DEF Import!TypeOK, Import!GoOn, Import!Fails, Import!counts, Import!contacts, ImportTypes
  <1>1. CASE UNCHANGED importVars
    BY <1>1 DEF importVars
  <1>2. ASSUME NEW j \in ImportJobs, Import!StageFile(j) PROVE ImportTypes'
    BY <1>2 DEF Import!StageFile
  <1>3. ASSUME NEW j \in ImportJobs, Import!InsertJob(j) PROVE ImportTypes'
    BY <1>3 DEF Import!InsertJob
  <1>4. ASSUME NEW j \in ImportJobs, Import!SendJob(j) PROVE ImportTypes'
    <2>1. importFailures' \in 0..ImportMaxFailures
      BY <1>4 DEF Import!SendJob
    <2> QED BY <1>4, <2>1 DEF Import!SendJob
  <1>5. ASSUME NEW j \in ImportJobs, Import!Begin(j) PROVE ImportTypes'
    BY <1>5 DEF Import!Begin
  <1>6. ASSUME NEW j \in ImportJobs, Import!OpenFile(j) PROVE ImportTypes'
    BY <1>6, SMTT(40) DEF Import!OpenFile
  <1>7. ASSUME NEW j \in ImportJobs, Import!RejectInvalid(j) PROVE ImportTypes'
    BY <1>7, SMTT(40) DEF Import!RejectInvalid, Import!Reject, Import!NextRow
  <1>8. ASSUME NEW j \in ImportJobs, Import!LookUp(j) PROVE ImportTypes'
    <2> DEFINE creating == {k \in ImportJobs : importAt[k] = "create" /\ ImportFile[importRow[k]] = "address"}
    <2>1. Import!Cardinality(creating) \in Nat
      BY ServicesBounds, FS_Subset, FS_CardinalityType DEF Import!Cardinality, Cardinality
    <2>2. importOverlaps' = IF importKnown = 0 THEN importOverlaps + Import!Cardinality(creating)
                            ELSE importOverlaps
      BY <1>8 DEF Import!LookUp
    <2>3. importOverlaps' \in Nat
      BY <2>1, <2>2
    <2> QED BY <1>8, <2>3 DEF Import!LookUp
  <1>9. ASSUME NEW j \in ImportJobs, Import!SkipLookUp(j) PROVE ImportTypes'
    BY <1>9 DEF Import!SkipLookUp
  <1>10. ASSUME NEW j \in ImportJobs, Import!UpdateContact(j) PROVE ImportTypes'
    BY <1>10 DEF Import!UpdateContact
  <1>11. ASSUME NEW j \in ImportJobs, Import!CreateContact(j) PROVE ImportTypes'
    BY <1>11 DEF Import!CreateContact
  <1>12. ASSUME NEW j \in ImportJobs, Import!UpsertConsents(j) PROVE ImportTypes'
    BY <1>12 DEF Import!UpsertConsents, Import!NextRow
  <1>13. ASSUME NEW j \in ImportJobs, Import!StatementFails(j) PROVE ImportTypes'
    BY <1>13, SMTT(40) DEF Import!StatementFails, Import!Reject, Import!NextRow
  <1>14. ASSUME NEW j \in ImportJobs, Import!SaveProgress(j) PROVE ImportTypes'
    BY <1>14 DEF Import!SaveProgress
  <1>15. ASSUME NEW j \in ImportJobs, Import!Complete(j) PROVE ImportTypes'
    BY <1>15 DEF Import!Complete
  <1>16. ASSUME NEW j \in ImportJobs, Import!Die(j) PROVE ImportTypes'
    BY <1>16 DEF Import!Die
  <1> QED BY <1>1, <1>2, <1>3, <1>4, <1>5, <1>6, <1>7, <1>8, <1>9, <1>10, <1>11, <1>12, <1>13,
             <1>14, <1>15, <1>16 DEF Import!Next, Import!JobStep

-----------------------------------------------------------------------------
(* What an import shows when it is complete is the whole file. *)
ImportShows ==
  /\ ImportTypes
  /\ \A j \in ImportJobs : importAt[j] = "complete" => importRow[j] = ImportRows + 1
  /\ \A j \in ImportJobs : importStatus[j] = "completed" => importAt[j] = "done"
  /\ Import!ImportAccounted

LEMMA InitImportShows == Import!Init => ImportShows
  <1> SUFFICES ASSUME Import!Init PROVE ImportShows
    OBVIOUS
  <1>1. ImportTypes
    BY InitImportTypes
  <1>2. /\ \A j \in ImportJobs : importAt[j] = "complete" => importRow[j] = ImportRows + 1
        /\ \A j \in ImportJobs : importStatus[j] = "completed" => importAt[j] = "done"
    BY DEF Import!Init
  <1>3. Import!ImportAccounted
    BY DEF Import!Init, Import!Zero, Import!ImportAccounted
  <1> QED BY <1>1, <1>2, <1>3 DEF ImportShows

LEMMA NextImportShows ==
  ASSUME ImportShows, Import!Next \/ UNCHANGED importVars
  PROVE  ImportShows'
  <1>b. ImportRows \in Nat /\ ImportChunk \in Nat \ {0}
    BY ServicesAssumption
  <1>t. ImportTypes /\ ImportTypes'
    BY NextImportTypes DEF ImportShows
  <1>1. CASE UNCHANGED importVars
    BY <1>1, <1>t DEF importVars, ImportShows, Import!ImportAccounted
  <1>2. ASSUME NEW j \in ImportJobs, importShown' = importShown,
               (importStatus'[j] = importStatus[j] /\ importAt[j] # "done") \/
               importStatus'[j] = "failed" \/
               importStatus'[j] \in {"queued", "processing"},
               importStatus'[j] \in {"queued", "processing"} => importAt'[j] \notin {"done", "upload"},
               importAt'[j] = "complete" => importRow'[j] = ImportRows + 1,
               \A k \in ImportJobs \ {j} : importStatus'[k] = importStatus[k] /\ importAt'[k] = importAt[k]
                                           /\ importRow'[k] = importRow[k]
        PROVE  ImportShows'
    BY <1>2, <1>t DEF ImportShows, Import!ImportAccounted
  <1> USE DEF Import!GoOn, Import!Fails, Import!counts, Import!contacts
  <1>3. ASSUME NEW j \in ImportJobs,
               \/ Import!StageFile(j) \/ Import!InsertJob(j) \/ Import!SendJob(j) \/ Import!Begin(j)
               \/ Import!OpenFile(j)
        PROVE  ImportShows'
    <2>1. /\ DOMAIN importAt = ImportJobs /\ DOMAIN importStatus = ImportJobs
          /\ importAt[j] = "open" => importRow[j] = 1
          /\ importStatus[j] \in {"queued", "processing"} => importAt[j] \notin {"done", "upload"}
      BY <1>t DEF ImportTypes, Import!TypeOK, ImportShows, Import!ImportAccounted
    <2>2. CASE Import!StageFile(j)
      BY <1>2, <2>1, <2>2 DEF Import!StageFile
    <2>3. CASE Import!InsertJob(j)
      BY <1>2, <2>1, <2>3 DEF Import!InsertJob
    <2>4. CASE Import!SendJob(j)
      BY <1>2, <2>1, <2>4 DEF Import!SendJob
    <2>5. CASE Import!Begin(j)
      BY <1>2, <2>1, <2>5 DEF Import!Begin
    <2>6. CASE Import!OpenFile(j)
      BY <1>2, <1>b, <2>1, <2>6 DEF Import!OpenFile
    <2> QED BY <1>3, <2>2, <2>3, <2>4, <2>5, <2>6
  <1>4. ASSUME NEW j \in ImportJobs,
               \/ Import!RejectInvalid(j) \/ Import!LookUp(j) \/ Import!SkipLookUp(j)
               \/ Import!UpdateContact(j) \/ Import!CreateContact(j) \/ Import!UpsertConsents(j)
               \/ Import!StatementFails(j) \/ Import!Die(j)
        PROVE  ImportShows'
    <2>1. /\ DOMAIN importAt = ImportJobs /\ DOMAIN importRow = ImportJobs /\ importRow[j] \in Nat
          /\ importStatus[j] \in {"queued", "processing"} => importAt[j] \notin {"done", "upload"}
      BY <1>t, <1>b DEF ImportTypes, Import!TypeOK, ImportShows, Import!ImportAccounted
    <2>2. /\ importStatus' = importStatus /\ importShown' = importShown /\ importAt[j] # "done"
          /\ \A k \in ImportJobs \ {j} : importAt'[k] = importAt[k] /\ importRow'[k] = importRow[k]
          /\ importAt'[j] \notin {"done", "upload", "complete"}
      BY <1>4, <2>1 DEF Import!RejectInvalid, Import!LookUp, Import!SkipLookUp,
         Import!UpdateContact,
         Import!CreateContact, Import!UpsertConsents, Import!StatementFails, Import!Die,
         Import!Reject, Import!NextRow
    <2> QED BY <1>2, <2>1, <2>2
  <1>5. ASSUME NEW j \in ImportJobs, Import!SaveProgress(j) PROVE ImportShows'
    <2>1. /\ importAccepted[j] \in Nat /\ importRejected[j] \in Nat /\ importRow[j] \in 1..(ImportRows + 1)
          /\ importAccepted[j] + importRejected[j] = importRow[j] - 1
          /\ DOMAIN importAt = ImportJobs /\ importAt[j] = "progress"
          /\ DOMAIN importShown = ImportJobs
      BY <1>5, <1>t, <1>b DEF ImportTypes, Import!TypeOK, Import!SaveProgress
    <2> DEFINE s == [processed |-> importRow[j] - 1, accepted |-> importAccepted[j], rejected |-> importRejected[j]]
    <2>2. s.processed = s.accepted + s.rejected
      BY <2>1
    <2>3. importShown' = [importShown EXCEPT ![j] = s] /\ importStatus' = importStatus /\ importRow' = importRow
      BY <1>5 DEF Import!SaveProgress
    <2>4. /\ importAt'[j] \in {"complete", "row"} /\ (importAt'[j] = "complete" => importRow[j] = ImportRows + 1)
          /\ \A k \in ImportJobs \ {j} : importAt'[k] = importAt[k]
      BY <1>5, <1>b, <2>1 DEF Import!SaveProgress
    <2> HIDE DEF s
    <2>5. /\ importShown'[j] = s
          /\ \A k \in ImportJobs \ {j} : importShown'[k] = importShown[k]
      BY <2>1, <2>3
    <2>6. importStatus[j] # "completed"
      BY <2>1 DEF ImportShows
    <2>7. Import!ImportAccounted'
      BY <2>1, <2>2, <2>3, <2>4, <2>5, <2>6 DEF ImportShows, Import!ImportAccounted
    <2>8. \A k \in ImportJobs : importAt'[k] = "complete" => importRow'[k] = ImportRows + 1
      BY <2>1, <2>3, <2>4, <1>b DEF ImportShows
    <2> QED BY <1>t, <2>3, <2>4, <2>6, <2>7, <2>8 DEF ImportShows
  <1>6. ASSUME NEW j \in ImportJobs, Import!Complete(j) PROVE ImportShows'
    <2>1. /\ importAccepted[j] \in Nat /\ importRejected[j] \in Nat /\ importRow[j] = ImportRows + 1
          /\ importAccepted[j] + importRejected[j] = importRow[j] - 1
          /\ DOMAIN importAt = ImportJobs /\ importAt[j] = "complete"
          /\ DOMAIN importShown = ImportJobs /\ DOMAIN importStatus = ImportJobs
      BY <1>6, <1>t, <1>b DEF ImportTypes, Import!TypeOK, Import!Complete, ImportShows
    <2> DEFINE s == [processed |-> ImportRows, accepted |-> importAccepted[j], rejected |-> importRejected[j]]
    <2>2. s.processed = s.accepted + s.rejected /\ s.processed = ImportRows
      BY <2>1, <1>b
    <2>3. /\ importShown' = [importShown EXCEPT ![j] = s] /\ importRow' = importRow
          /\ importStatus' = [importStatus EXCEPT ![j] = "completed"]
          /\ importAt' = [importAt EXCEPT ![j] = "done"]
      BY <1>6 DEF Import!Complete
    <2> HIDE DEF s
    <2>4. /\ importShown'[j] = s /\ importStatus'[j] = "completed" /\ importAt'[j] = "done"
          /\ \A k \in ImportJobs \ {j} : importShown'[k] = importShown[k] /\ importStatus'[k] = importStatus[k]
                                         /\ importAt'[k] = importAt[k]
      BY <2>1, <2>3
    <2> QED BY <1>t, <2>2, <2>3, <2>4 DEF ImportShows, Import!ImportAccounted
  <1> QED BY <1>1, <1>3, <1>4, <1>5, <1>6 DEF Import!Next, Import!JobStep

LEMMA AccountedHeld == ImportShows => Import!ImportAccounted
  BY DEF ImportShows

-----------------------------------------------------------------------------
(* The contact of an address. A job about to insert it found none, and    *)
(* each insert after the first is an overlap; a row without an address is *)
(* inserted by each job that passes it.                                   *)
(* The jobs about to insert the contact of the address, and the rows without an *)
(* address whose contact may have been inserted.                                *)
Inserting == {j \in ImportJobs : importAt[j] = "create" /\ ImportFile[importRow[j]] = "address"}
Passed == {p \in ImportJobs \X (1..ImportRows) :
             /\ ImportFile[p[2]] = "bare"
             /\ \/ p[2] < importRow[p[1]]
                \/ p[2] = importRow[p[1]] /\ importAt[p[1]] \in {"consent", "dead"}}

Creating == \A j \in ImportJobs :
              importAt[j] = "create" => ImportFile[importRow[j]] \in {"address", "bare"}

ContactsInv ==
  /\ ImportTypes
  /\ importKnown + Cardinality(Inserting) <= 1 + importOverlaps
  /\ importBare <= Cardinality(Passed)
  /\ Creating

LEMMA FinitePairs ==
  /\ \A S \in SUBSET ImportJobs : IsFiniteSet(S) /\ Cardinality(S) \in Nat
  /\ \A S \in SUBSET (ImportJobs \X (1..ImportRows)) : IsFiniteSet(S) /\ Cardinality(S) \in Nat
  <1>1. IsFiniteSet(ImportJobs) /\ IsFiniteSet(1..ImportRows)
    BY ServicesAssumption, ServicesBounds, FS_Interval
  <1>2. IsFiniteSet(ImportJobs \X (1..ImportRows))
    BY <1>1, FS_Product
  <1> QED BY <1>1, <1>2, FS_Subset, FS_CardinalityType

LEMMA CountsAreFinite ==
  /\ Cardinality(Inserting) \in Nat /\ IsFiniteSet(Inserting)
  /\ Cardinality(Passed) \in Nat /\ IsFiniteSet(Passed)
  /\ Cardinality(Inserting') \in Nat /\ IsFiniteSet(Inserting')
  /\ Cardinality(Passed') \in Nat /\ IsFiniteSet(Passed')
  BY FinitePairs DEF Inserting, Passed

LEMMA InitContactsInv == Import!Init => ContactsInv
  <1> SUFFICES ASSUME Import!Init PROVE ContactsInv
    OBVIOUS
  <1>1. Inserting = {}
    BY DEF Import!Init, Inserting
  <1>2. importKnown = 0 /\ importBare = 0 /\ importOverlaps = 0
    BY DEF Import!Init
  <1> QED BY <1>1, <1>2, FS_EmptySet, InitImportTypes, CountsAreFinite DEF ContactsInv, Creating,
             Import!Init

LEMMA NextContactsInv ==
  ASSUME ContactsInv, Import!Next \/ UNCHANGED importVars
  PROVE  ContactsInv'
  <1>b. ImportRows \in Nat /\ ImportChunk \in Nat \ {0}
    BY ServicesAssumption
  <1>t. ImportTypes /\ ImportTypes'
    BY NextImportTypes DEF ContactsInv
  <1>d. /\ DOMAIN importAt = ImportJobs /\ DOMAIN importRow = ImportJobs
        /\ \A j \in ImportJobs : importRow[j] \in Nat
        /\ \A j \in ImportJobs : importAt[j] \in {"row", "update", "create", "consent"} =>
             importRow[j] \in 1..ImportRows
        /\ importKnown \in Nat /\ importBare \in Nat /\ importOverlaps \in Nat
    BY <1>t, <1>b DEF ImportTypes, Import!TypeOK
  <1>i. /\ importKnown + Cardinality(Inserting) <= 1 + importOverlaps
        /\ importBare <= Cardinality(Passed)
    BY DEF ContactsInv
  <1>s. /\ Inserting' \subseteq Inserting => Cardinality(Inserting') <= Cardinality(Inserting)
        /\ Passed \subseteq Passed' => Cardinality(Passed) <= Cardinality(Passed')
    BY CountsAreFinite, FS_Subset
  <1>u. ASSUME UNCHANGED <<importKnown, importBare, importOverlaps>>, Inserting' \subseteq Inserting,
               Passed \subseteq Passed', Creating'
        PROVE  ContactsInv'
    BY <1>u, <1>t, <1>d, <1>i, <1>s, CountsAreFinite DEF ContactsInv
  <1> USE DEF Import!GoOn, Import!Fails, Import!counts, Import!contacts
  <1>1. CASE UNCHANGED importVars
    BY <1>1, <1>u DEF importVars, Inserting, Passed, ContactsInv, Creating
  <1>2. ASSUME NEW j \in ImportJobs,
               \A k \in ImportJobs \ {j} : importAt'[k] = importAt[k] /\ importRow'[k] = importRow[k],
               importAt'[j] # "create" \/ (importAt[j] = "create" /\ importRow'[j] = importRow[j])
                 \/ ImportFile[importRow'[j]] = "bare",
               \/ importRow'[j] = importRow[j] /\
                    (importAt[j] \notin {"consent", "dead"} \/ importAt'[j] \in {"consent", "dead"})
               \/ importRow'[j] = importRow[j] + 1
        PROVE  Inserting' \subseteq Inserting /\ Passed \subseteq Passed' /\ Creating'
    <2>1. Inserting' \subseteq Inserting
      BY <1>2 DEF Inserting
    <2>2. ASSUME NEW p \in Passed PROVE p \in Passed'
      <3>1. /\ p \in ImportJobs \X (1..ImportRows) /\ ImportFile[p[2]] = "bare"
            /\ p[1] \in ImportJobs /\ p[2] \in Nat /\ importRow[p[1]] \in Nat
            /\ \/ p[2] < importRow[p[1]]
               \/ p[2] = importRow[p[1]] /\ importAt[p[1]] \in {"consent", "dead"}
        BY <1>d DEF Passed
      <3>2. \/ p[2] < importRow'[p[1]]
            \/ p[2] = importRow'[p[1]] /\ importAt'[p[1]] \in {"consent", "dead"}
        <4>1. CASE p[1] = j
          BY <1>2, <3>1, <4>1
        <4>2. CASE p[1] # j
          BY <1>2, <3>1, <4>2
        <4> QED BY <4>1, <4>2
      <3> QED BY <3>1, <3>2 DEF Passed
    <2>3. Creating'
      BY <1>2 DEF ContactsInv, Creating
    <2> QED BY <2>1, <2>2, <2>3
  <1>3. ASSUME NEW j \in ImportJobs,
               \/ Import!StageFile(j) \/ Import!InsertJob(j) \/ Import!SendJob(j) \/ Import!Begin(j)
               \/ Import!OpenFile(j) \/ Import!UpdateContact(j) \/ Import!SaveProgress(j)
               \/ Import!Complete(j) \/ Import!Die(j)
        PROVE  ContactsInv'
    <2>1. /\ UNCHANGED <<importKnown, importBare, importOverlaps, importRow>>
          /\ importAt[j] \notin {"consent", "dead"} \/ importAt'[j] = "dead"
          /\ importAt'[j] # "create"
          /\ \A k \in ImportJobs \ {j} : importAt'[k] = importAt[k]
      BY <1>3, <1>d DEF Import!StageFile, Import!InsertJob, Import!SendJob, Import!Begin,
         Import!OpenFile, Import!UpdateContact, Import!SaveProgress, Import!Complete, Import!Die
    <2> QED BY <1>2, <1>u, <2>1
  <1>4. ASSUME NEW j \in ImportJobs,
               Import!RejectInvalid(j) \/ Import!UpsertConsents(j) \/ Import!StatementFails(j)
        PROVE  ContactsInv'
    <2>1. /\ UNCHANGED <<importKnown, importBare, importOverlaps>>
          /\ importRow'[j] = importRow[j] + 1 /\ importAt'[j] # "create"
          /\ \A k \in ImportJobs \ {j} : importAt'[k] = importAt[k] /\ importRow'[k] = importRow[k]
      BY <1>4, <1>d DEF Import!RejectInvalid, Import!UpsertConsents, Import!StatementFails,
         Import!Reject, Import!NextRow
    <2> QED BY <1>2, <1>u, <2>1
  <1>5. ASSUME NEW j \in ImportJobs, Import!SkipLookUp(j) PROVE ContactsInv'
    <2>1. /\ UNCHANGED <<importKnown, importBare, importOverlaps, importRow>>
          /\ importAt[j] = "row" /\ ImportFile[importRow[j]] = "bare"
          /\ \A k \in ImportJobs \ {j} : importAt'[k] = importAt[k]
      BY <1>5, <1>d DEF Import!SkipLookUp
    <2> QED BY <1>2, <1>u, <2>1
  <1>6. ASSUME NEW j \in ImportJobs, Import!LookUp(j) PROVE ContactsInv'
    <2>1. /\ UNCHANGED <<importKnown, importBare, importRow>> /\ importAt[j] = "row"
          /\ ImportFile[importRow[j]] = "address"
          /\ importAt' = [importAt EXCEPT ![j] = IF importKnown > 0 THEN "update" ELSE "create"]
          /\ importOverlaps' = IF importKnown = 0 THEN importOverlaps + Import!Cardinality(Inserting)
                               ELSE importOverlaps
      BY <1>6 DEF Import!LookUp, Inserting
    <2>2. CASE importKnown = 0
      <3>1. importOverlaps' = importOverlaps + Cardinality(Inserting)
        BY <2>1, <2>2 DEF Import!Cardinality, Cardinality
      <3>2. importAt'[j] = "create" /\ \A k \in ImportJobs \ {j} : importAt'[k] = importAt[k]
        BY <2>1, <2>2, <1>d
      <3>3. Inserting' = Inserting \cup {j} /\ j \notin Inserting
        BY <2>1, <3>2 DEF Inserting
      <3>4. Cardinality(Inserting') = Cardinality(Inserting) + 1
        BY <3>3, Joins, CountsAreFinite
      <3>5. Passed \subseteq Passed'
        <4>1. ASSUME NEW q \in Passed PROVE q \in Passed'
          BY <2>1, <3>2 DEF Passed
        <4> QED BY <4>1
      <3>6. Creating'
        BY <2>1, <3>2 DEF ContactsInv, Creating
      <3> QED BY <2>1, <2>2, <3>1, <3>4, <3>5, <3>6, <1>t, <1>d, <1>i, <1>s, CountsAreFinite
                 DEF ContactsInv
    <2>3. CASE importKnown # 0
      <3>1. importAt'[j] = "update" /\ \A k \in ImportJobs \ {j} : importAt'[k] = importAt[k]
        BY <2>1, <2>3, <1>d
      <3> QED BY <2>1, <2>3, <3>1, <1>2, <1>u
    <2> QED BY <2>2, <2>3
  <1>7. ASSUME NEW j \in ImportJobs, Import!CreateContact(j) PROVE ContactsInv'
    <2>1. /\ UNCHANGED <<importOverlaps, importRow>> /\ importAt[j] = "create"
          /\ importAt'[j] = "consent"
          /\ \A k \in ImportJobs \ {j} : importAt'[k] = importAt[k]
      BY <1>7, <1>d DEF Import!CreateContact
    <2>2. Inserting' \subseteq Inserting /\ Passed \subseteq Passed' /\ Creating'
      BY <1>2, <2>1
    <2>3. CASE ImportFile[importRow[j]] = "address"
      <3>1. importKnown' = importKnown + 1 /\ importBare' = importBare
        BY <1>7, <2>3 DEF Import!CreateContact
      <3>2. Inserting' = Inserting \ {j} /\ j \in Inserting
        BY <2>1, <2>3 DEF Inserting
      <3>3. Cardinality(Inserting') = Cardinality(Inserting) - 1
        BY <3>2, Leaves, CountsAreFinite
      <3> QED BY <2>1, <2>2, <3>1, <3>3, <1>t, <1>d, <1>i, <1>s, CountsAreFinite DEF ContactsInv
    <2>4. CASE ImportFile[importRow[j]] # "address"
      <3>1. importKnown' = importKnown /\ importBare' = importBare + 1
        BY <1>7, <2>4 DEF Import!CreateContact
      <3> DEFINE p == <<j, importRow[j]>>
      <3>2. importRow[j] \in 1..ImportRows
        BY <1>d, <2>1
      <3>3. ImportFile[importRow[j]] = "bare"
        <4>1. importAt[j] = "create" => ImportFile[importRow[j]] \in {"address", "bare"}
          BY DEF ContactsInv, Creating
        <4> QED BY <2>1, <2>4, <4>1
      <3>4. p \notin Passed
        BY <2>1, <3>2 DEF Passed
      <3>5. p \in Passed'
        BY <2>1, <3>2, <3>3 DEF Passed
      <3> HIDE DEF p
      <3>6. Cardinality(Passed \cup {p}) = Cardinality(Passed) + 1
        BY <3>4, Joins, CountsAreFinite
      <3>7. Cardinality(Passed \cup {p}) <= Cardinality(Passed')
        BY <2>2, <3>5, CountsAreFinite, FS_Subset
      <3> QED BY <2>1, <2>2, <3>1, <3>6, <3>7, <1>t, <1>d, <1>i, <1>s, CountsAreFinite
                 DEF ContactsInv
    <2> QED BY <2>3, <2>4
  <1> QED BY <1>1, <1>3, <1>4, <1>5, <1>6, <1>7 DEF Import!Next, Import!JobStep

LEMMA OneContactHeld == ContactsInv => Import!OneContactPerAddress
  <1> SUFFICES ASSUME ContactsInv PROVE Import!OneContactPerAddress
    OBVIOUS
  <1> DEFINE B == {p \in ImportJobs \X (1..ImportRows) : ImportFile[p[2]] = "bare" /\ p[2] <= importRow[p[1]]}
  <1>1. ImportRows \in Nat /\ ImportTypes
    BY ServicesAssumption DEF ContactsInv
  <1>2. \A j \in ImportJobs : importRow[j] \in Nat
    BY <1>1 DEF ImportTypes, Import!TypeOK
  <1>3. Passed \subseteq B
    BY <1>2 DEF Passed
  <1>4. IsFiniteSet(B) /\ Cardinality(B) \in Nat
    BY FinitePairs
  <1>5. Cardinality(Passed) <= Cardinality(B)
    BY <1>3, <1>4, FS_Subset
  <1>6. importKnown \in Nat /\ importBare \in Nat /\ importOverlaps \in Nat
    BY <1>1 DEF ImportTypes, Import!TypeOK
  <1>7. Import!Cardinality(B) = Cardinality(B)
    BY DEF Import!Cardinality, Cardinality
  <1> HIDE DEF B
  <1>8. importBare <= Cardinality(B) /\ importKnown <= 1 + importOverlaps
    BY <1>4, <1>5, <1>6, CountsAreFinite DEF ContactsInv
  <1> QED BY <1>7, <1>8 DEF Import!OneContactPerAddress, B

-----------------------------------------------------------------------------
(* The bootstrap of the voice. A run that has found a resource missing may *)
(* create it, and one that has created it has yet to remember its id:      *)
(* those add up with the resources that were made, and a race counts all   *)
(* that were at it when another run looked.                                *)
(* The resource a run is at. *)
Its(b) == Setup!Stages[setupAt[b]]
Steps  == {"look", "create", "remember"}

(* The runs that are about to create a resource, and those that are about to *)
(* remember the one they have created.                                       *)
Creates(r)   == {b \in SetupRuns : Setup!Active(b) /\ Its(b) = r /\ setupStep[b] = "create"}
Remembers(r) == {b \in SetupRuns : Setup!Active(b) /\ Its(b) = r /\ setupStep[b] = "remember"}

SetupInv ==
  /\ DOMAIN setupAt = SetupRuns /\ setupStep \in [SetupRuns -> Steps]
  /\ setupFailures \in Nat
  /\ setupMade \in [Setup!Resources -> Nat] /\ setupRaces \in [Setup!Resources -> Nat]
  /\ \A b \in SetupRuns : setupStep[b] = "remember" => Setup!Active(b)
  /\ \A r \in Setup!Resources :
       /\ setupMade[r] + Cardinality(Creates(r)) <= 1 + setupRaces[r] + setupFailures
       /\ r \notin setupKnown =>
            setupMade[r] <= Cardinality(Remembers(r)) + setupRaces[r] + setupFailures

LEMMA RunsCount ==
  /\ \A r : IsFiniteSet(Creates(r)) /\ Cardinality(Creates(r)) \in Nat
  /\ \A r : IsFiniteSet(Remembers(r)) /\ Cardinality(Remembers(r)) \in Nat
  /\ \A r : IsFiniteSet(Creates(r)') /\ Cardinality(Creates(r)') \in Nat
  /\ \A r : IsFiniteSet(Remembers(r)') /\ Cardinality(Remembers(r)') \in Nat
  <1>1. IsFiniteSet(SetupRuns)
    BY ServicesBounds
  <1>2. ASSUME NEW S \in SUBSET SetupRuns PROVE IsFiniteSet(S) /\ Cardinality(S) \in Nat
    BY <1>1, FS_Subset, FS_CardinalityType
  <1> QED BY <1>2 DEF Creates, Remembers

LEMMA InitSetupInv == Setup!Init => SetupInv
  <1> SUFFICES ASSUME Setup!Init PROVE SetupInv
    OBVIOUS
  <1>1. /\ DOMAIN setupAt = SetupRuns /\ setupStep \in [SetupRuns -> Steps]
        /\ setupFailures = 0
        /\ setupMade \in [Setup!Resources -> Nat] /\ setupRaces \in [Setup!Resources -> Nat]
        /\ \A b \in SetupRuns : setupStep[b] = "look"
        /\ \A r \in Setup!Resources : setupMade[r] = 0 /\ setupRaces[r] = 0
    BY DEF Setup!Init, Steps
  <1>2. \A r : Creates(r) = {} /\ Remembers(r) = {}
    BY <1>1 DEF Creates, Remembers
  <1>3. \A r : Cardinality(Creates(r)) = 0
    BY <1>2, FS_EmptySet
  <1> QED BY <1>1, <1>3, RunsCount DEF SetupInv

(* A run goes on to another step of the resource it is at. *)
Turns(b, r, s) ==
  /\ Setup!Active(b) /\ r = Its(b) /\ s # "look"
  /\ setupAt' = setupAt /\ setupStep' = [setupStep EXCEPT ![b] = s]

(* What a run that is at resource r does to the counts. *)
LEMMA OthersStay ==
  ASSUME NEW b \in SetupRuns,
         \A k \in SetupRuns \ {b} : setupAt'[k] = setupAt[k] /\ setupStep'[k] = setupStep[k]
  PROVE  \A r : /\ Creates(r)' \ {b} = Creates(r) \ {b}
                /\ Remembers(r)' \ {b} = Remembers(r) \ {b}
  BY DEF Creates, Remembers, Its, Setup!Active

LEMMA NextSetupInv ==
  ASSUME SetupInv, Setup!Next \/ UNCHANGED setupVars
  PROVE  SetupInv'
  <1>t. /\ DOMAIN setupAt = SetupRuns /\ setupStep \in [SetupRuns -> Steps] /\ setupFailures \in Nat
        /\ setupMade \in [Setup!Resources -> Nat] /\ setupRaces \in [Setup!Resources -> Nat]
        /\ \A b \in SetupRuns : setupStep[b] = "remember" => Setup!Active(b)
    BY DEF SetupInv
  <1>r. ASSUME NEW b, Setup!Active(b) PROVE Its(b) \in Setup!Resources
    BY <1>r DEF Its, Setup!Active, Setup!Resources
  <1>1. CASE UNCHANGED setupVars
    <2>1. \A r : Creates(r)' = Creates(r) /\ Remembers(r)' = Remembers(r)
      BY <1>1 DEF setupVars, Creates, Remembers, Its, Setup!Active
    <2> QED BY <1>1, <2>1 DEF setupVars, SetupInv, Setup!Active
  \* A run that goes on: what it was about to do is done or dropped.
  <1>2. ASSUME NEW b \in SetupRuns, NEW i, Setup!Enter(b, i)
        PROVE  /\ DOMAIN setupAt' = SetupRuns /\ setupStep' \in [SetupRuns -> Steps]
               /\ \A k \in SetupRuns : setupStep'[k] = "remember" => Setup!Active(k)'
               /\ \A r : Creates(r)' = Creates(r) \ {b} /\ Remembers(r)' = Remembers(r) \ {b}
    <2>1. /\ setupAt' = [setupAt EXCEPT ![b] = i] /\ setupStep' = [setupStep EXCEPT ![b] = "look"]
      BY <1>2 DEF Setup!Enter
    <2>2. /\ DOMAIN setupAt' = SetupRuns /\ setupStep' \in [SetupRuns -> Steps]
          /\ setupStep'[b] = "look"
          /\ \A k \in SetupRuns \ {b} : setupAt'[k] = setupAt[k] /\ setupStep'[k] = setupStep[k]
      BY <1>t, <2>1 DEF Steps
    <2>3. \A k \in SetupRuns : setupStep'[k] = "remember" => Setup!Active(k)'
      BY <1>t, <2>2 DEF Setup!Active
    <2>4. \A r : b \notin Creates(r)' /\ b \notin Remembers(r)'
      BY <2>2 DEF Creates, Remembers
    <2> QED BY <2>2, <2>3, <2>4, OthersStay
  <1>3. ASSUME NEW b \in SetupRuns, NEW s \in Steps, NEW d, Turns(b, d, s)
        PROVE  /\ DOMAIN setupAt' = SetupRuns /\ setupStep' \in [SetupRuns -> Steps]
               /\ \A k \in SetupRuns : setupStep'[k] = "remember" => Setup!Active(k)'
               /\ \A r : r # d => Creates(r)' = Creates(r) \ {b} /\ Remembers(r)' = Remembers(r) \ {b}
               /\ s = "create" => /\ Creates(d)' = Creates(d) \cup {b}
                                  /\ Remembers(d)' = Remembers(d) \ {b}
               /\ s = "remember" => /\ Creates(d)' = Creates(d) \ {b}
                                    /\ Remembers(d)' = Remembers(d) \cup {b}
    <2>1. /\ Setup!Active(b) /\ d = Its(b) /\ s # "look"
          /\ setupAt' = setupAt /\ setupStep' = [setupStep EXCEPT ![b] = s]
      BY <1>3 DEF Turns
    <2>2. /\ DOMAIN setupAt' = SetupRuns /\ setupStep' \in [SetupRuns -> Steps]
          /\ setupStep'[b] = s
          /\ \A k \in SetupRuns \ {b} : setupAt'[k] = setupAt[k] /\ setupStep'[k] = setupStep[k]
      BY <1>t, <2>1
    <2>3. \A k \in SetupRuns : setupStep'[k] = "remember" => Setup!Active(k)'
      BY <1>t, <2>1, <2>2 DEF Setup!Active
    <2>4. Its(b)' = d /\ Setup!Active(b)'
      BY <2>1 DEF Its, Setup!Active
    <2>5. \A r : /\ b \in Creates(r)' <=> (s = "create" /\ r = d)
                 /\ b \in Remembers(r)' <=> (s = "remember" /\ r = d)
      BY <2>2, <2>4 DEF Creates, Remembers
    <2>6. \A r : Creates(r)' \ {b} = Creates(r) \ {b} /\ Remembers(r)' \ {b} = Remembers(r) \ {b}
      BY <2>2, OthersStay
    <2>7. \A r : r # d => Creates(r)' = Creates(r) \ {b} /\ Remembers(r)' = Remembers(r) \ {b}
      BY <2>5, <2>6
    <2>8. s = "create" => b \in Creates(d)' /\ b \notin Remembers(d)'
      BY <2>5
    <2>9. s = "remember" => b \notin Creates(d)' /\ b \in Remembers(d)'
      BY <2>5
    <2>10. /\ Creates(d)' \ {b} = Creates(d) \ {b}
           /\ Remembers(d)' \ {b} = Remembers(d) \ {b}
      BY <2>6
    <2>11. s = "create" => /\ Creates(d)' = Creates(d) \cup {b}
                           /\ Remembers(d)' = Remembers(d) \ {b}
      BY <2>8, <2>10
    <2>12. s = "remember" => /\ Creates(d)' = Creates(d) \ {b}
                             /\ Remembers(d)' = Remembers(d) \cup {b}
      BY <2>9, <2>10
    <2> QED BY <2>2, <2>3, <2>7, <2>11, <2>12
  <1>f. \A r : /\ \A b : Cardinality(Creates(r) \ {b}) = Cardinality(Creates(r))
                         \/ (b \in Creates(r) /\ Cardinality(Creates(r) \ {b}) = Cardinality(Creates(r)) - 1)
               /\ \A b : Cardinality(Remembers(r) \ {b}) = Cardinality(Remembers(r))
                         \/ (b \in Remembers(r) /\ Cardinality(Remembers(r) \ {b}) = Cardinality(Remembers(r)) - 1)
    <2>1. ASSUME NEW S, IsFiniteSet(S), NEW b
          PROVE  Cardinality(S \ {b}) = Cardinality(S) \/ (b \in S /\ Cardinality(S \ {b}) = Cardinality(S) - 1)
      <3>1. CASE b \in S
        BY <2>1, <3>1, Leaves
      <3>2. CASE b \notin S
        <4>1. S \ {b} = S
          BY <3>2
        <4>2. Cardinality(S \ {b}) = Cardinality(S)
          BY <4>1, Zenon
        <4> QED BY <4>2, Zenon
      <3> QED BY <3>1, <3>2
    <2> QED BY <2>1, RunsCount
  <1>4. ASSUME NEW b \in SetupRuns, Setup!Start(b) PROVE SetupInv'
    <2>1. PICK i : Setup!Enter(b, i)
      BY <1>4 DEF Setup!Start
    <2>2. /\ setupStep[b] # "remember"
          /\ UNCHANGED <<setupKnown, setupMade, setupRaces, setupFailures>> /\ setupAt[b] = 0
      BY <1>t, <1>4 DEF Setup!Start, Setup!Active
    <2>3. \A r : Creates(r)' = Creates(r) /\ Remembers(r)' = Remembers(r)
      BY <1>2, <2>1, <2>2 DEF Creates, Remembers, Setup!Active
    <2> QED BY <1>2, <2>1, <2>2, <2>3 DEF SetupInv
  <1>5. ASSUME NEW b \in SetupRuns, Setup!LookUp(b) PROVE SetupInv'
    <2>1. Setup!Active(b) /\ setupStep[b] = "look" /\ UNCHANGED <<setupKnown, setupMade, setupFailures>>
      BY <1>5 DEF Setup!LookUp
    <2>2. PICK r \in Setup!Resources : r = Its(b)
      BY <1>r, <2>1
    <2>3. \A q : b \notin Creates(q) /\ b \notin Remembers(q)
      BY <2>1 DEF Creates, Remembers
    <2>4. CASE r \in setupKnown
      <3>1. \E i : Setup!Enter(b, i) /\ setupRaces' = setupRaces
        BY <1>5, <2>2, <2>4 DEF Setup!LookUp, Its
      <3>2. \A q : Creates(q)' = Creates(q) /\ Remembers(q)' = Remembers(q)
        BY <1>2, <2>3, <3>1
      <3> QED BY <1>2, <2>1, <3>1, <3>2 DEF SetupInv
    <2>5. CASE r \notin setupKnown
      <3>1. /\ setupStep' = [setupStep EXCEPT ![b] = "create"] /\ setupAt' = setupAt
            /\ setupRaces' = [setupRaces EXCEPT ![r] = @ + Setup!Cardinality(Setup!Creating(r))]
        BY <1>5, <2>2, <2>5 DEF Setup!LookUp, Its
      <3> DEFINE n == Cardinality(Creates(r))
                 m == Cardinality(Remembers(r))
                 c == Cardinality(Setup!Creating(r))
      <3>2. Setup!Creating(r) = Creates(r) \cup Remembers(r) /\ Creates(r) \cap Remembers(r) = {}
        BY <1>t DEF Setup!Creating, Creates, Remembers, Steps, Its
      <3>3. c = n + m /\ n \in Nat /\ m \in Nat
        <4>1. IsFiniteSet(Creates(r)) /\ IsFiniteSet(Remembers(r)) /\ n \in Nat /\ m \in Nat
          BY RunsCount
        <4>2. Cardinality({}) = 0
          BY FS_EmptySet
        <4>3. Cardinality(Creates(r) \cup Remembers(r)) =
                Cardinality(Creates(r)) + Cardinality(Remembers(r)) - Cardinality(Creates(r) \cap Remembers(r))
          BY <4>1, FS_Union
        <4>4. Cardinality(Creates(r) \cap Remembers(r)) = 0
          BY <3>2, <4>2, Zenon
        <4>5. c = Cardinality(Creates(r) \cup Remembers(r))
          BY <3>2, Zenon
        <4> QED BY <4>1, <4>3, <4>4, <4>5
      <3>4. setupRaces' = [setupRaces EXCEPT ![r] = @ + c]
        BY <3>1 DEF Setup!Cardinality, Cardinality
      <3> HIDE DEF c, n, m
      <3>5. /\ setupRaces' \in [Setup!Resources -> Nat] /\ setupRaces'[r] = setupRaces[r] + n + m
            /\ \A q \in Setup!Resources \ {r} : setupRaces'[q] = setupRaces[q]
        BY <1>t, <2>2, <3>3, <3>4
      <3>12. Turns(b, r, "create") /\ "create" \in Steps
        BY <2>1, <2>2, <3>1 DEF Turns, Steps
      <3>13. /\ DOMAIN setupAt' = SetupRuns /\ setupStep' \in [SetupRuns -> Steps]
             /\ \A k \in SetupRuns : setupStep'[k] = "remember" => Setup!Active(k)'
             /\ \A q : q # r => Creates(q)' = Creates(q) \ {b} /\ Remembers(q)' = Remembers(q) \ {b}
             /\ Creates(r)' = Creates(r) \cup {b} /\ Remembers(r)' = Remembers(r) \ {b}
        BY <1>3, <3>12
      <3>6. /\ DOMAIN setupAt' = SetupRuns /\ setupStep' \in [SetupRuns -> Steps]
            /\ \A k \in SetupRuns : setupStep'[k] = "remember" => Setup!Active(k)'
            /\ Creates(r)' = Creates(r) \cup {b} /\ Remembers(r)' = Remembers(r)
            /\ \A q : q # r => Creates(q)' = Creates(q) /\ Remembers(q)' = Remembers(q)
        <4>1. Creates(r)' = Creates(r) \cup {b} /\ Remembers(r)' = Remembers(r) \ {b}
          BY <3>13
        <4>2. Remembers(r)' = Remembers(r)
          BY <2>3, <4>1
        <4>3. \A q : q # r => Creates(q)' = Creates(q) /\ Remembers(q)' = Remembers(q)
          BY <2>3, <3>13
        <4> QED BY <3>13, <4>1, <4>2, <4>3
      <3>7. Cardinality(Creates(r)') = n + 1
        BY <2>3, <3>6, Joins, RunsCount DEF n
      <3>8. /\ setupMade[r] + n <= 1 + setupRaces[r] + setupFailures
            /\ setupMade[r] <= m + setupRaces[r] + setupFailures /\ setupMade[r] \in Nat /\ setupRaces[r] \in Nat
        BY <1>t, <2>2, <2>5 DEF SetupInv, n, m
      <3>9. /\ setupMade[r] + (n + 1) <= 1 + (setupRaces[r] + n + m) + setupFailures
            /\ setupMade[r] <= m + (setupRaces[r] + n + m) + setupFailures
        BY <1>t, <3>3, <3>8
      <3>10. /\ setupMade'[r] + Cardinality(Creates(r)') <= 1 + setupRaces'[r] + setupFailures'
             /\ setupMade'[r] <= Cardinality(Remembers(r)') + setupRaces'[r] + setupFailures'
        BY <2>1, <3>5, <3>6, <3>7, <3>9 DEF m
      <3>11. ASSUME NEW q \in Setup!Resources, q # r
             PROVE  /\ setupMade'[q] + Cardinality(Creates(q)') <= 1 + setupRaces'[q] + setupFailures'
                    /\ q \notin setupKnown' =>
                         setupMade'[q] <= Cardinality(Remembers(q)') + setupRaces'[q] + setupFailures'
        BY <2>1, <3>5, <3>6, <3>11 DEF SetupInv
      <3>14. \A q \in Setup!Resources :
               /\ setupMade'[q] + Cardinality(Creates(q)') <= 1 + setupRaces'[q] + setupFailures'
               /\ q \notin setupKnown' =>
                    setupMade'[q] <= Cardinality(Remembers(q)') + setupRaces'[q] + setupFailures'
        BY <3>10, <3>11
      <3> QED BY <1>t, <2>1, <3>5, <3>6, <3>14 DEF SetupInv
    <2> QED BY <2>4, <2>5
  <1>6. ASSUME NEW b \in SetupRuns, NEW i, Setup!Enter(b, i), setupMade' = setupMade, setupRaces' = setupRaces,
               \/ setupKnown' = setupKnown /\ setupFailures' = setupFailures + 1
               \/ setupKnown' = setupKnown /\ setupFailures' = setupFailures /\ setupStep[b] = "create"
               \/ setupKnown' = setupKnown \cup {Its(b)} /\ setupFailures' = setupFailures
                    /\ setupStep[b] = "remember"
        PROVE  SetupInv'
    <2>1. ASSUME NEW r \in Setup!Resources
          PROVE  /\ setupMade[r] + Cardinality(Creates(r)') <= 1 + setupRaces[r] + setupFailures'
                 /\ r \notin setupKnown' =>
                      setupMade[r] <= Cardinality(Remembers(r)') + setupRaces[r] + setupFailures'
      <3> DEFINE n == Cardinality(Creates(r))
                 m == Cardinality(Remembers(r))
                 n1 == Cardinality(Creates(r)')
                 m1 == Cardinality(Remembers(r)')
      <3>1. n \in Nat /\ m \in Nat /\ n1 \in Nat /\ m1 \in Nat
        BY RunsCount
      <3>9. Creates(r)' = Creates(r) \ {b} /\ Remembers(r)' = Remembers(r) \ {b}
        BY <1>2, <1>6
      <3>10. n1 = Cardinality(Creates(r) \ {b}) /\ m1 = Cardinality(Remembers(r) \ {b})
        BY <3>9, Zenon
      <3>11. (n1 = n \/ n1 = n - 1) /\ (m1 = m \/ (b \in Remembers(r) /\ m1 = m - 1))
        BY <1>f, <3>10
      <3>2. n1 <= n /\ (m1 = m \/ (b \in Remembers(r) /\ m1 = m - 1))
        BY <3>1, <3>11
      <3>3. /\ setupMade[r] \in Nat /\ setupRaces[r] \in Nat /\ setupFailures \in Nat
            /\ setupMade[r] + n <= 1 + setupRaces[r] + setupFailures
            /\ r \notin setupKnown => setupMade[r] <= m + setupRaces[r] + setupFailures
        BY DEF SetupInv
      <3>4. setupFailures' = setupFailures \/ setupFailures' = setupFailures + 1
        BY <1>6
      <3>5. r \notin setupKnown' => r \notin setupKnown /\ (m1 = m \/ setupFailures' = setupFailures + 1)
        BY <1>6, <3>2 DEF Remembers
      <3> HIDE DEF n, m, n1, m1
      <3>6. setupMade[r] + n1 <= 1 + setupRaces[r] + setupFailures
        BY <3>1, <3>2, <3>3
      <3>7. setupMade[r] + n1 <= 1 + setupRaces[r] + setupFailures'
        <4>1. CASE setupFailures' = setupFailures
          BY <3>6, <4>1
        <4>2. CASE setupFailures' = setupFailures + 1
          <5>1. setupMade[r] + n1 <= 1 + setupRaces[r] + (setupFailures + 1)
            BY <3>1, <3>3, <3>6
          <5> QED BY <4>2, <5>1
        <4> QED BY <3>4, <4>1, <4>2
      <3>8. ASSUME r \notin setupKnown' PROVE setupMade[r] <= m1 + setupRaces[r] + setupFailures'
        <4>1. CASE setupFailures' = setupFailures
          <5>1. m1 = m
            BY <3>3, <3>5, <3>8, <4>1
          <5> QED BY <3>3, <3>5, <3>8, <4>1, <5>1
        <4>2. CASE setupFailures' = setupFailures + 1
          <5>1. setupMade[r] <= m1 + setupRaces[r] + (setupFailures + 1)
            BY <3>1, <3>2, <3>3, <3>5, <3>8
          <5> QED BY <4>2, <5>1
        <4> QED BY <3>4, <4>1, <4>2
      <3> QED BY <3>7, <3>8 DEF n1, m1
    <2>2. setupFailures' \in Nat
      BY <1>t, <1>6
    <2> QED BY <1>t, <1>2, <1>6, <2>1, <2>2 DEF SetupInv
  <1>7. ASSUME NEW b \in SetupRuns, Setup!VendorRefuses(b) \/ Setup!VoiceDies(b) \/ Setup!RunDies(b)
        PROVE  SetupInv'
    <2>1. \E i : Setup!Enter(b, i)
      BY <1>7 DEF Setup!VendorRefuses, Setup!VoiceDies, Setup!RunDies
    <2> QED BY <1>6, <1>7, <2>1 DEF Setup!VendorRefuses, Setup!VoiceDies, Setup!RunDies, Setup!Fails
  <1>8. ASSUME NEW b \in SetupRuns, Setup!RememberId(b) PROVE SetupInv'
    <2>1. PICK i : Setup!Enter(b, i)
      BY <1>8 DEF Setup!RememberId
    <2> QED BY <1>6, <1>8, <2>1 DEF Setup!RememberId, Its
  <1>9. ASSUME NEW b \in SetupRuns, Setup!InsertRow(b) PROVE SetupInv'
    <2>0. Setup!Active(b)
      BY <1>9 DEF Setup!InsertRow, Setup!CreateAtVendor
    <2>2. PICK r \in Setup!Resources : r = Its(b)
      BY <1>r, <2>0
    <2>1. /\ Setup!Active(b) /\ setupStep[b] = "create" /\ UNCHANGED <<setupRaces, setupFailures>>
          /\ setupMade' = [setupMade EXCEPT ![r] = @ + 1] /\ setupKnown' = setupKnown \cup {r}
          /\ \E i : Setup!Enter(b, i)
      BY <1>9, <2>2 DEF Setup!InsertRow, Setup!Make, Its
    <2>8. \A q : Creates(q)' = Creates(q) \ {b} /\ Remembers(q)' = Remembers(q) \ {b}
      BY <1>2, <2>1
    <2>9. b \in Creates(r) /\ \A q : (q # r => b \notin Creates(q)) /\ b \notin Remembers(q)
      BY <2>1, <2>2 DEF Creates, Remembers
    <2>3. /\ Creates(r)' = Creates(r) \ {b} /\ b \in Creates(r)
          /\ \A q : q # r => Creates(q)' = Creates(q)
          /\ \A q : Remembers(q)' = Remembers(q)
      BY <2>8, <2>9
    <2>4. Cardinality(Creates(r)') = Cardinality(Creates(r)) - 1
      BY <2>3, Leaves, RunsCount
    <2>5. /\ setupMade' \in [Setup!Resources -> Nat] /\ setupMade'[r] = setupMade[r] + 1
          /\ \A q \in Setup!Resources \ {r} : setupMade'[q] = setupMade[q]
      BY <1>t, <2>1, <2>2
    <2>6. setupMade'[r] + Cardinality(Creates(r)') <= 1 + setupRaces[r] + setupFailures
      BY <1>t, <2>2, <2>4, <2>5, RunsCount DEF SetupInv
    <2>7. /\ DOMAIN setupAt' = SetupRuns /\ setupStep' \in [SetupRuns -> Steps]
          /\ \A k \in SetupRuns : setupStep'[k] = "remember" => Setup!Active(k)'
      BY <1>2, <2>1
    <2>10. ASSUME NEW q \in Setup!Resources
           PROVE  /\ setupMade'[q] + Cardinality(Creates(q)') <= 1 + setupRaces'[q] + setupFailures'
                  /\ q \notin setupKnown' =>
                       setupMade'[q] <= Cardinality(Remembers(q)') + setupRaces'[q] + setupFailures'
      <3>1. CASE q = r
        BY <2>1, <2>6, <3>1
      <3>2. CASE q # r
        BY <2>1, <2>3, <2>5, <3>2 DEF SetupInv
      <3> QED BY <3>1, <3>2
    <2> QED BY <1>t, <2>1, <2>5, <2>7, <2>10 DEF SetupInv
  <1>10. ASSUME NEW b \in SetupRuns, Setup!CreateAtVendor(b) PROVE SetupInv'
    <2>0. Setup!Active(b)
      BY <1>10 DEF Setup!InsertRow, Setup!CreateAtVendor
    <2>2. PICK r \in Setup!Resources : r = Its(b)
      BY <1>r, <2>0
    <2>1. /\ Setup!Active(b) /\ setupStep[b] = "create" /\ UNCHANGED <<setupRaces, setupFailures, setupKnown>>
          /\ setupMade' = [setupMade EXCEPT ![r] = @ + 1] /\ setupAt' = setupAt
          /\ setupStep' = [setupStep EXCEPT ![b] = "remember"]
      BY <1>10, <2>2 DEF Setup!CreateAtVendor, Setup!Make, Its
    <2>3. /\ DOMAIN setupAt' = SetupRuns /\ setupStep' \in [SetupRuns -> Steps]
          /\ \A k \in SetupRuns : setupStep'[k] = "remember" => Setup!Active(k)'
          /\ Creates(r)' = Creates(r) \ {b} /\ Remembers(r)' = Remembers(r) \cup {b}
          /\ \A q : q # r => Creates(q)' = Creates(q) \ {b} /\ Remembers(q)' = Remembers(q) \ {b}
      <3>1. Turns(b, r, "remember") /\ "remember" \in Steps
        BY <2>1, <2>2 DEF Turns, Steps
      <3> QED BY <1>3, <3>1
    <2>4. /\ b \in Creates(r) /\ b \notin Remembers(r)
          /\ \A q : q # r => b \notin Creates(q) /\ b \notin Remembers(q)
      BY <2>1, <2>2 DEF Creates, Remembers
    <2>5. \A q : q # r => Creates(q)' = Creates(q) /\ Remembers(q)' = Remembers(q)
      BY <2>3, <2>4
    <2>6. /\ Cardinality(Creates(r)') = Cardinality(Creates(r)) - 1
          /\ Cardinality(Remembers(r)') = Cardinality(Remembers(r)) + 1
      BY <2>3, <2>4, Joins, Leaves, RunsCount
    <2>7. /\ setupMade' \in [Setup!Resources -> Nat] /\ setupMade'[r] = setupMade[r] + 1
          /\ \A q \in Setup!Resources \ {r} : setupMade'[q] = setupMade[q]
      BY <1>t, <2>1, <2>2
    <2>8. setupMade'[r] + Cardinality(Creates(r)') <= 1 + setupRaces[r] + setupFailures
      BY <1>t, <2>2, <2>6, <2>7, RunsCount DEF SetupInv
    <2>9. r \notin setupKnown =>
            setupMade'[r] <= Cardinality(Remembers(r)') + setupRaces[r] + setupFailures
      BY <1>t, <2>2, <2>6, <2>7, RunsCount DEF SetupInv
    <2>10. ASSUME NEW q \in Setup!Resources
           PROVE  /\ setupMade'[q] + Cardinality(Creates(q)') <= 1 + setupRaces'[q] + setupFailures'
                  /\ q \notin setupKnown' =>
                       setupMade'[q] <= Cardinality(Remembers(q)') + setupRaces'[q] + setupFailures'
      <3>1. CASE q = r
        BY <2>1, <2>8, <2>9, <3>1
      <3>2. CASE q # r
        BY <2>1, <2>5, <2>7, <3>2 DEF SetupInv
      <3> QED BY <3>1, <3>2
    <2> QED BY <1>t, <2>1, <2>3, <2>7, <2>10 DEF SetupInv
  <1> QED BY <1>1, <1>4, <1>5, <1>7, <1>8, <1>9, <1>10 DEF Setup!Next

LEMMA ProvisionedHeld == SetupInv => Setup!ProvisionedOnce
  <1> SUFFICES ASSUME SetupInv, NEW r \in Setup!Resources
               PROVE  setupMade[r] <= 1 + setupRaces[r] + setupFailures
    BY DEF Setup!ProvisionedOnce
  <1>1. /\ setupMade[r] \in Nat /\ setupRaces[r] \in Nat /\ setupFailures \in Nat
        /\ setupMade[r] + Cardinality(Creates(r)) <= 1 + setupRaces[r] + setupFailures
    BY DEF SetupInv
  <1> QED BY <1>1, RunsCount

-----------------------------------------------------------------------------
(* The numbers of quotes. The look-up takes the greatest number as a      *)
(* string, which is not the greatest number once there are numbers with a *)
(* digit more: until then the number it goes on to is free, and a request *)
(* is refused only if another that overlapped it was inserted first.      *)
LEMMA GreatestOf ==
  ASSUME NEW S \in SUBSET Nat, S # {}, NEW M \in Nat, \A n \in S : n <= M
  PROVE  \E n \in S : \A m \in S : m <= n
  <1> DEFINE D == {k \in Nat : \E n \in S : k = M - n}
  <1>1. \A n \in S : M - n \in D
    OBVIOUS
  <1>2. D \in SUBSET Nat /\ D # {}
    BY <1>1
  <1>3. PICK d \in D : \A e \in D : d <= e
    BY <1>2, LeastOf
  <1>4. PICK n \in S : d = M - n
    BY <1>3
  <1>5. ASSUME NEW m \in S PROVE m <= n
    <2>1. M - m \in D
      BY <1>1
    <2> QED BY <1>3, <1>4, <2>1
  <1> QED BY <1>4, <1>5

LEMMA DivGrows ==
  ASSUME NEW d \in Nat \ {0}, NEW m \in Nat, NEW n \in Nat, m <= n
  PROVE  m \div d <= n \div d /\ m \div d \in Nat /\ n \div d \in Nat
  OBVIOUS

(* The order of the numbers as strings has a greatest element in every set of *)
(* numbers that has any.                                                      *)
LEMMA GreatestExists ==
  ASSUME numbersTaken \in SUBSET Nat, numbersTaken # {}, NEW M \in Nat, \A n \in numbersTaken : n <= M
  PROVE  /\ Numbers!Greatest \in numbersTaken
         /\ \A m \in numbersTaken : m = Numbers!Greatest \/ Numbers!StringLess(m, Numbers!Greatest)
  <1>b. NumbersLimit \in Nat /\ NumbersBase \in Nat \ {0}
    BY ServicesBounds
  <1> SUFFICES \E n \in numbersTaken : \A m \in numbersTaken : m = n \/ Numbers!StringLess(m, n)
    BY DEF Numbers!Greatest
  <1> DEFINE A == {n \in numbersTaken : n < NumbersLimit}
             B == {n \in numbersTaken : n >= NumbersLimit}
  <1>5. \A m \in numbersTaken : m \in Nat
    OBVIOUS
  <1>6. A \in SUBSET Nat /\ B \in SUBSET Nat
    BY <1>5
  <1>7. \A m \in numbersTaken : m < NumbersLimit \/ m >= NumbersLimit
    BY <1>b, <1>5
  <1>8. \A m \in numbersTaken : m \in A \/ m \in B
    BY <1>7
  <1>1. /\ A \in SUBSET Nat /\ B \in SUBSET Nat
        /\ \A m \in numbersTaken : m \in A \/ m \in B
    BY <1>6, <1>8
  <1>2. CASE B = {}
    <2>1. PICK a \in numbersTaken : \A m \in numbersTaken : m <= a
      BY GreatestOf
    <2>2. \A m \in numbersTaken : m < NumbersLimit
      BY <1>b, <1>2
    <2> QED BY <2>1, <2>2, <1>b DEF Numbers!StringLess
  <1>3. CASE A = {}
    <2>1. PICK a \in numbersTaken : \A m \in numbersTaken : m <= a
      BY GreatestOf
    <2>2. \A m \in numbersTaken : m >= NumbersLimit
      BY <1>b, <1>3
    <2> QED BY <2>1, <2>2, <1>b DEF Numbers!StringLess
  <1>4. CASE A # {} /\ B # {}
    <2>1. PICK a \in A : \A m \in A : m <= a
      BY <1>1, <1>4, GreatestOf
    <2>2. PICK b \in B : \A m \in B : m <= b
      BY <1>1, <1>4, GreatestOf
    <2>3. a \in Nat /\ b \in Nat /\ b \div NumbersBase \in Nat
      BY <1>1, <1>b, DivGrows
    <2>4. CASE a <= b \div NumbersBase
      <3>1. ASSUME NEW m \in numbersTaken PROVE m = b \/ Numbers!StringLess(m, b)
        <4>1. CASE m \in A
          BY <1>b, <2>1, <2>2, <2>3, <2>4, <4>1 DEF Numbers!StringLess
        <4>2. CASE m \in B
          BY <1>b, <2>2, <2>3, <4>2 DEF Numbers!StringLess
        <4> QED BY <1>1, <4>1, <4>2
      <3> QED BY <3>1
    <2>5. CASE b \div NumbersBase < a
      <3>1. ASSUME NEW m \in numbersTaken PROVE m = a \/ Numbers!StringLess(m, a)
        <4>1. CASE m \in A
          BY <1>b, <2>1, <2>3, <4>1 DEF Numbers!StringLess
        <4>2. CASE m \in B
          <5>1. m \in Nat /\ m <= b /\ m >= NumbersLimit /\ a < NumbersLimit
            BY <2>1, <2>2, <4>2
          <5>2. m \div NumbersBase <= b \div NumbersBase /\ m \div NumbersBase \in Nat
            BY <5>1, <2>3, <1>b, DivGrows
          <5>3. m \div NumbersBase < a
            BY <5>2, <2>3, <2>5
          <5> QED BY <1>b, <2>3, <5>1, <5>3 DEF Numbers!StringLess
        <4> QED BY <1>1, <4>1, <4>2
      <3> QED BY <2>1, <3>1
    <2> QED BY <2>3, <2>4, <2>5
  <1> QED BY <1>2, <1>3, <1>4

(* The look-up does not settle on a number with four digits that is taken. *)
LEMMA NextIsFree ==
  ASSUME numbersTaken \in SUBSET Nat, NEW M \in Nat, \A n \in numbersTaken : n <= M
  PROVE  /\ Numbers!NextQuoteNumber \in Nat
         /\ Numbers!NextQuoteNumber \in numbersTaken => Numbers!NextQuoteNumber >= NumbersLimit
  <1>b. NumbersLimit \in Nat /\ NumbersBase \in Nat \ {0}
    BY ServicesBounds
  <1>1. CASE numbersTaken = {}
    BY <1>1 DEF Numbers!NextQuoteNumber
  <1>2. CASE numbersTaken # {}
    <2> DEFINE g == Numbers!Greatest
    <2>1. g \in Nat /\ \A m \in numbersTaken : m = g \/ Numbers!StringLess(m, g)
      BY <1>2, GreatestExists
    <2>2. Numbers!NextQuoteNumber = g + 1
      BY <1>2 DEF Numbers!NextQuoteNumber
    <2> HIDE DEF g
    <2>3. ASSUME g + 1 \in numbersTaken, g + 1 < NumbersLimit PROVE FALSE
      <3>1. Numbers!StringLess(g + 1, g)
        BY <2>1, <2>3
      <3> QED BY <3>1, <2>1, <2>3, <1>b DEF Numbers!StringLess
    <2> QED BY <1>b, <2>1, <2>2, <2>3
  <1> QED BY <1>1, <1>2

(* While nothing has been inserted since requests began to overlap, every one of *)
(* them has a number that is free.                                               *)
Fresh == \A q \in Numbers!Inserting :
           numbersNumber[q] \in numbersTaken => numbersNumber[q] >= NumbersLimit

NumbersInv ==
  /\ numbersTaken \in SUBSET Nat /\ \E M \in Nat : \A n \in numbersTaken : n <= M
  /\ numbersNumber \in [NumbersCreates -> Nat] /\ DOMAIN numbersCreate = NumbersCreates
  /\ numbersOverlaps \in Nat /\ numbersEarly \in Nat
  /\ \/ numbersEarly + Cardinality(Numbers!Inserting) <= numbersOverlaps
     \/ /\ numbersEarly + Cardinality(Numbers!Inserting) <= numbersOverlaps + 1
        /\ Numbers!Inserting # {} /\ Fresh

LEMMA InsertingIsFinite ==
  /\ IsFiniteSet(Numbers!Inserting) /\ Cardinality(Numbers!Inserting) \in Nat
  /\ IsFiniteSet(Numbers!Inserting') /\ Cardinality(Numbers!Inserting') \in Nat
  <1>1. IsFiniteSet(NumbersCreates)
    BY ServicesBounds
  <1>2. Numbers!Inserting \subseteq NumbersCreates /\ Numbers!Inserting' \subseteq NumbersCreates
    BY DEF Numbers!Inserting
  <1> QED BY <1>1, <1>2, FS_Subset, FS_CardinalityType

LEMMA InitNumbersInv == Numbers!Init => NumbersInv
  <1> SUFFICES ASSUME Numbers!Init PROVE NumbersInv
    OBVIOUS
  <1>1. PICK n \in 0..NumbersLimit : numbersTaken = 1..n
    BY DEF Numbers!Init
  <1>2. numbersTaken \in SUBSET Nat /\ n \in Nat /\ \A m \in numbersTaken : m <= n
    BY <1>1, ServicesBounds
  <1>3. Numbers!Inserting = {}
    BY DEF Numbers!Init, Numbers!Inserting
  <1>4. Cardinality(Numbers!Inserting) = 0
    BY <1>3, FS_EmptySet
  <1>5. numbersEarly = 0 /\ numbersOverlaps = 0
    BY DEF Numbers!Init
  <1>6. numbersNumber \in [NumbersCreates -> Nat] /\ DOMAIN numbersCreate = NumbersCreates
    BY DEF Numbers!Init
  <1>7. \E M \in Nat : \A m \in numbersTaken : m <= M
    BY <1>2
  <1>8. numbersEarly + Cardinality(Numbers!Inserting) <= numbersOverlaps
    BY <1>4, <1>5
  <1>9. numbersEarly \in Nat /\ numbersOverlaps \in Nat
    BY <1>5
  <1> QED BY <1>2, <1>6, <1>7, <1>8, <1>9 DEF NumbersInv

LEMMA NextNumbersInv ==
  ASSUME NumbersInv, Numbers!Next \/ UNCHANGED numbersVars
  PROVE  NumbersInv'
  <1>b. NumbersLimit \in Nat /\ NumbersBase \in Nat \ {0}
    BY ServicesBounds
  <1> DEFINE I == Cardinality(Numbers!Inserting)
             J == Cardinality(Numbers!Inserting')
  <1>c. I \in Nat /\ J \in Nat
    BY InsertingIsFinite
  <1>t. /\ numbersTaken \in SUBSET Nat /\ \E M \in Nat : \A n \in numbersTaken : n <= M
        /\ numbersNumber \in [NumbersCreates -> Nat] /\ DOMAIN numbersCreate = NumbersCreates
        /\ numbersOverlaps \in Nat /\ numbersEarly \in Nat
    BY DEF NumbersInv
  <1>i. \/ numbersEarly + I <= numbersOverlaps
        \/ numbersEarly + I <= numbersOverlaps + 1 /\ Numbers!Inserting # {} /\ Fresh
    BY DEF NumbersInv
  <1>g. ASSUME NEW q \in NumbersCreates, Numbers!Inserting' = Numbers!Inserting \ {q},
               q \in Numbers!Inserting
        PROVE  J = I - 1
    BY <1>g, InsertingIsFinite, FS_RemoveElement
  <1> HIDE DEF I, J
  <1>1. CASE UNCHANGED numbersVars
    BY <1>1 DEF numbersVars, NumbersInv, Numbers!Inserting, Fresh
  <1>2. ASSUME NEW q \in NumbersCreates, Numbers!Read(q) PROVE NumbersInv'
    <2> DEFINE n == Numbers!NextQuoteNumber
    <2>1. n \in Nat /\ (n \in numbersTaken => n >= NumbersLimit)
      BY <1>t, NextIsFree
    <2>2. /\ numbersNumber' = [numbersNumber EXCEPT ![q] = n] /\ numbersCreate[q] = "read"
          /\ numbersCreate' = [numbersCreate EXCEPT ![q] = "insert"]
          /\ numbersOverlaps' = numbersOverlaps + I
          /\ numbersTaken' = numbersTaken /\ numbersEarly' = numbersEarly
      BY <1>2 DEF Numbers!Read, Numbers!Cardinality, Cardinality, I
    <2> HIDE DEF n
    <2>3. Numbers!Inserting' = Numbers!Inserting \cup {q} /\ q \notin Numbers!Inserting
      BY <1>t, <2>2 DEF Numbers!Inserting
    <2>4. J = I + 1
      BY <2>3, InsertingIsFinite, FS_AddElement DEF I, J
    <2>5. numbersNumber' \in [NumbersCreates -> Nat] /\ DOMAIN numbersCreate' = NumbersCreates
      BY <1>t, <2>1, <2>2
    <2>6. Fresh => Fresh'
      BY <1>t, <2>1, <2>2, <2>3 DEF Fresh, Numbers!Inserting
    <2>7. Numbers!Inserting = {} => Fresh
      BY DEF Fresh
    <2>8. (Numbers!Inserting = {} => I = 0) /\ (Numbers!Inserting # {} => I >= 1)
      BY InsertingIsFinite, FS_EmptySet DEF I
    <2>9. Numbers!Inserting' # {} /\ numbersOverlaps' \in Nat
      BY <1>c, <1>t, <2>2, <2>3
    <2>10. \/ numbersEarly' + J <= numbersOverlaps'
           \/ numbersEarly' + J <= numbersOverlaps' + 1 /\ Fresh'
      <3>1. CASE Numbers!Inserting = {}
        BY <1>c, <1>t, <1>i, <2>2, <2>4, <2>6, <2>7, <2>8, <3>1
      <3>2. CASE Numbers!Inserting # {}
        BY <1>c, <1>t, <1>i, <2>2, <2>4, <2>6, <2>8, <3>2
      <3> QED BY <3>1, <3>2
    <2> QED BY <1>t, <2>2, <2>5, <2>9, <2>10 DEF NumbersInv, J
  <1>3. ASSUME NEW q \in NumbersCreates, Numbers!Insert(q) PROVE NumbersInv'
    <2>1. /\ numbersCreate[q] = "insert" /\ numbersNumber' = numbersNumber
          /\ numbersOverlaps' = numbersOverlaps /\ q \in Numbers!Inserting
      BY <1>3 DEF Numbers!Insert, Numbers!Inserting
    <2>2. numbersCreate' = [numbersCreate EXCEPT ![q] = "refused"]
          \/ numbersCreate' = [numbersCreate EXCEPT ![q] = "made"]
      BY <1>3 DEF Numbers!Insert
    <2>3. Numbers!Inserting' = Numbers!Inserting \ {q} /\ DOMAIN numbersCreate' = NumbersCreates
      BY <1>t, <2>2 DEF Numbers!Inserting
    <2>4. J = I - 1
      BY <1>g, <2>1, <2>3
    <2>5. CASE numbersNumber[q] \in numbersTaken
      <3>1. numbersTaken' = numbersTaken
        BY <1>3, <2>5 DEF Numbers!Insert
      <3>2. \/ numbersEarly' = numbersEarly
            \/ numbersEarly' = numbersEarly + 1 /\ \A n \in numbersTaken : n < NumbersLimit
        BY <1>3, <2>5 DEF Numbers!Insert
      <3>3. Fresh => numbersNumber[q] >= NumbersLimit
        BY <2>1, <2>5 DEF Fresh
      <3>4. Fresh => numbersEarly' = numbersEarly
        BY <1>b, <1>t, <2>5, <3>2, <3>3
      <3>5. numbersEarly' \in Nat /\ numbersEarly' <= numbersEarly + 1
        BY <1>t, <3>2
      <3>6. numbersEarly' + J <= numbersOverlaps'
        <4>1. CASE numbersEarly + I <= numbersOverlaps
          <5>1. \A k \in Nat : k <= numbersEarly + 1 => k + (I - 1) <= numbersOverlaps
            BY <1>c, <1>t, <4>1
          <5> QED BY <2>1, <2>4, <3>5, <5>1
        <4>2. CASE numbersEarly + I <= numbersOverlaps + 1 /\ Fresh
          BY <1>c, <1>t, <2>1, <2>4, <3>4, <4>2
        <4> QED BY <1>i, <4>1, <4>2
      <3> QED BY <1>t, <2>1, <2>3, <3>1, <3>5, <3>6 DEF NumbersInv, J
    <2>6. CASE numbersNumber[q] \notin numbersTaken
      <3>1. numbersTaken' = numbersTaken \cup {numbersNumber[q]} /\ numbersEarly' = numbersEarly
        BY <1>3, <2>6 DEF Numbers!Insert
      <3>2. PICK M \in Nat : \A n \in numbersTaken : n <= M
        BY <1>t
      <3>3. numbersNumber[q] \in Nat /\ numbersTaken' \in SUBSET Nat
        BY <1>t, <3>1
      <3>4. \E K \in Nat : \A n \in numbersTaken' : n <= K
        <4>1. M + numbersNumber[q] \in Nat
          BY <3>2, <3>3
        <4>2. \A n \in numbersTaken' : n <= M + numbersNumber[q]
          BY <1>t, <3>1, <3>2, <3>3
        <4> QED BY <4>1, <4>2
      <3>5. numbersEarly' + J <= numbersOverlaps'
        BY <1>c, <1>t, <1>i, <2>1, <2>4, <3>1
      <3> QED BY <1>t, <2>1, <2>3, <3>1, <3>3, <3>4, <3>5 DEF NumbersInv, J
    <2> QED BY <2>5, <2>6
  <1>4. ASSUME NEW q \in NumbersCreates, Numbers!DeleteDraft(q) PROVE NumbersInv'
    <2>1. /\ numbersTaken' \subseteq numbersTaken /\ numbersCreate[q] = "made"
          /\ numbersCreate' = [numbersCreate EXCEPT ![q] = "deleted"]
          /\ numbersNumber' = numbersNumber /\ numbersOverlaps' = numbersOverlaps /\ numbersEarly' = numbersEarly
      BY <1>4 DEF Numbers!DeleteDraft
    <2>2. Numbers!Inserting' = Numbers!Inserting /\ DOMAIN numbersCreate' = NumbersCreates
      BY <1>t, <2>1 DEF Numbers!Inserting
    <2>3. J = I /\ (Fresh => Fresh')
      BY <2>1, <2>2 DEF I, J, Fresh
    <2> QED BY <1>t, <1>i, <2>1, <2>2, <2>3 DEF NumbersInv, I, J
  <1> QED BY <1>1, <1>2, <1>3, <1>4 DEF Numbers!Next

LEMMA RefusedHeld == NumbersInv => Numbers!RefusedOnlyByRaces
  <1> SUFFICES ASSUME NumbersInv PROVE Numbers!RefusedOnlyByRaces
    OBVIOUS
  <1>1. Cardinality(Numbers!Inserting) \in Nat /\ (Numbers!Inserting # {} => Cardinality(Numbers!Inserting) >= 1)
    BY InsertingIsFinite, FS_EmptySet
  <1>2. numbersEarly \in Nat /\ numbersOverlaps \in Nat
    BY DEF NumbersInv
  <1> QED BY <1>1, <1>2 DEF NumbersInv, Numbers!RefusedOnlyByRaces

(* An imported address gets one contact, a bootstrapped resource is      *)
(* created once and a quote gets a number of its own, but for those that *)
(* looked it up while another was about to create it, for any number of  *)
(* jobs, runs and requests (import-processor.ts:72-95, icrv-voice        *)
(* index.ts:278-420, quotes.ts:283).                                     *)
THEOREM RowsAreCreatedOnce == Spec => []CreatedOnce
  <1>1. Init => ContactsInv /\ SetupInv /\ NumbersInv
    BY InitContactsInv, InitSetupInv, InitNumbersInv DEF Init
  <1>2. ContactsInv /\ SetupInv /\ NumbersInv /\ [Next]_vars => ContactsInv' /\ SetupInv' /\ NumbersInv'
    BY NextContactsInv, NextSetupInv, NextNumbersInv, StepOfPart
  <1>3. ContactsInv /\ SetupInv /\ NumbersInv => CreatedOnce
    BY OneContactHeld, ProvisionedHeld, RefusedHeld DEF CreatedOnce
  <1> QED BY <1>1, <1>2, <1>3, PTL DEF Spec

-----------------------------------------------------------------------------
(* The score of a contact. A scorer that has read since the last change *)
(* has read what the tables say; one that began before the latest score *)
(* was written is marked as overtaken.                                  *)
(* What a scorer has read since the last change is what the tables say. *)
Seen(s) ==
  LET f == scoringScorer[s].seen IN
  scoringScorer[s].at # "idle" /\ scoringScorer[s].since = scoringVersion =>
    /\ f.tags = scoringFacts.tags /\ f.demography = scoringFacts.demography
    /\ scoringScorer[s].at \in {"replies", "recent", "write"} =>
         f.opens = scoringFacts.opens /\ f.clicks = scoringFacts.clicks
    /\ scoringScorer[s].at \in {"recent", "write"} => f.replies = scoringFacts.replies
    /\ scoringScorer[s].at = "write" => f.recent = scoringFacts.recent

FactFields == [opens : Nat, clicks : Nat, replies : Nat, recent : BOOLEAN, demography : Nat, tags : Nat]
ScorerStages == {"idle", "events", "replies", "recent", "write"}

ScoringInv ==
  /\ scoringFacts \in FactFields /\ scoringVersion \in Nat /\ scoringLatest \in 0..scoringVersion
  /\ scoringScorer \in [ScoringScorers -> [at : ScorerStages, seen : FactFields, since : Nat, over : BOOLEAN]]
  /\ scoringCrossed \in BOOLEAN
  /\ \A s \in ScoringScorers :
       /\ scoringScorer[s].since <= scoringVersion
       /\ Seen(s)
       /\ scoringScorer[s].at # "idle" /\ scoringScorer[s].since < scoringLatest => scoringScorer[s].over
  /\ Scoring!ScoreSettles

LEMMA FactsChange ==
  ASSUME NEW f \in FactFields, NEW n \in Nat, NEW d \in Nat, NEW b \in BOOLEAN
  PROVE  /\ [f EXCEPT !.opens = n, !.recent = b] \in FactFields
         /\ [f EXCEPT !.clicks = n, !.recent = b] \in FactFields
         /\ [f EXCEPT !.tags = n, !.demography = d] \in FactFields
  <1>2. [f EXCEPT !.opens = n, !.recent = b] \in FactFields
    BY DEF FactFields
  <1>3. [f EXCEPT !.clicks = n, !.recent = b] \in FactFields
    BY DEF FactFields
  <1>4. [f EXCEPT !.tags = n, !.demography = d] \in FactFields
    BY DEF FactFields
  <1> QED BY <1>2, <1>3, <1>4

LEMMA InitScoringInv == Scoring!Init => ScoringInv
  <1> SUFFICES ASSUME Scoring!Init PROVE ScoringInv
    OBVIOUS
  <1>1. Scoring!NoFacts \in FactFields /\ Scoring!OpenedOnce \in FactFields
    BY DEF Scoring!NoFacts, Scoring!OpenedOnce, FactFields
  <1>2. scoringFacts \in FactFields /\ scoringVersion = 0 /\ scoringLatest = 0 /\ scoringCrossed = FALSE
    BY <1>1 DEF Scoring!Init
  <1>3. /\ Scoring!Idle \in [at : ScorerStages, seen : FactFields, since : Nat, over : BOOLEAN]
        /\ Scoring!Idle.at = "idle" /\ Scoring!Idle.since = 0
    BY <1>1 DEF Scoring!Idle, ScorerStages
  <1>4. /\ scoringScorer \in [ScoringScorers -> [at : ScorerStages, seen : FactFields, since : Nat, over : BOOLEAN]]
        /\ \A s \in ScoringScorers : scoringScorer[s].at = "idle" /\ scoringScorer[s].since = 0
    BY <1>3 DEF Scoring!Init
  <1>5. \A s \in ScoringScorers : Seen(s)
    BY <1>4 DEF Seen
  <1>6. Scoring!ScoreSettles
    BY DEF Scoring!Init, Scoring!ScoreSettles
  <1>7. scoringVersion \in Nat /\ scoringLatest \in 0..scoringVersion
    BY <1>2
  <1>9. scoringCrossed \in BOOLEAN
    BY <1>2, Zenon
  <1>8. \A s \in ScoringScorers : scoringScorer[s].since <= scoringVersion /\ scoringScorer[s].at = "idle"
    BY <1>2, <1>4
  <1> QED BY <1>2, <1>4, <1>5, <1>6, <1>7, <1>8, <1>9 DEF ScoringInv

LEMMA NextScoringInv ==
  ASSUME ScoringInv, Scoring!Next \/ UNCHANGED scoringVars
  PROVE  ScoringInv'
  <1> ScoringTagSums \subseteq Nat
    BY ServicesBounds
  <1>1. CASE UNCHANGED scoringVars
    BY <1>1 DEF scoringVars, ScoringInv, Seen, Scoring!ScoreSettles
  <1>2. ASSUME NEW f \in FactFields, Scoring!Changed(f) PROVE ScoringInv'
    <2>1. /\ scoringVersion' = scoringVersion + 1 /\ scoringFacts' = f
          /\ UNCHANGED <<scoringScorer, scoringRow, scoringLatest, scoringCrossed>>
      BY <1>2 DEF Scoring!Changed
    <2>2. \A s \in ScoringScorers : scoringScorer[s].since # scoringVersion'
      BY <2>1 DEF ScoringInv
    <2>3. \A s \in ScoringScorers : Seen(s)'
      BY <2>1, <2>2 DEF Seen
    <2>4. Scoring!ScoreSettles'
      BY <2>1 DEF ScoringInv, Scoring!ScoreSettles
    <2> QED BY <2>1, <2>3, <2>4 DEF ScoringInv
  <1>3. ASSUME Scoring!OpenEvent \/ Scoring!ClickEvent \/ Scoring!ReplyEvent \/ Scoring!WeekGoesBy
               \/ Scoring!EditContact
        PROVE  \E f \in FactFields : Scoring!Changed(f)
    <2>1. CASE Scoring!OpenEvent
      <3>1. scoringFacts \in FactFields
        BY DEF ScoringInv
      <3>2. scoringFacts.opens + 1 \in Nat
        BY <3>1 DEF FactFields
      <3>3. [scoringFacts EXCEPT !.opens = @ + 1, !.recent = TRUE] \in FactFields
        BY <3>1, <3>2, FactsChange
      <3> QED BY <2>1, <3>3 DEF Scoring!OpenEvent
    <2>2. CASE Scoring!ClickEvent
      <3>1. scoringFacts \in FactFields
        BY DEF ScoringInv
      <3>2. scoringFacts.clicks + 1 \in Nat
        BY <3>1 DEF FactFields
      <3>3. [scoringFacts EXCEPT !.clicks = @ + 1, !.recent = TRUE] \in FactFields
        BY <3>1, <3>2, FactsChange
      <3> QED BY <2>2, <3>3 DEF Scoring!ClickEvent
    <2>3. CASE Scoring!ReplyEvent
      BY <2>3 DEF Scoring!ReplyEvent, ScoringInv, FactFields
    <2>4. CASE Scoring!WeekGoesBy
      BY <2>4 DEF Scoring!WeekGoesBy, ScoringInv, FactFields
    <2>5. CASE Scoring!EditContact
      <3>1. scoringFacts \in FactFields
        BY DEF ScoringInv
      <3>2. PICK t \in ScoringTagSums, d \in {14, 25} :
              Scoring!Changed([scoringFacts EXCEPT !.tags = t, !.demography = d])
        BY <2>5 DEF Scoring!EditContact
      <3>3. [scoringFacts EXCEPT !.tags = t, !.demography = d] \in FactFields
        BY <3>1, FactsChange
      <3> QED BY <3>2, <3>3
    <2> QED BY <1>3, <2>1, <2>2, <2>3, <2>4, <2>5
  <1>4. ASSUME NEW s \in ScoringScorers, NEW r, r.at # "idle", r.since <= scoringVersion,
               r \in [at : ScorerStages, seen : FactFields, since : Nat, over : BOOLEAN],
               r.since < scoringLatest => r.over,
               scoringScorer' = [scoringScorer EXCEPT ![s] = r], Seen(s)',
               UNCHANGED <<scoringFacts, scoringVersion, scoringRow, scoringLatest, scoringCrossed>>
        PROVE  ScoringInv'
    <2>1. \A o \in ScoringScorers : scoringScorer'[o] = IF o = s THEN r ELSE scoringScorer[o]
      BY <1>4 DEF ScoringInv
    <2>2. \A o \in ScoringScorers : Seen(o)'
      BY <1>4, <2>1 DEF ScoringInv, Seen
    <2>3. Scoring!ScoreSettles'
      BY <1>4 DEF ScoringInv, Scoring!ScoreSettles
    <2>4. scoringScorer' \in [ScoringScorers -> [at : ScorerStages, seen : FactFields, since : Nat, over : BOOLEAN]]
      BY <1>4 DEF ScoringInv
    <2> QED BY <1>4, <2>1, <2>2, <2>3, <2>4 DEF ScoringInv
  <1>5. ASSUME NEW s \in ScoringScorers, Scoring!ReadContact(s) PROVE ScoringInv'
    <2> DEFINE f == [Scoring!NoFacts EXCEPT !.tags = scoringFacts.tags, !.demography = scoringFacts.demography]
               r == [at |-> "events", since |-> scoringVersion, over |-> FALSE, seen |-> f]
    <2>1. f \in FactFields /\ f.tags = scoringFacts.tags /\ f.demography = scoringFacts.demography
      BY DEF Scoring!NoFacts, FactFields, ScoringInv
    <2> HIDE DEF f
    <2>2. r \in [at : ScorerStages, seen : FactFields, since : Nat, over : BOOLEAN]
      BY <2>1 DEF ScorerStages, ScoringInv
    <2>3. /\ scoringScorer' = [scoringScorer EXCEPT ![s] = r]
          /\ UNCHANGED <<scoringFacts, scoringVersion, scoringRow, scoringLatest, scoringCrossed>>
      BY <1>5 DEF Scoring!ReadContact, f
    <2>4. Seen(s)'
      BY <2>1, <2>3 DEF Seen, ScoringInv
    <2>5. r.since <= scoringVersion /\ ~(r.since < scoringLatest) /\ r.at # "idle"
      BY DEF ScoringInv
    <2> QED BY <1>4, <2>2, <2>3, <2>4, <2>5
  <1>6. ASSUME NEW s \in ScoringScorers, NEW from, NEW to \in ScorerStages \ {"idle"}, from # "idle",
               NEW f \in FactFields, Scoring!Reads(s, from, to, f), Seen(s)'
        PROVE  ScoringInv'
    <2> DEFINE r == [scoringScorer[s] EXCEPT !.at = to, !.seen = f]
    <2>1. scoringScorer[s] \in [at : ScorerStages, seen : FactFields, since : Nat, over : BOOLEAN]
      BY DEF ScoringInv
    <2>2. /\ r \in [at : ScorerStages, seen : FactFields, since : Nat, over : BOOLEAN] /\ r.at # "idle"
          /\ r.since = scoringScorer[s].since /\ r.over = scoringScorer[s].over
      BY <2>1
    <2>3. /\ scoringScorer' = [scoringScorer EXCEPT ![s] = r] /\ scoringScorer[s].at # "idle"
          /\ UNCHANGED <<scoringFacts, scoringVersion, scoringRow, scoringLatest, scoringCrossed>>
      BY <1>6 DEF Scoring!Reads, ScoringInv
    <2>4. r.since <= scoringVersion /\ (r.since < scoringLatest => r.over)
      BY <2>2, <2>3 DEF ScoringInv
    <2> HIDE DEF r
    <2> QED BY <1>4, <1>6, <2>2, <2>3, <2>4
  <1>7. ASSUME NEW s \in ScoringScorers, Scoring!ReadEvents(s) PROVE ScoringInv'
    <2> DEFINE f == [scoringScorer[s].seen EXCEPT !.opens = scoringFacts.opens, !.clicks = scoringFacts.clicks]
    <2>1. f \in FactFields
      BY DEF ScoringInv, FactFields
    <2>2. Scoring!Reads(s, "events", "replies", f)
      BY <1>7 DEF Scoring!ReadEvents
    <2>3. Seen(s)'
      BY <1>7 DEF Scoring!ReadEvents, Scoring!Reads, Seen, ScoringInv, FactFields
    <2> HIDE DEF f
    <2> QED BY <1>6, <2>1, <2>2, <2>3 DEF ScorerStages
  <1>8. ASSUME NEW s \in ScoringScorers, Scoring!ReadReplies(s) PROVE ScoringInv'
    <2> DEFINE f == [scoringScorer[s].seen EXCEPT !.replies = scoringFacts.replies]
    <2>1. f \in FactFields
      BY DEF ScoringInv, FactFields
    <2>2. Scoring!Reads(s, "replies", "recent", f)
      BY <1>8 DEF Scoring!ReadReplies
    <2>3. Seen(s)'
      BY <1>8 DEF Scoring!ReadReplies, Scoring!Reads, Seen, ScoringInv, FactFields
    <2> HIDE DEF f
    <2> QED BY <1>6, <2>1, <2>2, <2>3 DEF ScorerStages
  <1>9. ASSUME NEW s \in ScoringScorers, Scoring!ReadRecent(s) PROVE ScoringInv'
    <2> DEFINE f == [scoringScorer[s].seen EXCEPT !.recent = scoringFacts.recent]
    <2>1. f \in FactFields
      BY DEF ScoringInv, FactFields
    <2>2. Scoring!Reads(s, "recent", "write", f)
      BY <1>9 DEF Scoring!ReadRecent
    <2>3. Seen(s)'
      BY <1>9 DEF Scoring!ReadRecent, Scoring!Reads, Seen, ScoringInv, FactFields
    <2> HIDE DEF f
    <2> QED BY <1>6, <2>1, <2>2, <2>3 DEF ScorerStages
  <1>10. ASSUME NEW s \in ScoringScorers, Scoring!UpsertScore(s) PROVE ScoringInv'
    <2> DEFINE now == scoringScorer[s]
               Record == [at : ScorerStages, seen : FactFields, since : Nat, over : BOOLEAN]
    <2>1. /\ now \in Record /\ now.at = "write" /\ now.since <= scoringVersion /\ Seen(s)
          /\ now.since < scoringLatest => now.over
      BY <1>10 DEF Scoring!UpsertScore, ScoringInv
    <2>2. /\ UNCHANGED <<scoringFacts, scoringVersion>>
          /\ scoringLatest' = IF scoringLatest < now.since THEN now.since ELSE scoringLatest
          /\ scoringCrossed' = (scoringCrossed \/ now.over)
          /\ scoringRow' = [score |-> Scoring!TotalScore(now.seen),
                            category |-> Scoring!Category(Scoring!TotalScore(now.seen))]
      BY <1>10 DEF Scoring!UpsertScore
    <2>3. Scoring!Idle \in Record /\ Scoring!Idle.at = "idle" /\ Scoring!Idle.since = 0
      BY DEF Scoring!Idle, Scoring!NoFacts, ScorerStages, FactFields
    <2>4. scoringScorer' = [o \in ScoringScorers |-> IF o = s THEN Scoring!Idle
                             ELSE [scoringScorer[o] EXCEPT !.over = scoringScorer[o].at # "idle"]]
      BY <1>10 DEF Scoring!UpsertScore
    <2>5. ASSUME NEW o \in ScoringScorers
          PROVE  /\ scoringScorer'[o] \in Record
                 /\ scoringScorer'[o].since <= scoringVersion
                 /\ Seen(o)'
                 /\ scoringScorer'[o].at # "idle" => scoringScorer'[o].over
      <3> DEFINE busy == scoringScorer[o].at # "idle"
                 r == [scoringScorer[o] EXCEPT !.over = busy]
      <3>1. scoringScorer[o] \in Record /\ scoringScorer[o].since <= scoringVersion /\ Seen(o) /\ scoringVersion \in Nat
        BY DEF ScoringInv
      <3>2. busy \in BOOLEAN /\ (scoringScorer[o].at # "idle" => busy)
        OBVIOUS
      <3>3. scoringScorer'[o] = IF o = s THEN Scoring!Idle ELSE r
        BY <2>4
      <3> HIDE DEF busy
      <3>4. /\ r \in Record /\ r.since = scoringScorer[o].since /\ r.at = scoringScorer[o].at
            /\ r.seen = scoringScorer[o].seen /\ r.over = busy
        BY <3>1, <3>2
      <3> HIDE DEF r
      <3>5. CASE o = s
        BY <2>3, <3>1, <3>3, <3>5 DEF Seen
      <3>6. CASE o # s
        <4>1. scoringScorer'[o] = r
          BY <3>3, <3>6
        <4>2. Seen(o)'
          BY <2>2, <3>1, <3>4, <4>1 DEF Seen
        <4> QED BY <3>1, <3>2, <3>4, <4>1, <4>2
      <3> QED BY <3>5, <3>6
    <2> HIDE DEF Record
    <2>6. scoringScorer' \in [ScoringScorers -> Record]
      BY <2>4, <2>5
    <2>7. now.since \in Nat /\ now.over \in BOOLEAN /\ now.seen \in FactFields
      BY <2>1 DEF Record
    <2>8. scoringLatest' \in 0..scoringVersion' /\ scoringCrossed' \in BOOLEAN
      BY <2>1, <2>2, <2>7 DEF ScoringInv
    <2>9. Scoring!ScoreSettles'
      <3>1. SUFFICES ASSUME scoringLatest' = scoringVersion', ~scoringCrossed'
                     PROVE  scoringRow' = [score |-> Scoring!TotalScore(scoringFacts),
                                  category |-> Scoring!Category(Scoring!TotalScore(scoringFacts))]
        BY <2>2, SMTT(40) DEF Scoring!ScoreSettles, Scoring!TotalScore, Scoring!Engagement,
           Scoring!Behavior
      <3>2. now.since = scoringVersion
        BY <2>1, <2>2, <2>7, <3>1 DEF ScoringInv
      <3>3. now.seen = scoringFacts
        BY <2>1, <2>7, <3>2 DEF Seen, FactFields, ScoringInv
      <3> QED BY <2>2, <3>3
    <2> QED BY <2>2, <2>5, <2>6, <2>8, <2>9 DEF ScoringInv, Record
  <1> QED BY <1>1, <1>2, <1>3, <1>5, <1>7, <1>8, <1>9, <1>10 DEF Scoring!Next

-----------------------------------------------------------------------------
(* The settings. What the panels, the saves and the generations of every   *)
(* tab hold, and which of them may still write: while nothing overtakes or *)
(* fails, the one that wrote the key last knows it, and so does each panel *)
(* that may save it again.                                                 *)
Domains  == 0..ConfigMaxEdits
Keys     == 0..ConfigMaxKeys
Panels   == [domain : Domains, key : Keys, from : Int]
Sections == [domain : Domains, key : Keys, stamp : Keys]
Forms == [at : {"loading", "loaded"}, data : Panels]
Saves == [at : {"idle", "sent", "read", "written"}, body : Panels, current : Sections]
Gens  == [at : {"idle", "check", "put", "read", "write", "answer"}, rotate : BOOLEAN,
          data : Panels, new : Keys, current : Sections]

ConfigTyped ==
  /\ configKv \in Keys /\ configStored \in Sections /\ configVersion \in Nat
  /\ configForm \in [ConfigTabs -> Forms] /\ configSave \in [ConfigTabs -> Saves]
  /\ configGen \in [ConfigTabs -> Gens]
  /\ configEdits \in Domains /\ configKeys \in Keys /\ configFailures \in Nat
  /\ configOvertaken \in BOOLEAN

LEMMA KeysAre ==
  /\ 0 \in Domains /\ 0 \in Keys
  /\ \A n \in Domains : n \in Int /\ (n < ConfigMaxEdits => n + 1 \in Domains)
  /\ \A n \in Keys : n \in Int /\ (n < ConfigMaxKeys => n + 1 \in Keys)
  <1> ConfigMaxEdits \in Nat /\ ConfigMaxKeys \in Nat
    BY ServicesBounds
  <1> QED BY DEF Domains, Keys

LEMMA InitConfigTyped == Config!Init => ConfigTyped
  <1> SUFFICES ASSUME Config!Init PROVE ConfigTyped
    OBVIOUS
  <1>1. Config!Nothing \in Sections /\ Config!Initial \in Panels
    BY KeysAre DEF Config!Nothing, Config!Initial, Config!Unread, Sections, Panels
  <1>2. [at |-> "loading", data |-> Config!Initial] \in Forms
    BY <1>1 DEF Forms
  <1>3. Config!NoSave \in Saves
    BY <1>1 DEF Config!NoSave, Saves
  <1>4. Config!NoGen \in Gens
    BY <1>1, KeysAre DEF Config!NoGen, Gens
  <1>5. configOvertaken \in BOOLEAN
    BY DEF Config!Init
  <1>6. /\ configKv \in Keys /\ configVersion \in Nat /\ configEdits \in Domains /\ configKeys \in Keys
        /\ configFailures \in Nat
    BY KeysAre DEF Config!Init
  <1> QED BY <1>1, <1>2, <1>3, <1>4, <1>5, <1>6 DEF Config!Init, ConfigTyped

LEMMA PanelFrom ==
  ASSUME NEW p \in Panels, NEW v \in Int
  PROVE  /\ [p EXCEPT !.from = v] \in Panels
         /\ [p EXCEPT !.from = v].from = v /\ [p EXCEPT !.from = v].key = p.key
  BY DEF Panels

LEMMA PanelKey ==
  ASSUME NEW p \in Panels, NEW k \in Keys
  PROVE  /\ [p EXCEPT !.key = k] \in Panels
         /\ [p EXCEPT !.key = k].from = p.from /\ [p EXCEPT !.key = k].key = k
  BY DEF Panels

LEMMA PanelDomain ==
  ASSUME NEW p \in Panels, NEW n \in Domains
  PROVE  /\ [p EXCEPT !.domain = n] \in Panels
         /\ [p EXCEPT !.domain = n].from = p.from /\ [p EXCEPT !.domain = n].key = p.key
  BY DEF Panels

LEMMA SectionShown ==
  ASSUME NEW c \in Sections, NEW v \in Int
  PROVE  [domain |-> c.domain, key |-> c.key, from |-> v] \in Panels
  BY DEF Panels, Sections

LEMMA SectionKeyed ==
  ASSUME NEW c \in Sections, NEW k \in Keys
  PROVE  [domain |-> c.domain, key |-> k, stamp |-> k] \in Sections
  BY DEF Sections

(* What each action makes of the panel, the save and the generation of its tab. *)
FormAt(t, f) == f \in Forms /\ configForm' = [configForm EXCEPT ![t] = f]
SaveAt(t, s) == s \in Saves /\ configSave' = [configSave EXCEPT ![t] = s]
GenAt(t, g)  == g \in Gens /\ configGen' = [configGen EXCEPT ![t] = g]

LEMMA FormAtIs ==
  ASSUME ConfigTyped, NEW t \in ConfigTabs, NEW f, FormAt(t, f)
  PROVE  /\ configForm' \in [ConfigTabs -> Forms] /\ configForm'[t] = f
         /\ \A k \in ConfigTabs \ {t} : configForm'[k] = configForm[k]
  BY DEF ConfigTyped, FormAt

LEMMA SaveAtIs ==
  ASSUME ConfigTyped, NEW t \in ConfigTabs, NEW s, SaveAt(t, s)
  PROVE  /\ configSave' \in [ConfigTabs -> Saves] /\ configSave'[t] = s
         /\ \A k \in ConfigTabs \ {t} : configSave'[k] = configSave[k]
  BY DEF ConfigTyped, SaveAt

LEMMA GenAtIs ==
  ASSUME ConfigTyped, NEW t \in ConfigTabs, NEW g, GenAt(t, g)
  PROVE  /\ configGen' \in [ConfigTabs -> Gens] /\ configGen'[t] = g
         /\ \A k \in ConfigTabs \ {t} : configGen'[k] = configGen[k]
  BY DEF ConfigTyped, GenAt

(* All but the panels, the saves and the generations. *)
Still == UNCHANGED <<configKv, configStored, configVersion, configOvertaken, configFailures, configKeys>>

LEMMA SavePlaces ==
  ASSUME ConfigTyped, NEW t \in ConfigTabs
  PROVE  /\ configSave[t] \in Saves /\ configForm[t] \in Forms /\ configGen[t] \in Gens
         /\ configSave[t].body \in Panels /\ configSave[t].current \in Sections
         /\ configForm[t].data \in Panels
         /\ configGen[t].data \in Panels /\ configGen[t].current \in Sections /\ configGen[t].new \in Keys
         /\ configStored \in Sections /\ configVersion \in Int /\ configVersion + 1 \in Int
         /\ configSave \in [ConfigTabs -> Saves] /\ configForm \in [ConfigTabs -> Forms]
         /\ configGen \in [ConfigTabs -> Gens]
  <1>1. /\ configSave[t] \in Saves /\ configForm[t] \in Forms /\ configGen[t] \in Gens
        /\ configStored \in Sections /\ configVersion \in Int /\ configVersion + 1 \in Int
         /\ configSave \in [ConfigTabs -> Saves] /\ configForm \in [ConfigTabs -> Forms]
         /\ configGen \in [ConfigTabs -> Gens]
    BY DEF ConfigTyped
  <1> QED BY <1>1 DEF Saves, Forms, Gens

LEMMA SaveSends ==
  ASSUME ConfigTyped, NEW t \in ConfigTabs, Config!Save(t)
  PROVE  /\ \E s : SaveAt(t, s) /\ s.at = "sent" /\ s.body = configForm[t].data
         /\ Still /\ UNCHANGED <<configForm, configGen, configEdits>>
  <1> DEFINE s == [configSave[t] EXCEPT !.at = "sent", !.body = configForm[t].data]
  <1>1. s \in Saves /\ s.at = "sent" /\ s.body = configForm[t].data
    BY SavePlaces DEF Saves
  <1>2. configSave' = [configSave EXCEPT ![t] = s]
    BY SavePlaces DEF Config!Save
  <1> HIDE DEF s
  <1> QED BY <1>1, <1>2 DEF SaveAt, Config!Save, Config!serverVars, Still

LEMMA PutReads ==
  ASSUME ConfigTyped, NEW t \in ConfigTabs, Config!PutRead(t)
  PROVE  /\ configSave[t].at = "sent"
         /\ \E s : /\ SaveAt(t, s) /\ s.at = "read" /\ s.body = configSave[t].body
                   /\ s.current = configStored
         /\ Still /\ UNCHANGED <<configForm, configGen, configEdits>>
  <1> DEFINE s == [configSave[t] EXCEPT !.at = "read", !.current = configStored]
  <1>1. s \in Saves /\ s.at = "read" /\ s.body = configSave[t].body /\ s.current = configStored
    BY SavePlaces DEF Saves
  <1>2. configSave' = [configSave EXCEPT ![t] = s]
    BY SavePlaces DEF Config!PutRead
  <1> HIDE DEF s
  <1> QED BY <1>1, <1>2 DEF SaveAt, Config!PutRead, Config!serverVars, Still

LEMMA PutMerges ==
  ASSUME ConfigTyped, NEW t \in ConfigTabs, Config!PutMerged(t)
  PROVE  /\ configSave[t].at = "read"
         /\ \E s : /\ SaveAt(t, s) /\ s.at = "written"
                   /\ s.body.from = configVersion + 1 /\ s.body.key = configSave[t].body.key
         /\ configStored' \in Sections /\ configStored'.key = configSave[t].body.key
         /\ configStored'.stamp = configSave[t].current.stamp
         /\ configVersion' = configVersion + 1
         /\ configOvertaken' = (configOvertaken \/ configSave[t].body.from # configVersion)
         /\ UNCHANGED <<configForm, configGen, configKv, configFailures, configEdits, configKeys>>
  <1> DEFINE b == configSave[t].body
             c == configSave[t].current
             s == [configSave[t] EXCEPT !.at = "written", !.body.from = configVersion + 1]
  <1>1. b \in Panels /\ c \in Sections
    BY SavePlaces
  <1>2. s = [configSave[t] EXCEPT !.at = "written", !.body = [b EXCEPT !.from = configVersion + 1]]
    BY SavePlaces DEF Saves
  <1>3. /\ [b EXCEPT !.from = configVersion + 1] \in Panels
        /\ [b EXCEPT !.from = configVersion + 1].from = configVersion + 1
        /\ [b EXCEPT !.from = configVersion + 1].key = b.key
    BY <1>1, SavePlaces, PanelFrom
  <1>4. s \in Saves /\ s.at = "written" /\ s.body = [b EXCEPT !.from = configVersion + 1]
    BY SavePlaces, <1>2, <1>3 DEF Saves
  <1>6. /\ configSave' = [configSave EXCEPT ![t] = s] /\ configSave[t].at = "read"
        /\ configStored' = [c EXCEPT !.domain = b.domain, !.key = b.key]
        /\ configVersion' = configVersion + 1
        /\ configOvertaken' = (configOvertaken \/ b.from # configVersion)
        /\ UNCHANGED <<configForm, configGen, configKv, configFailures, configEdits, configKeys>>
    BY SavePlaces DEF Config!PutMerged, Config!Write
  <1>7. b.domain \in Domains /\ b.key \in Keys
    BY <1>1 DEF Panels
  <1> HIDE DEF s
  <1>8. s.body.from = configVersion + 1 /\ s.body.key = b.key
    BY <1>3, <1>4
  <1> HIDE DEF b, c
  <1>9. configStored' \in Sections /\ configStored'.key = b.key /\ configStored'.stamp = c.stamp
    <2>1. /\ [c EXCEPT !.domain = b.domain, !.key = b.key] \in Sections
          /\ [c EXCEPT !.domain = b.domain, !.key = b.key].key = b.key
          /\ [c EXCEPT !.domain = b.domain, !.key = b.key].stamp = c.stamp
      BY <1>1, <1>7 DEF Sections
    <2> QED BY <1>6, <2>1
  <1> QED BY <1>4, <1>6, <1>8, <1>9 DEF SaveAt, b, c

LEMMA PanelLoads ==
  ASSUME ConfigTyped, NEW t \in ConfigTabs, Config!Load(t)
  PROVE  /\ \E f : FormAt(t, f) /\ f.data.key = configStored.key /\ f.data.from = configVersion
         /\ Still /\ UNCHANGED <<configSave, configGen, configEdits>>
  <1> DEFINE d == [domain |-> configStored.domain, key |-> configStored.key, from |-> configVersion]
             f == [at |-> "loaded", data |-> d]
  <1>1. d \in Panels
    BY SavePlaces, SectionShown
  <1>2. d.key = configStored.key /\ d.from = configVersion
    OBVIOUS
  <1>3. configForm' = [configForm EXCEPT ![t] = f]
    BY DEF Config!Load
  <1> HIDE DEF d
  <1>4. f \in Forms /\ f.data = d
    BY <1>1 DEF Forms
  <1> HIDE DEF f
  <1> QED BY <1>2, <1>3, <1>4 DEF FormAt, Config!Load, Config!serverVars, Still

LEMMA PanelEdits ==
  ASSUME ConfigTyped, NEW t \in ConfigTabs, Config!Edit(t)
  PROVE  /\ \E f : /\ FormAt(t, f) /\ f.data.key = configForm[t].data.key
                   /\ f.data.from = configForm[t].data.from
         /\ Still /\ UNCHANGED <<configSave, configGen>> /\ configEdits' \in Domains
  <1> DEFINE p == configForm[t].data
             d == [p EXCEPT !.domain = configEdits + 1]
             f == [configForm[t] EXCEPT !.data = d]
  <1>1. configEdits + 1 \in Domains
    BY KeysAre DEF ConfigTyped, Config!Edit
  <1>2. d \in Panels /\ d.key = p.key /\ d.from = p.from
    BY <1>1, SavePlaces, PanelDomain
  <1>3. configForm' = [configForm EXCEPT ![t] = f]
    BY SavePlaces DEF Config!Edit, Forms
  <1> HIDE DEF d
  <1>4. f \in Forms /\ f.data = d
    BY <1>2, SavePlaces DEF Forms
  <1> HIDE DEF f
  <1> QED BY <1>1, <1>2, <1>3, <1>4 DEF FormAt, Config!Edit, Config!serverVars, Still

LEMMA SaveIsAnswered ==
  ASSUME ConfigTyped, NEW t \in ConfigTabs, Config!SaveAnswered(t)
  PROVE  /\ configSave[t].at = "written"
         /\ \E f : FormAt(t, f) /\ f.data = configSave[t].body
         /\ \E s : SaveAt(t, s) /\ s.at = "idle"
         /\ Still /\ UNCHANGED <<configGen, configEdits>>
  <1> DEFINE f == [configForm[t] EXCEPT !.data = configSave[t].body]
  <1>1. f \in Forms /\ f.data = configSave[t].body
    BY SavePlaces DEF Forms
  <1>2. configForm' = [configForm EXCEPT ![t] = f]
    BY SavePlaces DEF Config!SaveAnswered, Forms
  <1>3. Config!NoSave \in Saves /\ Config!NoSave.at = "idle"
    BY KeysAre DEF Config!NoSave, Config!Initial, Config!Nothing, Config!Unread, Saves, Panels, Sections
  <1>4. configSave' = [configSave EXCEPT ![t] = Config!NoSave]
    BY DEF Config!SaveAnswered
  <1> HIDE DEF f
  <1> QED BY <1>1, <1>2, <1>3, <1>4 DEF FormAt, SaveAt, Config!SaveAnswered, Config!serverVars,
             Still

LEMMA GenerationStarts ==
  ASSUME ConfigTyped, NEW t \in ConfigTabs, Config!Generate(t)
  PROVE  /\ configGen[t].at = "idle"
         /\ \E g : /\ GenAt(t, g) /\ g.at = "check" /\ g.data = configForm[t].data
                   /\ ~g.rotate => configForm[t].data.key = 0
         /\ Still /\ UNCHANGED <<configForm, configSave, configEdits>>
  <1> DEFINE shows == configForm[t].data.key # 0
             g == [configGen[t] EXCEPT !.at = "check", !.rotate = shows, !.data = configForm[t].data]
  <1>1. configGen' = [configGen EXCEPT ![t] = g]
    BY SavePlaces DEF Config!Generate, Gens
  <1>2. shows \in BOOLEAN /\ (~shows => configForm[t].data.key = 0)
    OBVIOUS
  <1> HIDE DEF shows
  <1>3. g \in Gens /\ g.at = "check" /\ g.data = configForm[t].data /\ g.rotate = shows
    BY <1>2, SavePlaces DEF Gens
  <1> HIDE DEF g
  <1> QED BY <1>1, <1>2, <1>3 DEF GenAt, Config!Generate, Config!serverVars, Still

LEMMA GenerationAnswered ==
  ASSUME ConfigTyped, NEW t \in ConfigTabs, Config!Generated(t)
  PROVE  /\ configGen[t].at = "answer"
         /\ \E f : FormAt(t, f) /\ f.data.key = configGen[t].new /\ f.data.from = configGen[t].data.from
         /\ \E g : GenAt(t, g) /\ g.at = "idle"
         /\ Still /\ UNCHANGED <<configSave, configEdits>>
  <1> DEFINE d == [configGen[t].data EXCEPT !.key = configGen[t].new]
             f == [configForm[t] EXCEPT !.data = d]
  <1>1. d \in Panels /\ d.key = configGen[t].new /\ d.from = configGen[t].data.from
    <2>1. configGen[t].data \in Panels /\ configGen[t].new \in Keys
      BY SavePlaces
    <2> QED BY <2>1, PanelKey
  <1>2. configForm' = [configForm EXCEPT ![t] = f]
    BY SavePlaces DEF Config!Generated, Forms
  <1> HIDE DEF d
  <1>3. f \in Forms /\ f.data = d
    BY <1>1, SavePlaces DEF Forms
  <1>4. Config!NoGen \in Gens /\ Config!NoGen.at = "idle"
    BY KeysAre DEF Config!NoGen, Config!Initial, Config!Nothing, Config!Unread, Gens, Panels, Sections
  <1>5. configGen' = [configGen EXCEPT ![t] = Config!NoGen]
    BY DEF Config!Generated
  <1> HIDE DEF f
  <1> QED BY <1>1, <1>2, <1>3, <1>4, <1>5 DEF FormAt, GenAt, Config!Generated, Config!serverVars,
             Still

LEMMA KeyIsChecked ==
  ASSUME ConfigTyped, NEW t \in ConfigTabs, Config!CheckKey(t)
  PROVE  /\ configGen[t].at = "check"
         /\ \E g : /\ GenAt(t, g) /\ g.data = configGen[t].data
                   /\ \/ g.at = "put"
                      \/ g.at = "answer" /\ g.new = configKv /\ configKv # 0 /\ ~configGen[t].rotate
         /\ Still /\ UNCHANGED <<configForm, configSave, configEdits>>
  <1>1. CASE ~configGen[t].rotate /\ configKv # 0
    <2> DEFINE g == [configGen[t] EXCEPT !.at = "answer", !.new = configKv]
    <2>1. g \in Gens /\ g.at = "answer" /\ g.new = configKv /\ g.data = configGen[t].data
      BY SavePlaces DEF Gens, ConfigTyped
    <2>2. configGen' = [configGen EXCEPT ![t] = g]
      BY <1>1, SavePlaces DEF Config!CheckKey
    <2> HIDE DEF g
    <2> QED BY <1>1, <2>1, <2>2 DEF GenAt, Config!CheckKey, Config!serverVars, Still
  <1>2. CASE ~(~configGen[t].rotate /\ configKv # 0)
    <2> DEFINE g == [configGen[t] EXCEPT !.at = "put"]
    <2>1. g \in Gens /\ g.at = "put" /\ g.data = configGen[t].data
      BY SavePlaces DEF Gens
    <2>2. configGen' = [configGen EXCEPT ![t] = g]
      BY <1>2, SavePlaces DEF Config!CheckKey
    <2> HIDE DEF g
    <2> QED BY <2>1, <2>2 DEF GenAt, Config!CheckKey, Config!serverVars, Still
  <1> QED BY <1>1, <1>2

LEMMA KeyIsPut ==
  ASSUME ConfigTyped, NEW t \in ConfigTabs, Config!PutKey(t)
  PROVE  /\ configGen[t].at = "put"
         /\ \E g : GenAt(t, g) /\ g.at = "read" /\ g.data = configGen[t].data /\ g.new = configKv'
         /\ configKv' \in Keys /\ configKeys' \in Keys
         /\ UNCHANGED <<configForm, configSave, configStored, configVersion, configOvertaken,
                        configFailures, configEdits>>
  <1> DEFINE g == [configGen[t] EXCEPT !.at = "read", !.new = configKeys + 1]
  <1>1. configKeys + 1 \in Keys
    BY KeysAre DEF ConfigTyped, Config!PutKey
  <1>2. g \in Gens /\ g.at = "read" /\ g.data = configGen[t].data /\ g.new = configKeys + 1
    BY <1>1, SavePlaces DEF Gens
  <1>3. configGen' = [configGen EXCEPT ![t] = g]
    BY SavePlaces DEF Config!PutKey
  <1> HIDE DEF g
  <1> QED BY <1>1, <1>2, <1>3 DEF GenAt, Config!PutKey

LEMMA SectionIsRead ==
  ASSUME ConfigTyped, NEW t \in ConfigTabs, Config!ReadSection(t)
  PROVE  /\ configGen[t].at = "read"
         /\ \E g : GenAt(t, g) /\ g.at = "write" /\ g.data = configGen[t].data /\ g.new = configGen[t].new
         /\ Still /\ UNCHANGED <<configForm, configSave, configEdits>>
  <1> DEFINE g == [configGen[t] EXCEPT !.at = "write", !.current = configStored]
  <1>1. g \in Gens /\ g.at = "write" /\ g.data = configGen[t].data /\ g.new = configGen[t].new
    BY SavePlaces DEF Gens
  <1>2. configGen' = [configGen EXCEPT ![t] = g]
    BY SavePlaces DEF Config!ReadSection
  <1> HIDE DEF g
  <1> QED BY <1>1, <1>2 DEF GenAt, Config!ReadSection, Config!serverVars, Still

LEMMA KeyIsWritten ==
  ASSUME ConfigTyped, NEW t \in ConfigTabs, Config!MirrorKey(t)
  PROVE  /\ configGen[t].at = "write"
         /\ \E g : /\ GenAt(t, g) /\ g.at = "answer" /\ g.new = configGen[t].new
                   /\ g.data.from = configVersion + 1
         /\ configStored' \in Sections /\ configStored'.key = configGen[t].new
         /\ configStored'.stamp = configGen[t].new
         /\ configVersion' = configVersion + 1
         /\ configOvertaken' = (configOvertaken \/ configGen[t].data.from # configVersion)
         /\ UNCHANGED <<configForm, configSave, configKv, configFailures, configEdits, configKeys>>
  <1> DEFINE b == configGen[t].data
             c == configGen[t].current
             n == configGen[t].new
             d == [b EXCEPT !.from = configVersion + 1]
             g == [configGen[t] EXCEPT !.at = "answer", !.data.from = configVersion + 1]
  <1>1. d \in Panels /\ d.from = configVersion + 1
    BY SavePlaces, PanelFrom
  <1>2. g = [configGen[t] EXCEPT !.at = "answer", !.data = d]
    BY SavePlaces DEF Gens
  <1>3. /\ configGen' = [configGen EXCEPT ![t] = g] /\ configGen[t].at = "write"
        /\ configStored' = [domain |-> c.domain, key |-> n, stamp |-> n]
        /\ configVersion' = configVersion + 1
        /\ configOvertaken' = (configOvertaken \/ b.from # configVersion)
        /\ UNCHANGED <<configForm, configSave, configKv, configFailures, configEdits, configKeys>>
    BY SavePlaces DEF Config!MirrorKey, Config!Write
  <1> HIDE DEF d
  <1>4. g \in Gens /\ g.at = "answer" /\ g.new = n /\ g.data = d
    BY <1>1, <1>2, SavePlaces DEF Gens
  <1> HIDE DEF g
  <1>5. configStored' \in Sections /\ configStored'.key = n /\ configStored'.stamp = n
    <2>1. [domain |-> c.domain, key |-> n, stamp |-> n] \in Sections
      BY SavePlaces, SectionKeyed
    <2> QED BY <1>3, <2>1
  <1> QED BY <1>1, <1>3, <1>4, <1>5 DEF GenAt

LEMMA NextConfigTyped ==
  ASSUME ConfigTyped, Config!Next \/ UNCHANGED configVars
  PROVE  ConfigTyped'
  <1>1. CASE UNCHANGED configVars
    BY <1>1 DEF configVars, ConfigTyped
  <1>2. ASSUME NEW t \in ConfigTabs, Config!Load(t) \/ Config!Edit(t) \/ Config!Save(t) \/ Config!PutRead(t)
                                     \/ Config!SaveAnswered(t) \/ Config!PutMerged(t)
        PROVE  ConfigTyped'
    <2>1. CASE Config!Load(t) \/ Config!Edit(t)
      BY <2>1, PanelLoads, PanelEdits, FormAtIs DEF ConfigTyped, Still
    <2>2. CASE Config!Save(t) \/ Config!PutRead(t)
      BY <2>2, SaveSends, PutReads, SaveAtIs DEF ConfigTyped, Still
    <2>3. CASE Config!SaveAnswered(t)
      BY <2>3, SaveIsAnswered, SaveAtIs, FormAtIs DEF ConfigTyped, Still
    <2>4. CASE Config!PutMerged(t)
      <3>1. configSave' \in [ConfigTabs -> Saves]
        BY <2>4, PutMerges, SaveAtIs
      <3>2. configVersion' = configVersion + 1 /\ configVersion \in Nat /\ configOvertaken \in BOOLEAN
        BY <2>4, PutMerges DEF ConfigTyped
      <3>3. configVersion' \in Nat
        BY <3>2
      <3>4. configOvertaken' \in BOOLEAN
        BY <2>4, <3>2, PutMerges, Zenon
      <3> QED BY <2>4, <3>1, <3>3, <3>4, PutMerges DEF ConfigTyped
    <2> QED BY <1>2, <2>1, <2>2, <2>3, <2>4
  <1>3. ASSUME NEW t \in ConfigTabs, Config!Generate(t) \/ Config!CheckKey(t) \/ Config!ReadSection(t)
                                     \/ Config!PutKey(t) \/ Config!Generated(t) \/ Config!MirrorKey(t)
        PROVE  ConfigTyped'
    <2>1. CASE Config!Generate(t) \/ Config!CheckKey(t) \/ Config!ReadSection(t)
      BY <2>1, GenerationStarts, KeyIsChecked, SectionIsRead, GenAtIs DEF ConfigTyped, Still
    <2>2. CASE Config!PutKey(t)
      BY <2>2, KeyIsPut, GenAtIs DEF ConfigTyped
    <2>3. CASE Config!Generated(t)
      BY <2>3, GenerationAnswered, GenAtIs, FormAtIs DEF ConfigTyped, Still
    <2>4. CASE Config!MirrorKey(t)
      <3>1. configGen' \in [ConfigTabs -> Gens]
        BY <2>4, KeyIsWritten, GenAtIs
      <3>2. configVersion' = configVersion + 1 /\ configVersion \in Nat /\ configOvertaken \in BOOLEAN
        BY <2>4, KeyIsWritten DEF ConfigTyped
      <3>3. configVersion' \in Nat
        BY <3>2
      <3>4. configOvertaken' \in BOOLEAN
        BY <2>4, <3>2, KeyIsWritten, Zenon
      <3> QED BY <2>4, <3>1, <3>3, <3>4, KeyIsWritten DEF ConfigTyped
    <2> QED BY <1>3, <2>1, <2>2, <2>3, <2>4
  <1>4. ASSUME NEW t \in ConfigTabs, Config!LoadFails(t) \/ Config!SaveFails(t) \/ Config!GenerateFails(t)
        PROVE  ConfigTyped'
    <2>1. configFailures' \in Nat
      BY <1>4 DEF Config!LoadFails, Config!SaveFails, Config!GenerateFails, Config!Fail, ConfigTyped
    <2>2. CASE Config!LoadFails(t)
      <3> DEFINE f == [configForm[t] EXCEPT !.at = "loaded"]
      <3>1. f \in Forms
        BY SavePlaces DEF Forms
      <3>2. configForm' = [configForm EXCEPT ![t] = f]
        BY <2>2, SavePlaces DEF Config!LoadFails
      <3> HIDE DEF f
      <3>3. configForm' \in [ConfigTabs -> Forms]
        BY <3>1, <3>2, FormAtIs DEF FormAt
      <3> QED BY <2>1, <2>2, <3>3 DEF Config!LoadFails, Config!serverVars, ConfigTyped
    <2>3. CASE Config!SaveFails(t)
      <3>1. Config!NoSave \in Saves
        BY KeysAre DEF Config!NoSave, Config!Initial, Config!Nothing, Config!Unread, Saves, Panels, Sections
      <3>2. configSave' \in [ConfigTabs -> Saves]
        BY <2>3, <3>1 DEF Config!SaveFails, ConfigTyped
      <3> QED BY <2>1, <2>3, <3>2 DEF Config!SaveFails, Config!serverVars, ConfigTyped
    <2>4. CASE Config!GenerateFails(t)
      <3>1. Config!NoGen \in Gens
        BY KeysAre DEF Config!NoGen, Config!Initial, Config!Nothing, Config!Unread, Gens, Panels, Sections
      <3>2. configGen' \in [ConfigTabs -> Gens]
        BY <2>4, <3>1 DEF Config!GenerateFails, ConfigTyped
      <3> QED BY <2>1, <2>4, <3>2 DEF Config!GenerateFails, Config!serverVars, ConfigTyped
    <2> QED BY <1>4, <2>2, <2>3, <2>4
  <1> QED BY <1>1, <1>2, <1>3, <1>4 DEF Config!Next, Config!Panel, Config!Handlers

-----------------------------------------------------------------------------
(* A panel, a save or a generation that comes from the object as it is knows its *)
(* key, unless a generation is about to mirror another one; one that comes from  *)
(* an earlier object will be overtaken.                                          *)
Writing(t) == configGen[t].at \in {"read", "write"}
MirrorPending    == \E t \in ConfigTabs : Writing(t) /\ configGen[t].new = configKv
Knows(key, from) == from <= configVersion /\ (from = configVersion => key = configStored.key \/ MirrorPending)

PanelKnows(t) == Knows(configForm[t].data.key, configForm[t].data.from)

SaveKnows(t) ==
  configSave[t].at # "idle" =>
    /\ Knows(configSave[t].body.key, configSave[t].body.from)
    /\ configSave[t].at = "read" /\ configSave[t].body.from = configVersion =>
         configSave[t].current = configStored

GenKnows(t) ==
  configGen[t].at # "idle" =>
    /\ configGen[t].data.from <= configVersion
    /\ configGen[t].at = "check" =>
         /\ Knows(configGen[t].data.key, configGen[t].data.from)
         /\ ~configGen[t].rotate => configGen[t].data.key = 0
    /\ configGen[t].at = "answer" => Knows(configGen[t].new, configGen[t].data.from)

Mirrored ==
  /\ configStored.key = configKv /\ configStored.stamp = configKv
  /\ \A t \in ConfigTabs :
       Writing(t) /\ configGen[t].data.from = configVersion => configGen[t].new = configKv

Calm == configFailures = 0 /\ ~configOvertaken

ConfigInv ==
  /\ ConfigTyped
  /\ Calm => /\ \A t \in ConfigTabs : PanelKnows(t) /\ SaveKnows(t) /\ GenKnows(t)
             /\ Mirrored \/ MirrorPending

LEMMA InitConfigInv == Config!Init => ConfigInv
  <1> SUFFICES ASSUME Config!Init PROVE ConfigInv
    OBVIOUS
  <1>1. /\ configKv = 0 /\ configStored = Config!Nothing /\ configVersion = 0
        /\ \A t \in ConfigTabs : /\ configForm[t].data = Config!Initial
                                 /\ configSave[t] = Config!NoSave /\ configGen[t] = Config!NoGen
    BY DEF Config!Init
  <1>2. /\ Config!Initial.from = -1 /\ Config!NoSave.at = "idle" /\ Config!NoGen.at = "idle"
        /\ Config!Nothing.key = 0 /\ Config!Nothing.stamp = 0
    BY DEF Config!Initial, Config!NoSave, Config!NoGen, Config!Nothing, Config!Unread
  <1>3. \A t \in ConfigTabs : PanelKnows(t) /\ SaveKnows(t) /\ GenKnows(t)
    BY <1>1, <1>2 DEF PanelKnows, SaveKnows, GenKnows, Knows
  <1>4. Mirrored
    BY <1>1, <1>2 DEF Mirrored, Writing
  <1> QED BY <1>3, <1>4, InitConfigTyped DEF ConfigInv

(* Nothing that the invariant says of the object changes. *)
LEMMA StillKnows ==
  ASSUME Still,
         \A t \in ConfigTabs :
           /\ Writing(t)' = Writing(t)
           /\ Writing(t) => configGen'[t].new = configGen[t].new /\ configGen'[t].data = configGen[t].data
  PROVE  /\ MirrorPending' = MirrorPending /\ (Mirrored => Mirrored')
         /\ \A key, from : Knows(key, from) => Knows(key, from)'
  BY DEF Still, MirrorPending, Mirrored, Knows, Writing

LEMMA NextConfigInv ==
  ASSUME ConfigInv, Config!Next \/ UNCHANGED configVars
  PROVE  ConfigInv'
  <1>t. ConfigTyped /\ ConfigTyped'
    BY NextConfigTyped DEF ConfigInv
  <1>1. CASE UNCHANGED configVars
    <2> USE <1>1 DEF configVars
    <2>1. Still /\ \A t \in ConfigTabs : Writing(t)' = Writing(t)
      BY DEF Still, Writing
    <2> QED BY <1>t, <2>1, StillKnows
            DEF ConfigInv, Calm, PanelKnows, SaveKnows, GenKnows, Knows, MirrorPending, Mirrored, Writing
  <1>2. CASE ~Calm'
    BY <1>t, <1>2 DEF ConfigInv
  <1>3. ASSUME Config!Next, Calm' PROVE ConfigInv'
    <2>v. configVersion \in Nat
      BY <1>t DEF ConfigTyped
    <2>1. PICK t \in ConfigTabs : Config!Panel(t) \/ Config!Handlers(t)
      BY <1>3 DEF Config!Next
    <2>2. ~Config!LoadFails(t) /\ ~Config!SaveFails(t) /\ ~Config!GenerateFails(t)
      <3>1. Config!Fail => configFailures' # 0
        BY <1>t DEF Config!Fail, ConfigTyped
      <3> QED BY <1>3, <3>1 DEF Calm, Config!LoadFails, Config!SaveFails, Config!GenerateFails
    <2>k. Calm => /\ \A k \in ConfigTabs : PanelKnows(k) /\ SaveKnows(k) /\ GenKnows(k)
                  /\ Mirrored \/ MirrorPending
      BY DEF ConfigInv
    <2>s. ASSUME Still,
                 \A k \in ConfigTabs :
                   /\ Writing(k)' = Writing(k)
                   /\ Writing(k) => configGen'[k].new = configGen[k].new /\ configGen'[k].data = configGen[k].data,
                 \A k \in ConfigTabs \ {t} : /\ configForm'[k] = configForm[k]
                                             /\ configSave'[k] = configSave[k] /\ configGen'[k] = configGen[k],
                 Calm => PanelKnows(t)' /\ SaveKnows(t)' /\ GenKnows(t)'
          PROVE  ConfigInv'
      <3>1. Calm
        BY <1>3, <2>s DEF Calm, Still
      <3>2. /\ MirrorPending' = MirrorPending /\ (Mirrored => Mirrored')
            /\ \A key, from : Knows(key, from) => Knows(key, from)'
        BY <2>s, StillKnows
      <3>3. ASSUME NEW k \in ConfigTabs, k # t PROVE PanelKnows(k)' /\ SaveKnows(k)' /\ GenKnows(k)'
        <4>1. configForm'[k] = configForm[k] /\ configSave'[k] = configSave[k] /\ configGen'[k] = configGen[k]
          BY <2>s, <3>3
        <4>2. PanelKnows(k) /\ SaveKnows(k) /\ GenKnows(k)
          BY <2>k, <3>1
        <4>3. configVersion' = configVersion /\ configStored' = configStored
          BY <2>s DEF Still
        <4> QED BY <3>2, <4>1, <4>2, <4>3 DEF PanelKnows, SaveKnows, GenKnows
      <3> QED BY <1>t, <2>k, <2>s, <3>1, <3>2, <3>3 DEF ConfigInv
    <2>p. ASSUME Still, configGen' = configGen,
                 \A k \in ConfigTabs \ {t} : configForm'[k] = configForm[k] /\ configSave'[k] = configSave[k],
                 Calm => PanelKnows(t)' /\ SaveKnows(t)'
          PROVE  ConfigInv'
      <3>1. \A k \in ConfigTabs : Writing(k)' = Writing(k)
        BY <2>p DEF Writing
      <3>2. \A key, from : Knows(key, from) => Knows(key, from)'
        BY <2>p, <3>1, StillKnows
      <3>3. Calm => GenKnows(t)'
        BY <2>k, <2>p, <3>2 DEF GenKnows, Still
      <3> QED BY <2>p, <2>s, <3>1, <3>3
    <2>3. CASE Config!Load(t)
      <3>1. PICK f : FormAt(t, f) /\ f.data.key = configStored.key /\ f.data.from = configVersion
        BY <1>t, <2>3, PanelLoads
      <3>2. configForm'[t] = f /\ \A k \in ConfigTabs \ {t} : configForm'[k] = configForm[k]
        BY <1>t, <3>1, FormAtIs
      <3>3. Still /\ configSave' = configSave /\ configGen' = configGen
        BY <1>t, <2>3, PanelLoads
      <3>4. PanelKnows(t)'
        BY <2>v, <3>1, <3>2, <3>3 DEF PanelKnows, Knows, Still
      <3>5. \A key, from : Knows(key, from) => Knows(key, from)'
        BY <3>3, StillKnows DEF Writing
      <3>6. Calm => SaveKnows(t)'
        BY <2>k, <3>3, <3>5 DEF SaveKnows, Still
      <3> QED BY <2>p, <3>2, <3>3, <3>4, <3>6
    <2>4. CASE Config!Edit(t)
      <3>1. PICK f : FormAt(t, f) /\ f.data.key = configForm[t].data.key /\ f.data.from = configForm[t].data.from
        BY <1>t, <2>4, PanelEdits
      <3>2. configForm'[t] = f /\ \A k \in ConfigTabs \ {t} : configForm'[k] = configForm[k]
        BY <1>t, <3>1, FormAtIs
      <3>3. Still /\ configSave' = configSave /\ configGen' = configGen
        BY <1>t, <2>4, PanelEdits
      <3>5. \A key, from : Knows(key, from) => Knows(key, from)'
        BY <3>3, StillKnows DEF Writing
      <3>6. Calm => PanelKnows(t)' /\ SaveKnows(t)'
        BY <2>k, <3>1, <3>2, <3>3, <3>5 DEF PanelKnows, SaveKnows, Still
      <3> QED BY <2>p, <3>2, <3>3, <3>6
    <2>5. CASE Config!Save(t)
      <3>1. PICK s : SaveAt(t, s) /\ s.at = "sent" /\ s.body = configForm[t].data
        BY <1>t, <2>5, SaveSends
      <3>2. configSave'[t] = s /\ \A k \in ConfigTabs \ {t} : configSave'[k] = configSave[k]
        BY <1>t, <3>1, SaveAtIs
      <3>3. Still /\ configForm' = configForm /\ configGen' = configGen
        BY <1>t, <2>5, SaveSends
      <3>5. \A key, from : Knows(key, from) => Knows(key, from)'
        BY <3>3, StillKnows DEF Writing
      <3>6. Calm => PanelKnows(t)' /\ SaveKnows(t)'
        BY <2>k, <3>1, <3>2, <3>3, <3>5 DEF PanelKnows, SaveKnows, Still
      <3> QED BY <2>p, <3>2, <3>3, <3>6
    <2>6. CASE Config!PutRead(t)
      <3>1. PICK s : /\ SaveAt(t, s) /\ s.at = "read" /\ s.body = configSave[t].body
                     /\ s.current = configStored
        BY <1>t, <2>6, PutReads
      <3>2. configSave'[t] = s /\ \A k \in ConfigTabs \ {t} : configSave'[k] = configSave[k]
        BY <1>t, <3>1, SaveAtIs
      <3>3. Still /\ configForm' = configForm /\ configGen' = configGen /\ configSave[t].at = "sent"
        BY <1>t, <2>6, PutReads
      <3>5. \A key, from : Knows(key, from) => Knows(key, from)'
        BY <3>3, StillKnows DEF Writing
      <3>6. Calm => PanelKnows(t)' /\ SaveKnows(t)'
        BY <2>k, <3>1, <3>2, <3>3, <3>5 DEF PanelKnows, SaveKnows, Still
      <3> QED BY <2>p, <3>2, <3>3, <3>6
    <2>7. CASE Config!SaveAnswered(t)
      <3>1. PICK s : SaveAt(t, s) /\ s.at = "idle"
        BY <1>t, <2>7, SaveIsAnswered
      <3>2. configSave'[t] = s /\ \A k \in ConfigTabs \ {t} : configSave'[k] = configSave[k]
        BY <1>t, <3>1, SaveAtIs
      <3>3. PICK f : FormAt(t, f) /\ f.data = configSave[t].body
        BY <1>t, <2>7, SaveIsAnswered
      <3>4. configForm'[t] = f /\ \A k \in ConfigTabs \ {t} : configForm'[k] = configForm[k]
        BY <1>t, <3>3, FormAtIs
      <3>5. Still /\ configGen' = configGen /\ configSave[t].at = "written"
        BY <1>t, <2>7, SaveIsAnswered
      <3>6. \A key, from : Knows(key, from) => Knows(key, from)'
        BY <3>5, StillKnows DEF Writing
      <3>7. Calm => PanelKnows(t)' /\ SaveKnows(t)'
        BY <2>k, <3>1, <3>2, <3>3, <3>4, <3>5, <3>6 DEF PanelKnows, SaveKnows
      <3> QED BY <2>p, <3>2, <3>4, <3>5, <3>7
    <2>8. CASE Config!Generate(t)
      <3>1. PICK g : /\ GenAt(t, g) /\ g.at = "check" /\ g.data = configForm[t].data
                     /\ ~g.rotate => configForm[t].data.key = 0
        BY <1>t, <2>8, GenerationStarts
      <3>2. configGen'[t] = g /\ \A k \in ConfigTabs \ {t} : configGen'[k] = configGen[k]
        BY <1>t, <3>1, GenAtIs
      <3>3. Still /\ configForm' = configForm /\ configSave' = configSave /\ configGen[t].at = "idle"
        BY <1>t, <2>8, GenerationStarts
      <3>4. \A k \in ConfigTabs :
              /\ Writing(k)' = Writing(k)
              /\ Writing(k) => configGen'[k].new = configGen[k].new /\ configGen'[k].data = configGen[k].data
        BY <3>1, <3>2, <3>3 DEF Writing
      <3>5. \A key, from : Knows(key, from) => Knows(key, from)'
        BY <3>3, <3>4, StillKnows
      <3>6. Calm => PanelKnows(t)' /\ SaveKnows(t)'
        BY <2>k, <3>3, <3>5 DEF PanelKnows, SaveKnows, Still
      <3>7. Calm => GenKnows(t)'
        BY <2>k, <3>1, <3>2, <3>3, <3>5 DEF PanelKnows, GenKnows, Knows, Still
      <3> QED BY <2>s, <3>2, <3>3, <3>4, <3>6, <3>7
    <2>9. CASE Config!Generated(t)
      <3>1. PICK g : GenAt(t, g) /\ g.at = "idle"
        BY <1>t, <2>9, GenerationAnswered
      <3>2. configGen'[t] = g /\ \A k \in ConfigTabs \ {t} : configGen'[k] = configGen[k]
        BY <1>t, <3>1, GenAtIs
      <3>3. PICK f : FormAt(t, f) /\ f.data.key = configGen[t].new /\ f.data.from = configGen[t].data.from
        BY <1>t, <2>9, GenerationAnswered
      <3>4. configForm'[t] = f /\ \A k \in ConfigTabs \ {t} : configForm'[k] = configForm[k]
        BY <1>t, <3>3, FormAtIs
      <3>5. Still /\ configSave' = configSave /\ configGen[t].at = "answer"
        BY <1>t, <2>9, GenerationAnswered
      <3>6. \A k \in ConfigTabs :
              /\ Writing(k)' = Writing(k)
              /\ Writing(k) => configGen'[k].new = configGen[k].new /\ configGen'[k].data = configGen[k].data
        BY <3>1, <3>2, <3>5 DEF Writing
      <3>7. \A key, from : Knows(key, from) => Knows(key, from)'
        BY <3>5, <3>6, StillKnows
      <3>8. Calm => PanelKnows(t)' /\ SaveKnows(t)'
        BY <2>k, <3>3, <3>4, <3>5, <3>7 DEF PanelKnows, SaveKnows, GenKnows, Still
      <3>9. GenKnows(t)'
        BY <3>1, <3>2 DEF GenKnows
      <3> QED BY <2>s, <3>2, <3>4, <3>5, <3>6, <3>8, <3>9
    <2>10. CASE Config!CheckKey(t)
      <3>1. PICK g : /\ GenAt(t, g) /\ g.data = configGen[t].data
                     /\ \/ g.at = "put"
                        \/ g.at = "answer" /\ g.new = configKv /\ configKv # 0 /\ ~configGen[t].rotate
        BY <1>t, <2>10, KeyIsChecked
      <3>2. configGen'[t] = g /\ \A k \in ConfigTabs \ {t} : configGen'[k] = configGen[k]
        BY <1>t, <3>1, GenAtIs
      <3>3. Still /\ configForm' = configForm /\ configSave' = configSave /\ configGen[t].at = "check"
        BY <1>t, <2>10, KeyIsChecked
      <3>4. \A k \in ConfigTabs :
              /\ Writing(k)' = Writing(k)
              /\ Writing(k) => configGen'[k].new = configGen[k].new /\ configGen'[k].data = configGen[k].data
        BY <3>1, <3>2, <3>3 DEF Writing
      <3>5. \A key, from : Knows(key, from) => Knows(key, from)'
        BY <3>3, <3>4, StillKnows
      <3>6. Calm => PanelKnows(t)' /\ SaveKnows(t)'
        BY <2>k, <3>3, <3>5 DEF PanelKnows, SaveKnows, Still
      <3>7. ASSUME Calm PROVE GenKnows(t)'
        <4>1. GenKnows(t) /\ (Mirrored \/ MirrorPending)
          BY <2>k, <3>7
        <4>2. CASE g.at = "put"
          BY <3>1, <3>2, <3>3, <4>1, <4>2 DEF GenKnows, Still
        <4>3. CASE g.at = "answer" /\ g.new = configKv /\ configKv # 0 /\ ~configGen[t].rotate
          <5>1. configGen[t].data.key = 0 /\ Knows(configGen[t].data.key, configGen[t].data.from)
            BY <3>3, <4>1, <4>3 DEF GenKnows
          <5>2. Knows(configKv, configGen[t].data.from)
            BY <4>1, <4>3, <5>1 DEF Knows, Mirrored
          <5>3. Knows(configKv, configGen[t].data.from)'
            BY <3>1, <3>2, <3>3, <3>5, <5>2 DEF Still
          <5>4. configGen'[t].data.from <= configVersion'
            BY <3>1, <3>2, <3>3, <5>2 DEF Knows, Still
          <5> QED BY <3>1, <3>2, <3>3, <4>3, <5>3, <5>4 DEF GenKnows, Still
        <4> QED BY <3>1, <4>2, <4>3
      <3> QED BY <2>s, <3>2, <3>3, <3>4, <3>6, <3>7
    <2>11. CASE Config!ReadSection(t)
      <3>1. PICK g : GenAt(t, g) /\ g.at = "write" /\ g.data = configGen[t].data /\ g.new = configGen[t].new
        BY <1>t, <2>11, SectionIsRead
      <3>2. configGen'[t] = g /\ \A k \in ConfigTabs \ {t} : configGen'[k] = configGen[k]
        BY <1>t, <3>1, GenAtIs
      <3>3. Still /\ configForm' = configForm /\ configSave' = configSave /\ configGen[t].at = "read"
        BY <1>t, <2>11, SectionIsRead
      <3>4. \A k \in ConfigTabs :
              /\ Writing(k)' = Writing(k)
              /\ Writing(k) => configGen'[k].new = configGen[k].new /\ configGen'[k].data = configGen[k].data
        BY <3>1, <3>2, <3>3 DEF Writing
      <3>5. \A key, from : Knows(key, from) => Knows(key, from)'
        BY <3>3, <3>4, StillKnows
      <3>6. Calm => PanelKnows(t)' /\ SaveKnows(t)'
        BY <2>k, <3>3, <3>5 DEF PanelKnows, SaveKnows, Still
      <3>7. Calm => GenKnows(t)'
        BY <2>k, <3>1, <3>2, <3>3 DEF GenKnows, Still
      <3> QED BY <2>s, <3>2, <3>3, <3>4, <3>6, <3>7
    <2>12. CASE Config!PutKey(t)
      <3>1. PICK g : GenAt(t, g) /\ g.at = "read" /\ g.data = configGen[t].data /\ g.new = configKv'
        BY <1>t, <2>12, KeyIsPut
      <3>2. configGen'[t] = g /\ \A k \in ConfigTabs \ {t} : configGen'[k] = configGen[k]
        BY <1>t, <3>1, GenAtIs
      <3>3. /\ configGen[t].at = "put"
            /\ UNCHANGED <<configForm, configSave, configStored, configVersion, configOvertaken, configFailures>>
        BY <1>t, <2>12, KeyIsPut
      <3>4. Calm
        BY <1>3, <3>3 DEF Calm
      <3>5. MirrorPending'
        BY <3>1, <3>2 DEF MirrorPending, Writing
      <3>6. \A key, from : Knows(key, from) => Knows(key, from)'
        BY <3>3, <3>5 DEF Knows
      <3>7. ASSUME NEW k \in ConfigTabs PROVE PanelKnows(k)' /\ SaveKnows(k)' /\ GenKnows(k)'
        <4>1. PanelKnows(k) /\ SaveKnows(k) /\ GenKnows(k)
          BY <2>k, <3>4
        <4>2. PanelKnows(k)' /\ SaveKnows(k)'
          BY <3>3, <3>6, <4>1 DEF PanelKnows, SaveKnows
        <4>3. GenKnows(k)'
          <5>1. CASE k = t
            BY <3>1, <3>2, <3>3, <4>1, <5>1 DEF GenKnows
          <5>2. CASE k # t
            BY <3>2, <3>3, <3>6, <4>1, <5>2 DEF GenKnows
          <5> QED BY <5>1, <5>2
        <4> QED BY <4>2, <4>3
      <3> QED BY <1>t, <3>5, <3>7 DEF ConfigInv
    <2>w. ASSUME configVersion' = configVersion + 1, Calm,
                 \A k \in ConfigTabs \ {t} : /\ configForm'[k] = configForm[k]
                                             /\ configSave'[k] = configSave[k] /\ configGen'[k] = configGen[k]
          PROVE  \A k \in ConfigTabs \ {t} : PanelKnows(k)' /\ SaveKnows(k)' /\ GenKnows(k)'
      <3> TAKE k \in ConfigTabs \ {t}
      <3>1. PanelKnows(k) /\ SaveKnows(k) /\ GenKnows(k)
        BY <2>k, <2>w
      <3>2. ASSUME NEW key, NEW from \in Int, from <= configVersion PROVE Knows(key, from)'
        BY <2>v, <2>w, <3>2 DEF Knows
      <3>3. /\ configForm[k].data.from \in Int /\ configSave[k].body.from \in Int
            /\ configGen[k].data.from \in Int
        BY <1>t, SavePlaces DEF Panels
      <3>4. PanelKnows(k)'
        BY <2>w, <3>1, <3>2, <3>3 DEF PanelKnows, Knows
      <3>5. SaveKnows(k)'
        BY <2>v, <2>w, <3>1, <3>2, <3>3 DEF SaveKnows, Knows
      <3>6. GenKnows(k)'
        BY <2>v, <2>w, <3>1, <3>2, <3>3 DEF GenKnows, Knows
      <3> QED BY <3>4, <3>5, <3>6
    <2>13. CASE Config!PutMerged(t)
      <3>1. PICK s : /\ SaveAt(t, s) /\ s.at = "written"
                     /\ s.body.from = configVersion + 1 /\ s.body.key = configSave[t].body.key
        BY <1>t, <2>13, PutMerges
      <3>2. configSave'[t] = s /\ \A k \in ConfigTabs \ {t} : configSave'[k] = configSave[k]
        BY <1>t, <3>1, SaveAtIs
      <3>3. /\ configSave[t].at = "read" /\ configStored'.key = configSave[t].body.key
            /\ configStored'.stamp = configSave[t].current.stamp
            /\ configVersion' = configVersion + 1
            /\ configOvertaken' = (configOvertaken \/ configSave[t].body.from # configVersion)
            /\ UNCHANGED <<configForm, configGen, configKv, configFailures>>
        BY <1>t, <2>13, PutMerges
      <3>4. Calm /\ configSave[t].body.from = configVersion
        BY <1>3, <3>3 DEF Calm
      <3>5. \A k \in ConfigTabs \ {t} : PanelKnows(k)' /\ SaveKnows(k)' /\ GenKnows(k)'
        BY <2>w, <3>2, <3>3, <3>4
      <3>6. PanelKnows(t) /\ SaveKnows(t) /\ GenKnows(t) /\ (Mirrored \/ MirrorPending)
        BY <2>k, <3>4
      <3>7. SaveKnows(t)'
        BY <2>v, <3>1, <3>2, <3>3 DEF SaveKnows, Knows
      <3>8. /\ configForm[t].data.from \in Int /\ configGen[t].data.from \in Int
        BY <1>t, SavePlaces DEF Panels
      <3>9. PanelKnows(t)'
        BY <2>v, <3>3, <3>6, <3>8 DEF PanelKnows, Knows
      <3>10. GenKnows(t)'
        BY <2>v, <3>3, <3>6, <3>8 DEF GenKnows, Knows
      <3>11. MirrorPending' = MirrorPending
        BY <3>3 DEF MirrorPending, Writing
      <3>12. CASE ~MirrorPending
        <4>1. configSave[t].body.key = configStored.key /\ configSave[t].current = configStored
          BY <3>3, <3>4, <3>6, <3>12 DEF SaveKnows, Knows
        <4>2. configStored'.key = configKv' /\ configStored'.stamp = configKv'
          BY <3>3, <3>6, <3>12, <4>1 DEF Mirrored
        <4>3. \A k \in ConfigTabs : Writing(k)' => configGen'[k].data.from # configVersion'
          <5> SUFFICES ASSUME NEW k \in ConfigTabs, Writing(k)' PROVE configGen'[k].data.from # configVersion'
            OBVIOUS
          <5>1. GenKnows(k) /\ configGen'[k] = configGen[k]
            BY <2>k, <3>3, <3>4
          <5>2. configGen[k].data.from <= configVersion /\ configGen[k].data.from \in Int
            BY <1>t, <5>1, SavePlaces DEF GenKnows, Writing, Panels
          <5> QED BY <2>v, <3>3, <5>1, <5>2
        <4> QED BY <1>t, <3>5, <3>7, <3>9, <3>10, <4>2, <4>3 DEF ConfigInv, Mirrored
      <3> QED BY <1>t, <3>5, <3>7, <3>9, <3>10, <3>11, <3>12 DEF ConfigInv
    <2>14. CASE Config!MirrorKey(t)
      <3>1. PICK g : /\ GenAt(t, g) /\ g.at = "answer" /\ g.new = configGen[t].new
                     /\ g.data.from = configVersion + 1
        BY <1>t, <2>14, KeyIsWritten
      <3>2. configGen'[t] = g /\ \A k \in ConfigTabs \ {t} : configGen'[k] = configGen[k]
        BY <1>t, <3>1, GenAtIs
      <3>3. /\ configGen[t].at = "write" /\ configStored'.key = configGen[t].new
            /\ configStored'.stamp = configGen[t].new
            /\ configVersion' = configVersion + 1
            /\ configOvertaken' = (configOvertaken \/ configGen[t].data.from # configVersion)
            /\ UNCHANGED <<configForm, configSave, configKv, configFailures>>
        BY <1>t, <2>14, KeyIsWritten
      <3>4. Calm /\ configGen[t].data.from = configVersion
        BY <1>3, <3>3 DEF Calm
      <3>5. \A k \in ConfigTabs \ {t} : PanelKnows(k)' /\ SaveKnows(k)' /\ GenKnows(k)'
        BY <2>w, <3>2, <3>3, <3>4
      <3>6. PanelKnows(t) /\ SaveKnows(t) /\ (Mirrored \/ MirrorPending)
        BY <2>k, <3>4
      <3>7. GenKnows(t)'
        BY <2>v, <3>1, <3>2, <3>3 DEF GenKnows, Knows
      <3>8. /\ configForm[t].data.from \in Int /\ configSave[t].body.from \in Int
        BY <1>t, SavePlaces DEF Panels
      <3>9. PanelKnows(t)'
        BY <2>v, <3>3, <3>6, <3>8 DEF PanelKnows, Knows
      <3>10. SaveKnows(t)'
        BY <2>v, <3>3, <3>6, <3>8 DEF SaveKnows, Knows
      <3>11. Mirrored' \/ MirrorPending'
        <4>1. CASE configGen[t].new = configKv
          <5>1. \A k \in ConfigTabs : Writing(k)' => configGen'[k].data.from # configVersion'
            <6> SUFFICES ASSUME NEW k \in ConfigTabs, Writing(k)' PROVE configGen'[k].data.from # configVersion'
              OBVIOUS
            <6>1. k # t
              BY <3>1, <3>2 DEF Writing
            <6>2. GenKnows(k) /\ configGen'[k] = configGen[k]
              BY <2>k, <3>2, <3>4, <6>1
            <6>3. configGen[k].data.from <= configVersion /\ configGen[k].data.from \in Int
              BY <1>t, <6>2, SavePlaces DEF GenKnows, Writing, Panels
            <6> QED BY <2>v, <3>3, <6>2, <6>3
          <5> QED BY <3>3, <4>1, <5>1 DEF Mirrored
        <4>2. CASE configGen[t].new # configKv
          <5>1. MirrorPending
            BY <3>3, <3>4, <3>6, <4>2 DEF Mirrored, Writing
          <5>2. PICK u \in ConfigTabs : Writing(u) /\ configGen[u].new = configKv
            BY <5>1 DEF MirrorPending
          <5>3. configGen'[u] = configGen[u]
            BY <3>2, <4>2, <5>2
          <5> QED BY <3>3, <5>2, <5>3 DEF MirrorPending, Writing
        <4> QED BY <4>1, <4>2
      <3> QED BY <1>t, <3>5, <3>7, <3>9, <3>10, <3>11 DEF ConfigInv
    <2> QED BY <2>1, <2>2, <2>3, <2>4, <2>5, <2>6, <2>7, <2>8, <2>9, <2>10, <2>11, <2>12, <2>13,
               <2>14
            DEF Config!Panel, Config!Handlers
  <1> QED BY <1>1, <1>2, <1>3

LEMMA MirroredHeld == ConfigInv => Config!KeyIsMirrored
  BY DEF ConfigInv, Calm, Config!KeyIsMirrored, Config!Quiet, Mirrored, MirrorPending, Writing

(* What is copied from elsewhere settles on it: the key that is mirrored  *)
(* in KV, the score of a contact and the counts that an import shows, for *)
(* any number of tabs, scorers and jobs and any file (settings.ts:116,    *)
(* leads.ts:172-233, import-processor.ts:53-109).                         *)
THEOREM CopiesAreSettled == Spec => []CopiesSettle
  <1>1. Init => ConfigInv /\ ScoringInv /\ ImportShows
    BY InitConfigInv, InitScoringInv, InitImportShows DEF Init
  <1>2. ConfigInv /\ ScoringInv /\ ImportShows /\ [Next]_vars => ConfigInv' /\ ScoringInv' /\ ImportShows'
    BY NextConfigInv, NextScoringInv, NextImportShows, StepOfPart
  <1>3. ConfigInv /\ ScoringInv /\ ImportShows => CopiesSettle
    BY MirroredHeld, AccountedHeld DEF CopiesSettle, ScoringInv
  <1> QED BY <1>1, <1>2, <1>3, PTL DEF Spec

-----------------------------------------------------------------------------
(* The campaign form.  The steps are numbered from 0 while none was taken    *)
(* out, each with a credential of its channel; a click carries such a list;  *)
(* and what is stored of it is its beginning.                                *)
Numbered(q) == \A i \in 1..Len(q) : q[i].index = i - 1
Fitting(q)  == \A i \in 1..Len(q) : q[i].credential = q[i].channel
Begins(p, q) == Len(p) <= Len(q) /\ \A i \in 1..Len(p) : p[i] = q[i]

FormLists ==
  /\ formBound \in {Form!None, formChannel}
  /\ Fitting(formSteps) /\ (formRemoved \/ Numbered(formSteps))
  /\ \A s \in FormSubmits :
       /\ Fitting(formPayload[s]) /\ (formRemoved \/ Numbered(formPayload[s]))
       /\ Begins(formStored[s], formPayload[s])
       /\ formSubmit[s] \in {"idle", "template"} => formStored[s] = <<>>
       /\ formSubmit[s] = "created" => Len(formStored[s]) = Len(formPayload[s])

FormTypes ==
  /\ formChannel \in FormChannels /\ formBound \in FormChannels \cup {Form!None}
  /\ formSteps \in Seq(Form!Step) /\ Len(formSteps) <= FormMaxSteps
  /\ formLoaded \in BOOLEAN /\ formLoads \subseteq FormChannels
  /\ formOpen \in BOOLEAN /\ formSaving \in BOOLEAN
  /\ formSubmit \in [FormSubmits -> Form!Places]
  /\ formPayload \in [FormSubmits -> Seq(Form!Step)]
  /\ formStored \in [FormSubmits -> Seq(Form!Step)]
  /\ formEdits \in 0..FormMaxEdits /\ formRemoved \in BOOLEAN
  /\ formDoubled \in Nat /\ formFailures \in 0..FormMaxFailures

LEMMA FormTypesAre == FormTypes <=> Form!TypeOK
  BY DEF FormTypes, Form!TypeOK

(* What a list is with one step more, and with one taken out. *)
LEMMA FormAppends ==
  ASSUME NEW S, NEW q \in Seq(S), NEW x \in S
  PROVE  /\ Append(q, x) \in Seq(S) /\ Len(Append(q, x)) = Len(q) + 1
         /\ \A i \in 1..Len(q) : Append(q, x)[i] = q[i]
         /\ Append(q, x)[Len(q) + 1] = x
         /\ Len(q) \in Nat
  BY AppendProperties, LenProperties

Without(q, k) == SubSeq(q, 1, k - 1) \o SubSeq(q, k + 1, Len(q))

LEMMA FormTakesOut ==
  ASSUME NEW S, NEW q \in Seq(S), NEW k \in 1..Len(q), NEW r, r = Without(q, k)
  PROVE  /\ r \in Seq(S) /\ Len(r) = Len(q) - 1 /\ Len(q) \in Nat
         /\ \A i \in 1..Len(r) : \E j \in 1..Len(q) : r[i] = q[j]
  <1> DEFINE a == SubSeq(q, 1, k - 1)
             b == SubSeq(q, k + 1, Len(q))
  <1>0. Len(q) \in Nat
    BY LenProperties
  <1>1. /\ a \in Seq(S) /\ Len(a) = k - 1 /\ \A i \in 1..Len(a) : a[i] = q[i]
    BY <1>0, SubSeqProperties
  <1>2. /\ b \in Seq(S) /\ Len(b) = Len(q) - k /\ \A i \in 1..Len(b) : b[i] = q[k + i]
    <2>1. CASE k = Len(q)
      BY <1>0, <2>1, SubSeqProperties
    <2>2. CASE k < Len(q)
      <3>1. \A i \in (k + 1)..Len(q) : q[i] \in S
        BY <1>0, ElementOfSeq
      <3> QED BY <1>0, <2>2, <3>1, SubSeqProperties
    <2> QED BY <1>0, <2>1, <2>2
  <1> HIDE DEF a, b
  <1>3. r = a \o b
    BY DEF a, b, Without
  <1>4. /\ r \in Seq(S) /\ Len(r) = Len(a) + Len(b)
        /\ \A i \in 1..(Len(a) + Len(b)) : r[i] = IF i <= Len(a) THEN a[i] ELSE b[i - Len(a)]
    <2> a \in Seq(S) /\ b \in Seq(S)
      BY <1>1, <1>2
    <2> QED BY <1>3, ConcatProperties
  <1>5. k \in Nat /\ k >= 1 /\ k <= Len(q) /\ Len(r) = Len(q) - 1
    BY <1>0, <1>1, <1>2, <1>4
  <1>6. ASSUME NEW i \in 1..Len(r) PROVE \E j \in 1..Len(q) : r[i] = q[j]
    <2>0. i \in Nat /\ i >= 1 /\ i <= Len(q) - 1 /\ i \in 1..(Len(a) + Len(b))
      BY <1>0, <1>4, <1>5
    <2>1. CASE i <= Len(a)
      <3>1. r[i] = q[i]
        BY <1>1, <1>4, <2>0, <2>1
      <3> QED BY <1>0, <2>0, <3>1
    <2>2. CASE ~(i <= Len(a))
      <3>1. r[i] = b[i - Len(a)]
        BY <1>4, <2>0, <2>2
      <3>2. i - Len(a) \in 1..Len(b) /\ k + (i - Len(a)) \in 1..Len(q)
        BY <1>0, <1>1, <1>2, <1>5, <2>0, <2>2
      <3> QED BY <1>2, <3>1, <3>2
    <2> QED BY <2>1, <2>2
  <1> QED BY <1>0, <1>4, <1>5, <1>6

LEMMA InitFormTypes == Form!Init => FormTypes
  <1> FormMaxSteps \in Nat /\ FormMaxEdits \in Nat /\ FormMaxFailures \in Nat /\ "email" \in FormChannels
    BY ServicesAssumption, ServicesBounds
  <1>1. <<>> \in Seq(Form!Step) /\ Len(<<>>) = 0
    BY EmptySeq
  <1> SUFFICES ASSUME Form!Init PROVE FormTypes
    OBVIOUS
  <1>2. formSteps \in Seq(Form!Step) /\ Len(formSteps) <= FormMaxSteps
    BY <1>1 DEF Form!Init
  <1>3. /\ formPayload \in [FormSubmits -> Seq(Form!Step)]
        /\ formStored \in [FormSubmits -> Seq(Form!Step)]
        /\ formSubmit \in [FormSubmits -> Form!Places]
    BY <1>1 DEF Form!Init, Form!Places
  <1>4. formEdits \in 0..FormMaxEdits /\ formFailures \in 0..FormMaxFailures /\ formDoubled \in Nat
    BY DEF Form!Init
  <1>5. /\ formChannel \in FormChannels /\ formBound \in FormChannels \cup {Form!None}
        /\ formLoaded \in BOOLEAN /\ formLoads \subseteq FormChannels
        /\ formOpen \in BOOLEAN /\ formSaving \in BOOLEAN /\ formRemoved \in BOOLEAN
    BY DEF Form!Init
  <1> QED BY <1>2, <1>3, <1>4, <1>5 DEF FormTypes

(* What AddStep and SubmitInline put in a list is a step. *)
LEMMA FormStepTypes ==
  ASSUME FormTypes
  PROVE  /\ formBound # Form!None /\ Len(formSteps) < FormMaxSteps =>
              [index |-> Len(formSteps), channel |-> formChannel, credential |-> formBound] \in Form!Step
         /\ [index |-> 0, channel |-> "email", credential |-> "email"] \in Form!Step
         /\ Len(formSteps) \in Nat
  <1> FormMaxSteps \in Nat \ {0} /\ "email" \in FormChannels
    BY ServicesBounds
  <1>1. Len(formSteps) \in Nat
    BY LenProperties DEF FormTypes
  <1> QED BY <1>1 DEF FormTypes, Form!Step

(* The rest of a list that is being stored. *)
LEMMA FormRest ==
  ASSUME FormTypes, NEW s \in FormSubmits, Len(formStored[s]) <= Len(formPayload[s])
  PROVE  /\ Len(formStored[s]) \in Nat /\ Len(formPayload[s]) \in Nat
         /\ Form!Rest(s) = <<>> <=> Len(formStored[s]) = Len(formPayload[s])
         /\ Form!Rest(s) # <<>> => /\ Head(Form!Rest(s)) = formPayload[s][Len(formStored[s]) + 1]
                                  /\ Head(Form!Rest(s)) \in Form!Step
  <1> DEFINE p == formPayload[s]
             n == Len(formStored[s])
  <1>1. p \in Seq(Form!Step) /\ n \in Nat /\ Len(p) \in Nat /\ n <= Len(p)
    BY LenProperties DEF FormTypes
  <1>2. \A i \in (n + 1)..Len(p) : p[i] \in Form!Step
    BY <1>1, ElementOfSeq
  <1> DEFINE r == SubSeq(p, n + 1, Len(p))
  <1>3. Form!Rest(s) = r
    BY DEF Form!Rest
  <1> HIDE DEF p, n
  <1>4. /\ r \in Seq(Form!Step)
        /\ Len(r) = IF n + 1 <= Len(p) THEN Len(p) - (n + 1) + 1 ELSE 0
        /\ \A i \in 1..(Len(p) - (n + 1) + 1) : r[i] = p[n + 1 + i - 1]
    BY <1>1, <1>2, SubSeqProperties
  <1> HIDE DEF r
  <1>5. r = <<>> <=> n = Len(p)
    BY <1>1, <1>4, EmptySeq
  <1>6. r # <<>> => Head(r) = p[n + 1] /\ Head(r) \in Form!Step
    <2> SUFFICES ASSUME r # <<>> PROVE Head(r) = p[n + 1] /\ Head(r) \in Form!Step
      OBVIOUS
    <2>1. Head(r) = r[1]
      BY <1>4, HeadTailProperties
    <2>2. n + 1 <= Len(p)
      BY <1>1, <1>5
    <2>3. r[1] = p[n + 1]
      BY <1>1, <1>4, <2>2
    <2> QED BY <1>1, <1>2, <2>1, <2>2, <2>3
  <1> QED BY <1>1, <1>3, <1>5, <1>6 DEF p, n

LEMMA NextFormTypes ==
  ASSUME FormTypes, FormLists, Form!Next \/ UNCHANGED formVars
  PROVE  FormTypes'
  <1> FormMaxSteps \in Nat \ {0} /\ FormMaxEdits \in Nat /\ FormMaxFailures \in Nat
      /\ "email" \in FormChannels /\ IsFiniteSet(FormSubmits)
    BY ServicesAssumption, ServicesBounds
  <1>0. Len(formSteps) \in Nat
    BY FormStepTypes
  <1>1. ASSUME NEW ch \in FormChannels, Form!SetChannel(ch) \/ Form!Loaded(ch) \/ Form!LoadFails(ch)
        PROVE  FormTypes'
    <2>1. CASE Form!SetChannel(ch)
      <3>1. /\ UNCHANGED <<formSteps, formLoaded, formSubmit, formPayload, formStored, formSaving,
                           formOpen, formRemoved, formDoubled, formFailures>>
            /\ formChannel' = ch /\ formLoads' = formLoads \cup {ch}
            /\ formEdits < FormMaxEdits /\ formEdits' = formEdits + 1
            /\ formBound' \in {ch, Form!None}
        BY <2>1 DEF Form!SetChannel, Form!CredentialFor, Form!server
      <3> QED BY <3>1 DEF FormTypes
    <2>2. CASE Form!Loaded(ch)
      BY <2>2 DEF FormTypes, Form!Loaded, Form!CredentialFor, Form!server, Form!counts
    <2>3. CASE Form!LoadFails(ch)
      BY <2>3 DEF FormTypes, Form!LoadFails, Form!server
    <2> QED BY <1>1, <2>1, <2>2, <2>3
  <1>2. CASE Form!AddStep
    <2>1. /\ formSteps' \in Seq(Form!Step) /\ Len(formSteps') <= FormMaxSteps
      BY <1>2, <1>0, FormStepTypes, FormAppends DEF FormTypes, Form!AddStep
    <2> QED BY <1>2, <2>1 DEF FormTypes, Form!AddStep, Form!server, Form!counts
  <1>3. CASE Form!Close
    BY <1>3 DEF FormTypes, Form!Close, Form!form, Form!counts
  <1>4. ASSUME NEW i \in 1..Len(formSteps), Form!RemoveStep(i)
        PROVE  FormTypes'
    <2>1. formSteps' = Without(formSteps, i)
      BY <1>4 DEF Form!RemoveStep, Without
    <2>2. formSteps \in Seq(Form!Step) /\ Len(formSteps) <= FormMaxSteps
      BY DEF FormTypes
    <2>3. /\ formSteps' \in Seq(Form!Step) /\ Len(formSteps') <= FormMaxSteps
      <3>1. /\ formSteps' \in Seq(Form!Step) /\ Len(formSteps') = Len(formSteps) - 1
        BY <2>1, <2>2, FormTakesOut
      <3> DEFINE n == Len(formSteps)
                 m == Len(formSteps')
      <3>2. n \in Nat /\ n <= FormMaxSteps /\ m = n - 1
        BY <1>0, <2>2, <3>1
      <3> HIDE DEF n, m
      <3>3. m <= FormMaxSteps
        BY <3>2
      <3> QED BY <3>1, <3>3 DEF m
    <2>4. formEdits' \in 0..FormMaxEdits
      BY <1>4 DEF FormTypes, Form!RemoveStep
    <2>5. formRemoved' = TRUE /\ UNCHANGED <<formChannel, formBound, formLoaded, formLoads, formSubmit,
            formPayload, formStored, formSaving, formOpen, formDoubled, formFailures>>
      BY <1>4 DEF Form!RemoveStep, Form!server
    <2> QED BY <2>3, <2>4, <2>5 DEF FormTypes
  <1>5. ASSUME NEW s \in FormSubmits, Form!SubmitStep(s)
        PROVE  FormTypes'
    <2>1. IsFiniteSet(Form!Creating) /\ Form!Cardinality(Form!Creating) \in Nat
      <3>1. IsFiniteSet(Form!Creating)
        BY FS_Subset DEF Form!Creating
      <3> QED BY <3>1, FS_CardinalityType DEF Form!Cardinality, Cardinality
    <2>2. CASE Form!SubmitSteps(s)
      BY <2>1, <2>2 DEF FormTypes, Form!SubmitSteps, Form!form, Form!Places
    <2>3. CASE Form!SubmitInline(s)
      <3>1. <<[index |-> 0, channel |-> "email", credential |-> "email"]>> \in Seq(Form!Step)
        BY FormStepTypes
      <3> QED BY <2>1, <2>3, <3>1 DEF FormTypes, Form!SubmitInline, Form!form, Form!Places
    <2>4. CASE Form!TemplateCreated(s)
      BY <2>4 DEF FormTypes, Form!TemplateCreated, Form!form, Form!counts, Form!Places
    <2>5. CASE Form!InsertCampaign(s)
      BY <2>5 DEF FormTypes, Form!InsertCampaign, Form!form, Form!counts, Form!Places
    <2>6. CASE Form!InsertStep(s)
      <3>1. Head(Form!Rest(s)) \in Form!Step
        BY <2>6, FormRest DEF Form!InsertStep, FormLists, Begins
      <3>2. Append(formStored[s], Head(Form!Rest(s))) \in Seq(Form!Step)
        BY <3>1, FormAppends DEF FormTypes
      <3> QED BY <2>6, <3>2 DEF FormTypes, Form!InsertStep, Form!form, Form!counts
    <2>7. CASE Form!Created(s)
      BY <2>7 DEF FormTypes, Form!Created, Form!form, Form!counts, Form!Places
    <2>8. CASE Form!NumberTaken(s)
      BY <2>8 DEF FormTypes, Form!NumberTaken, Form!Refused, Form!form, Form!Places
    <2>9. CASE Form!RequestFails(s)
      <3>1. /\ UNCHANGED <<formChannel, formSteps, formBound, formLoaded, formLoads, formPayload,
                           formStored, formOpen, formEdits, formRemoved, formDoubled>>
            /\ formSubmit' = [formSubmit EXCEPT ![s] = "failed"] /\ formSaving' = FALSE
            /\ formFailures < FormMaxFailures /\ formFailures' = formFailures + 1
        BY <2>9 DEF Form!RequestFails, Form!Refused, Form!form
      <3>2. formFailures' \in 0..FormMaxFailures
        BY <3>1 DEF FormTypes
      <3>3. formSubmit' \in [FormSubmits -> Form!Places]
        BY <3>1 DEF FormTypes, Form!Places
      <3> QED BY <3>1, <3>2, <3>3 DEF FormTypes
    <2> QED BY <1>5, <2>2, <2>3, <2>4, <2>5, <2>6, <2>7, <2>8, <2>9 DEF Form!SubmitStep
  <1>6. CASE UNCHANGED formVars
    BY <1>6 DEF FormTypes, formVars
  <1> QED BY <1>1, <1>2, <1>3, <1>4, <1>5, <1>6 DEF Form!Next

LEMMA InitFormLists == Form!Init => FormLists
  <1> SUFFICES ASSUME Form!Init PROVE FormLists
    OBVIOUS
  <1>1. Len(<<>>) = 0 /\ 1..0 = {}
    BY EmptySeq
  <1>2. Fitting(<<>>) /\ Numbered(<<>>) /\ Begins(<<>>, <<>>)
    BY <1>1 DEF Fitting, Numbered, Begins
  <1> QED BY <1>1, <1>2 DEF FormLists, Form!Init, Form!None

LEMMA NextFormLists ==
  ASSUME FormTypes, FormLists, Form!Next \/ UNCHANGED formVars
  PROVE  FormLists'
  <1>0. /\ formSteps \in Seq(Form!Step) /\ Len(formSteps) \in Nat
        /\ formPayload \in [FormSubmits -> Seq(Form!Step)]
        /\ formStored \in [FormSubmits -> Seq(Form!Step)]
        /\ formSubmit \in [FormSubmits -> Form!Places]
    BY FormStepTypes DEF FormTypes
  <1> DEFINE Same == /\ formPayload' = formPayload /\ formStored' = formStored
                     /\ formSubmit' = formSubmit
  <1>1. ASSUME NEW ch \in FormChannels, Form!SetChannel(ch) \/ Form!Loaded(ch) \/ Form!LoadFails(ch)
        PROVE  FormLists'
    BY <1>1 DEF FormLists, Form!SetChannel, Form!Loaded, Form!LoadFails, Form!CredentialFor,
                Form!server, Form!counts
  <1>2. CASE Form!AddStep
    <2> DEFINE x == [index |-> Len(formSteps), channel |-> formChannel, credential |-> formBound]
    <2>1. formSteps' = Append(formSteps, x) /\ formBound = formChannel /\ formBound' = Form!None
      BY <1>2 DEF Form!AddStep, FormLists
    <2>2. x \in Form!Step
      BY <1>2, FormStepTypes DEF Form!AddStep
    <2>3. x.index = Len(formSteps) /\ x.credential = x.channel
      BY <2>1
    <2> HIDE DEF x
    <2>4. /\ Len(formSteps') = Len(formSteps) + 1
          /\ \A i \in 1..Len(formSteps) : formSteps'[i] = formSteps[i]
          /\ formSteps'[Len(formSteps) + 1] = x
      BY <1>0, <2>1, <2>2, FormAppends
    <2>5. \A i \in 1..Len(formSteps') : i \in 1..Len(formSteps) \/ i = Len(formSteps) + 1
      BY <1>0, <2>4
    <2>6. Fitting(formSteps')
      BY <2>3, <2>4, <2>5 DEF Fitting, FormLists
    <2>7. formRemoved \/ Numbered(formSteps')
      <3> SUFFICES ASSUME ~formRemoved, NEW i \in 1..Len(formSteps')
                   PROVE  formSteps'[i].index = i - 1
        BY DEF Numbered
      <3>1. \A j \in 1..Len(formSteps) : formSteps[j].index = j - 1
        BY DEF Numbered, FormLists
      <3>2. CASE i \in 1..Len(formSteps)
        BY <2>4, <3>1, <3>2
      <3>3. CASE i = Len(formSteps) + 1
        BY <1>0, <2>3, <2>4, <3>3
      <3> QED BY <2>5, <3>2, <3>3
    <2> QED BY <1>2, <2>1, <2>6, <2>7 DEF FormLists, Form!AddStep, Form!server, Form!counts
  <1>3. CASE Form!Close
    BY <1>3 DEF FormLists, Form!Close, Form!form, Form!counts
  <1>4. ASSUME NEW i \in 1..Len(formSteps), Form!RemoveStep(i)
        PROVE  FormLists'
    <2>1. formSteps' = Without(formSteps, i)
      BY <1>4 DEF Form!RemoveStep, Without
    <2>2. \A k \in 1..Len(formSteps') : \E j \in 1..Len(formSteps) : formSteps'[k] = formSteps[j]
      BY <1>0, <2>1, FormTakesOut
    <2>3. Fitting(formSteps')
      BY <2>2 DEF Fitting, FormLists
    <2> QED BY <1>4, <2>3 DEF FormLists, Form!RemoveStep, Form!server
  <1>5. ASSUME NEW s \in FormSubmits, Form!SubmitStep(s)
        PROVE  FormLists'
    <2>1. CASE Form!SubmitSteps(s)
      <3>1. formStored[s] = <<>>
        BY <2>1 DEF Form!SubmitSteps, FormLists
      <3>2. Begins(<<>>, formSteps)
        <4> Len(<<>>) = 0 /\ 1..0 = {}
          OBVIOUS
        <4> QED BY <1>0 DEF Begins
      <3> QED BY <1>0, <2>1, <3>1, <3>2 DEF FormLists, Form!SubmitSteps, Form!form
    <2>2. CASE Form!SubmitInline(s)
      <3> DEFINE q == <<[index |-> 0, channel |-> "email", credential |-> "email"]>>
      <3>1. formStored[s] = <<>>
        BY <2>2 DEF Form!SubmitInline, FormLists
      <3>2. Len(q) = 1 /\ q[1].index = 0 /\ q[1].credential = q[1].channel
        OBVIOUS
      <3>3. formPayload' = [formPayload EXCEPT ![s] = q]
        BY <2>2 DEF Form!SubmitInline
      <3> HIDE DEF q
      <3>4. Fitting(q) /\ Numbered(q) /\ Begins(<<>>, q)
        <4>1. \A i \in 1..1 : i = 1
          OBVIOUS
        <4>2. Len(<<>>) = 0 /\ 1..0 = {}
          OBVIOUS
        <4> QED BY <3>2, <4>1, <4>2 DEF Fitting, Numbered, Begins
      <3> QED BY <1>0, <2>2, <3>1, <3>3, <3>4 DEF FormLists, Form!SubmitInline, Form!form
    <2>3. CASE Form!TemplateCreated(s)
      BY <1>0, <2>3 DEF FormLists, Form!TemplateCreated, Form!form, Form!counts
    <2>4. CASE Form!InsertCampaign(s)
      BY <1>0, <2>4 DEF FormLists, Form!InsertCampaign, Form!form, Form!counts
    <2>5. CASE Form!InsertStep(s)
      <3> DEFINE p == formPayload[s]
                 q == formStored[s]
                 x == Head(Form!Rest(s))
      <3>1. /\ p \in Seq(Form!Step) /\ q \in Seq(Form!Step) /\ Begins(q, p)
            /\ formSubmit[s] = "steps" /\ Form!Rest(s) # <<>>
            /\ formStored' = [formStored EXCEPT ![s] = Append(q, x)]
        BY <1>0, <2>5 DEF Form!InsertStep, FormLists
      <3>2. /\ Len(q) \in Nat /\ Len(p) \in Nat /\ Len(q) < Len(p) /\ x = p[Len(q) + 1]
            /\ x \in Form!Step
        BY <3>1, FormRest DEF Begins
      <3> HIDE DEF p, q, x
      <3>3. /\ Append(q, x) \in Seq(Form!Step) /\ Len(Append(q, x)) = Len(q) + 1
            /\ \A i \in 1..Len(q) : Append(q, x)[i] = q[i]
            /\ Append(q, x)[Len(q) + 1] = x
        BY <3>1, <3>2, FormAppends
      <3>4. Begins(Append(q, x), p)
        <4> DEFINE r == Append(q, x)
        <4> HIDE DEF r
        <4>1. \A i \in 1..Len(r) : i \in 1..Len(q) \/ i = Len(q) + 1
          BY <3>2, <3>3 DEF r
        <4> QED BY <3>1, <3>2, <3>3, <4>1 DEF Begins, r
      <3> QED BY <1>0, <2>5, <3>1, <3>4 DEF FormLists, Form!InsertStep, Form!form, Form!counts, p
    <2>6. CASE Form!Created(s)
      <3>1. Len(formStored[s]) = Len(formPayload[s])
        BY <2>6, FormRest DEF Form!Created, FormLists, Begins
      <3> QED BY <1>0, <2>6, <3>1 DEF FormLists, Form!Created, Form!form, Form!counts
    <2>7. CASE Form!NumberTaken(s)
      BY <1>0, <2>7 DEF FormLists, Form!NumberTaken, Form!Refused, Form!form
    <2>8. CASE Form!RequestFails(s)
      BY <1>0, <2>8 DEF FormLists, Form!RequestFails, Form!Refused, Form!form
    <2> QED BY <1>5, <2>1, <2>2, <2>3, <2>4, <2>5, <2>6, <2>7, <2>8 DEF Form!SubmitStep
  <1>6. CASE UNCHANGED formVars
    BY <1>6 DEF FormLists, formVars
  <1> QED BY <1>1, <1>2, <1>3, <1>4, <1>5, <1>6 DEF Form!Next

-----------------------------------------------------------------------------
(* The clicks that may make a campaign: those of an open form whose button   *)
(* is enabled, but for the ones at their inline template, are all counted.   *)
Making   == {s \in FormSubmits : formSubmit[s] \notin {"idle", "failed"}}
Inserted == {s \in FormSubmits : formSubmit[s] \notin {"idle", "failed", "template"}}

FormClicks ==
  /\ Cardinality(Making) <= 1 + formDoubled
  /\ formOpen /\ ~formSaving => Cardinality(Inserted) <= formDoubled

LEMMA FormDisjoint ==
  ASSUME NEW S, NEW T, IsFiniteSet(S), IsFiniteSet(T), S \cap T = {}
  PROVE  Cardinality(S \cup T) = Cardinality(S) + Cardinality(T)
  <1>1. Cardinality(S \cup T) = Cardinality(S) + Cardinality(T) - Cardinality(S \cap T)
    BY FS_Union
  <1>2. Cardinality(S \cap T) = 0
    BY FS_EmptySet
  <1>3. Cardinality(S) \in Nat /\ Cardinality(T) \in Nat
    BY FS_CardinalityType
  <1> QED BY <1>1, <1>2, <1>3

LEMMA FormCounts ==
  ASSUME NEW S, IsFiniteSet(S), NEW f \in [S -> Form!Places]
  PROVE  LET idle == {s \in S : f[s] # "idle"}
             made == {s \in S : f[s] \notin {"idle", "failed"}}
             ins  == {s \in S : f[s] \notin {"idle", "failed", "template"}}
             fail == {s \in S : f[s] = "failed"}
             tmpl == {s \in S : f[s] = "template"}
         IN /\ IsFiniteSet(made) /\ IsFiniteSet(ins) /\ IsFiniteSet(fail) /\ IsFiniteSet(tmpl)
            /\ Cardinality(made) \in Nat /\ Cardinality(ins) \in Nat
            /\ Cardinality(fail) \in Nat /\ Cardinality(tmpl) \in Nat
            /\ Cardinality(made) = Cardinality(ins) + Cardinality(tmpl)
            /\ Cardinality(idle) = Cardinality(made) + Cardinality(fail)
  <1> DEFINE idle == {s \in S : f[s] # "idle"}
             made == {s \in S : f[s] \notin {"idle", "failed"}}
             ins  == {s \in S : f[s] \notin {"idle", "failed", "template"}}
             fail == {s \in S : f[s] = "failed"}
             tmpl == {s \in S : f[s] = "template"}
  <1>1. /\ IsFiniteSet(made) /\ IsFiniteSet(ins) /\ IsFiniteSet(fail) /\ IsFiniteSet(tmpl)
    <2>1. made \subseteq S /\ ins \subseteq S /\ fail \subseteq S /\ tmpl \subseteq S
      OBVIOUS
    <2> QED BY <2>1, FS_Subset
  <1>2. /\ made = ins \cup tmpl /\ ins \cap tmpl = {}
        /\ idle = made \cup fail /\ made \cap fail = {}
    OBVIOUS
  <1> HIDE DEF idle, made, ins, fail, tmpl
  <1>3. /\ Cardinality(made) \in Nat /\ Cardinality(ins) \in Nat
        /\ Cardinality(fail) \in Nat /\ Cardinality(tmpl) \in Nat
    BY <1>1, FS_CardinalityType
  <1>4. Cardinality(made) = Cardinality(ins) + Cardinality(tmpl)
    BY <1>1, <1>2, FormDisjoint
  <1>5. Cardinality(idle) = Cardinality(made) + Cardinality(fail)
    BY <1>1, <1>2, FormDisjoint
  <1> QED BY <1>1, <1>3, <1>4, <1>5 DEF idle, made, ins, fail, tmpl

(* What a step does to the clicks, if it is none of the form's own. *)
LEMMA NextFormClicks ==
  ASSUME FormTypes, FormClicks, Form!Next \/ UNCHANGED formVars
  PROVE  FormClicks'
  <1> IsFiniteSet(FormSubmits)
    BY ServicesAssumption, ServicesBounds
  <1>0. formSubmit \in [FormSubmits -> Form!Places] /\ formDoubled \in Nat
    BY DEF FormTypes
  <1>1. /\ IsFiniteSet(Making) /\ IsFiniteSet(Inserted) /\ IsFiniteSet(Form!Creating)
        /\ Cardinality(Making) \in Nat /\ Cardinality(Inserted) \in Nat
        /\ Cardinality(Form!Creating) \in Nat
        /\ Cardinality(Making) = Cardinality(Inserted) + Cardinality(Form!Creating)
    BY <1>0, FormCounts DEF Making, Inserted, Form!Creating
  <1>2. Form!Cardinality(Form!Creating) = Cardinality(Form!Creating)
    BY DEF Form!Cardinality, Cardinality
  <1> DEFINE m == Cardinality(Making)
             n == Cardinality(Inserted)
             k == Cardinality(Form!Creating)
  <1>3. m \in Nat /\ n \in Nat /\ k \in Nat /\ m = n + k /\ n <= m
    BY <1>1
  <1>4. CASE /\ UNCHANGED <<formSubmit, formDoubled>>
             /\ formOpen' = FALSE \/ UNCHANGED <<formOpen, formSaving>>
    <2>1. Making' = Making /\ Inserted' = Inserted
      BY <1>4 DEF Making, Inserted
    <2> QED BY <1>4, <2>1 DEF FormClicks
  <1>5. ASSUME NEW s \in FormSubmits, Form!SubmitStep(s)
        PROVE  FormClicks'
    <2>1. CASE Form!SubmitSteps(s)
      <3>1. /\ Making' = Making \cup {s} /\ s \notin Making /\ formSaving' = TRUE
            /\ formOpen /\ ~formSaving /\ formDoubled' = formDoubled + k
        BY <1>0, <1>2, <2>1 DEF Form!SubmitSteps, Making, Form!Places
      <3>2. Cardinality(Making') = m + 1
        BY <1>1, <3>1, FS_AddElement
      <3> HIDE DEF m, n, k
      <3> QED BY <1>0, <1>3, <3>1, <3>2 DEF FormClicks, n
    <2>2. CASE Form!SubmitInline(s)
      <3>1. /\ Making' = Making \cup {s} /\ s \notin Making /\ Inserted' = Inserted
            /\ formOpen /\ ~formSaving /\ formDoubled' = formDoubled + k
        BY <1>0, <1>2, <2>2 DEF Form!SubmitInline, Making, Inserted, Form!Places
      <3>2. Cardinality(Making') = m + 1 /\ Cardinality(Inserted') = n
        BY <1>1, <3>1, FS_AddElement
      <3> HIDE DEF m, n, k
      <3> QED BY <1>0, <1>3, <3>1, <3>2 DEF FormClicks, n
    <2>3. CASE Form!TemplateCreated(s)
      <3>1. Making' = Making /\ formSaving' = TRUE /\ formDoubled' = formDoubled
        BY <1>0, <2>3 DEF Form!TemplateCreated, Form!counts, Making, Form!Places
      <3> QED BY <3>1 DEF FormClicks
    <2>4. CASE Form!InsertCampaign(s)
      <3>1. /\ Making' = Making /\ Inserted' = Inserted
            /\ UNCHANGED <<formOpen, formSaving, formDoubled>>
        BY <1>0, <2>4 DEF Form!InsertCampaign, Form!counts, Making, Inserted, Form!Places
      <3> QED BY <3>1 DEF FormClicks
    <2>5. CASE Form!InsertStep(s)
      BY <1>4, <2>5 DEF Form!InsertStep, Form!counts
    <2>6. CASE Form!Created(s)
      <3>1. Making' = Making /\ formOpen' = FALSE /\ formDoubled' = formDoubled
        BY <1>0, <2>6 DEF Form!Created, Form!counts, Making, Form!Places
      <3> QED BY <3>1 DEF FormClicks
    <2>7. CASE Form!NumberTaken(s) \/ Form!RequestFails(s)
      <3>1. /\ Making' = Making \ {s} /\ s \in Making /\ Inserted' \subseteq Making'
            /\ formDoubled' = formDoubled
        BY <1>0, <2>7 DEF Form!NumberTaken, Form!RequestFails, Form!Refused, Making, Inserted, Form!Places
      <3>2. Cardinality(Making') = m - 1 /\ IsFiniteSet(Making')
        BY <1>1, <3>1, FS_RemoveElement
      <3>3. Cardinality(Inserted') \in Nat /\ Cardinality(Inserted') <= Cardinality(Making')
        BY <3>1, <3>2, FS_Subset, FS_CardinalityType
      <3>4. m <= 1 + formDoubled
        BY DEF FormClicks
      <3> HIDE DEF m, n, k
      <3>5. Cardinality(Making') <= 1 + formDoubled /\ Cardinality(Inserted') <= formDoubled
        BY <1>0, <1>3, <3>2, <3>3, <3>4
      <3> QED BY <3>1, <3>5 DEF FormClicks
    <2> QED BY <1>5, <2>1, <2>2, <2>3, <2>4, <2>5, <2>6, <2>7 DEF Form!SubmitStep
  <1>6. ASSUME NEW ch \in FormChannels, Form!SetChannel(ch) \/ Form!Loaded(ch) \/ Form!LoadFails(ch)
        PROVE  FormClicks'
    BY <1>4, <1>6 DEF Form!SetChannel, Form!Loaded, Form!LoadFails, Form!server, Form!counts
  <1>7. ASSUME NEW i \in 1..Len(formSteps), Form!RemoveStep(i)
        PROVE  FormClicks'
    BY <1>4, <1>7 DEF Form!RemoveStep, Form!server
  <1>8. CASE Form!AddStep \/ Form!Close \/ UNCHANGED formVars
    BY <1>4, <1>8 DEF Form!AddStep, Form!Close, Form!server, Form!counts, formVars
  <1> QED BY <1>5, <1>6, <1>7, <1>8 DEF Form!Next

-----------------------------------------------------------------------------
FormInv == FormTypes /\ FormLists /\ FormClicks

LEMMA InitFormInv == Form!Init => FormInv
  <1> SUFFICES ASSUME Form!Init PROVE FormInv
    OBVIOUS
  <1>1. Making = {} /\ Inserted = {} /\ formDoubled = 0
    BY DEF Form!Init, Making, Inserted
  <1>2. Cardinality({}) = 0
    BY FS_EmptySet
  <1>3. FormClicks
    BY <1>1, <1>2 DEF FormClicks
  <1> QED BY <1>3, InitFormTypes, InitFormLists DEF FormInv

LEMMA FormInvHolds == FormInv => CampaignIsAsWritten
  <1> SUFFICES ASSUME FormInv PROVE CampaignIsAsWritten
    OBVIOUS
  <1>0. /\ formPayload \in [FormSubmits -> Seq(Form!Step)]
        /\ formStored \in [FormSubmits -> Seq(Form!Step)]
        /\ formSubmit \in [FormSubmits -> Form!Places]
        /\ formDoubled \in Nat
    BY DEF FormInv, FormTypes
  <1>1. ASSUME NEW s \in FormSubmits
        PROVE  /\ formStored[s] \in Seq(Form!Step) /\ formPayload[s] \in Seq(Form!Step)
               /\ Len(formStored[s]) \in Nat /\ Len(formPayload[s]) \in Nat
               /\ Len(formStored[s]) <= Len(formPayload[s])
               /\ \A i \in 1..Len(formStored[s]) :
                    /\ formStored[s][i] = formPayload[s][i] /\ i \in 1..Len(formPayload[s])
    BY <1>0, LenProperties DEF FormInv, FormLists, Begins
  <1>2. Form!StepsAreNumbered
    <2> SUFFICES ASSUME NEW s \in FormSubmits, formSubmit[s] = "created"
                 PROVE  /\ formStored[s] = formPayload[s]
                        /\ \/ formRemoved
                           \/ \A i \in 1..Len(formStored[s]) : formStored[s][i].index = i - 1
      BY DEF Form!StepsAreNumbered
    <2>1. Len(formStored[s]) = Len(formPayload[s])
      BY DEF FormInv, FormLists
    <2>2. formStored[s] = formPayload[s]
      BY <1>1, <2>1, SeqEqual
    <2> QED BY <2>2 DEF FormInv, FormLists, Numbered
  <1>3. Form!CredentialsFit
    BY <1>1 DEF Form!CredentialsFit, FormInv, FormLists, Fitting
  <1>4. Form!OneCampaignPerForm
    <2> DEFINE idle == {s \in FormSubmits : formSubmit[s] # "idle"}
               fail == {s \in FormSubmits : formSubmit[s] = "failed"}
    <2>0. IsFiniteSet(FormSubmits)
      BY ServicesBounds
    <2>1. /\ Cardinality(idle) = Cardinality(Making) + Cardinality(fail)
          /\ Cardinality(Making) \in Nat /\ Cardinality(fail) \in Nat
      BY <1>0, <2>0, FormCounts DEF Making
    <2>2. Cardinality(Making) <= 1 + formDoubled
      BY DEF FormInv, FormClicks
    <2>3. Form!Cardinality(idle) = Cardinality(idle) /\ Form!Cardinality(fail) = Cardinality(fail)
      BY DEF Form!Cardinality, Cardinality
    <2> HIDE DEF idle, fail
    <2>4. Form!Cardinality(idle) <= 1 + Form!Cardinality(fail) + formDoubled
      BY <1>0, <2>1, <2>2, <2>3
    <2> QED BY <2>4 DEF Form!OneCampaignPerForm, idle, fail
  <1> QED BY <1>2, <1>3, <1>4 DEF CampaignIsAsWritten

(* A campaign is created as its form was written, for any number of steps,    *)
(* channels, clicks and failures (Campaigns.tsx:57-187, campaigns.ts:69-99).  *)
THEOREM CampaignsAreAsWritten == Spec => []CampaignIsAsWritten
  <1>1. Init => FormInv
    BY InitFormInv DEF Init
  <1>2. FormInv /\ [Next]_vars => FormInv'
    <2> SUFFICES ASSUME FormInv, [Next]_vars PROVE FormInv'
      OBVIOUS
    <2>1. Form!Next \/ UNCHANGED formVars
      BY StepOfPart
    <2> QED BY <2>1, NextFormTypes, NextFormLists, NextFormClicks DEF FormInv
  <1> QED BY <1>1, <1>2, FormInvHolds, PTL DEF Spec
=============================================================================
