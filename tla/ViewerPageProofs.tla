-------------------------- MODULE ViewerPageProofs ---------------------------
(***************************************************************************)
(* The tables of the viewer are those of its files, its queries read the   *)
(* file they were submitted for, and the panel describes the file it is    *)
(* given and shows what was selected and asked of it, for any sources,     *)
(* objects and queries, files of any shape, and any number of loads,       *)
(* queries, selections and changes of the page.                            *)
(***************************************************************************)
EXTENDS ViewerPage, SequenceFacts

LoadFields == {"source", "key", "endpoint", "at", "name"}
EntryFields == {"id", "query", "display", "file"}

(* A load that registers its table next has its store in the session; and  *)
(* until the endpoint is set, every store is at the same one.              *)
LoadsInv ==
    /\ IsSequence(loads)
    /\ \A i \in DOMAIN loads :
         /\ DOMAIN loads[i] = LoadFields
         /\ loads[i].at = "table" => loads[i].key \in DOMAIN stores
         /\ endpoints = 0 => loads[i].endpoint = endpoint
StoresInv ==
    /\ endpoints \in Nat
    /\ endpoints = 0 => \A key \in DOMAIN stores : stores[key] = endpoint

(* A file's store is there, and gives what was there when it was loaded. *)
FilesInv ==
    /\ IsSequence(files)
    /\ TablesAreOfTheirFiles
    /\ \A i \in DOMAIN files :
         /\ files[i].key \in DOMAIN stores
         /\ endpoints = 0 => files[i].contents = ContentsAt(endpoint, files[i].source)

(* An entry is of a file of the list. *)
ResultsInv ==
    /\ IsSequence(results)
    /\ \A i \in DOMAIN results :
         /\ DOMAIN results[i] = EntryFields
         /\ \E k \in DOMAIN files : results[i].file = files[k]

(* Inductive. *)
ViewerInv == LoadsInv /\ StoresInv /\ FilesInv /\ ResultsInv

-----------------------------------------------------------------------------
LEMMA ViewerInvInit == Init => ViewerInv
<1> SUFFICES ASSUME Init PROVE ViewerInv
    OBVIOUS
<1> USE DEF Init, ViewerInit
<1>1. loads = <<>> \/ \E s : loads = <<Load(s, 1, CHOOSE t \in Tags : TRUE)>>
    OBVIOUS
<1>2. LoadsInv
    <2>1. CASE loads = <<>>
        BY <2>1, EmptyIsSequence DEF LoadsInv
    <2>2. CASE \E s : loads = <<Load(s, 1, CHOOSE t \in Tags : TRUE)>>
        <3>1. PICK s : loads = <<Load(s, 1, CHOOSE t \in Tags : TRUE)>>
            BY <2>2
        <3>2. IsSequence(loads) /\ DOMAIN loads = {1} /\ loads[1] = Load(s, 1, CHOOSE t \in Tags : TRUE)
            BY <3>1, SingletonIsSequence
        <3>3. DOMAIN loads[1] = LoadFields /\ loads[1].at = "footer" /\ loads[1].endpoint = endpoint
            BY <3>2 DEF Load, LoadFields
        <3> QED BY <3>2, <3>3 DEF LoadsInv
    <2> QED BY <1>1, <2>1, <2>2
<1>3. StoresInv /\ FilesInv /\ ResultsInv
    BY EmptyIsSequence DEF StoresInv, FilesInv, ResultsInv, TablesAreOfTheirFiles
<1> QED BY <1>2, <1>3 DEF ViewerInv

-----------------------------------------------------------------------------
(* The steps that leave the tables, the files and the endpoint alone. *)

Settled == UNCHANGED <<endpoint, endpoints, stores, tables, files>>

LEMMA SettledKeepsFiles ==
    ASSUME StoresInv, FilesInv, Settled
    PROVE  StoresInv' /\ FilesInv'
BY DEF StoresInv, FilesInv, Settled, TablesAreOfTheirFiles, ContentsAt

LEMMA OpensKeepsLoads ==
    ASSUME LoadsInv, NEW s, NEW tag, Opens(s, tag), UNCHANGED <<endpoint, endpoints, stores>>
    PROVE  LoadsInv'
<1>1. CASE s.accepted = "yes"
    <2> DEFINE load == Load(s, opened', tag)
    <2>1. loads' = Append(loads, load)
        BY <1>1 DEF Opens
    <2>2. DOMAIN load = LoadFields /\ load.at = "footer" /\ load.endpoint = endpoint
        BY DEF Load, LoadFields
    <2>3. /\ IsSequence(loads')
          /\ \A i \in DOMAIN loads' : loads'[i] = load \/ \E k \in DOMAIN loads : loads'[i] = loads[k]
        BY <2>1, AppendIsSequence DEF LoadsInv
    <2> QED BY <2>2, <2>3 DEF LoadsInv
<1>2. CASE s.accepted # "yes"
    BY <1>2 DEF Opens, LoadsInv
<1> QED BY <1>1, <1>2

LEMMA EndLoadKeepsLoads ==
    ASSUME LoadsInv, NEW i \in DOMAIN loads, EndLoad(i), UNCHANGED <<endpoint, endpoints, stores>>
    PROVE  LoadsInv'
<1>1. IsSequence(loads') /\ \A j \in DOMAIN loads' : \E k \in DOMAIN loads : loads'[j] = loads[k]
    BY RemoveAtIsSequence DEF EndLoad, LoadsInv
<1> QED BY <1>1 DEF LoadsInv

(* A new entry, of a file of the list. *)
LEMMA EntryKeepsResults ==
    ASSUME IsSequence(results), NEW fs, NEW k \in DOMAIN fs, NEW id, NEW query,
           \A i \in DOMAIN results : DOMAIN results[i] = EntryFields /\ \E j \in DOMAIN fs : results[i].file = fs[j],
           results' = Append(results, Entry(id, query, fs[k])), files' = fs
    PROVE  ResultsInv'
<1> DEFINE entry == Entry(id, query, fs[k])
<1>1. DOMAIN entry = EntryFields /\ entry.file = fs[k]
    BY DEF Entry, EntryFields
<1>2. /\ IsSequence(results')
      /\ \A i \in DOMAIN results' : results'[i] = entry \/ \E j \in DOMAIN results : results'[i] = results[j]
    BY AppendIsSequence
<1> QED BY <1>1, <1>2 DEF ResultsInv

LEMMA LastIsThere ==
    ASSUME NEW s, IsSequence(s), s # <<>>
    PROVE  Len(s) \in DOMAIN s /\ Last(s) = s[Len(s)]
BY DEF IsSequence, Last

(* A hidden entry keeps its file. *)
LEMMA HideKeepsResults ==
    ASSUME ResultsInv, UNCHANGED files, NEW i \in DOMAIN results,
           results' = [results EXCEPT ![i].display = FALSE]
    PROVE  ResultsInv'
<1>1. /\ DOMAIN results' = DOMAIN results
      /\ \A j \in DOMAIN results :
           DOMAIN results'[j] = DOMAIN results[j] /\ results'[j].file = results[j].file
    BY DEF ResultsInv, EntryFields
<1>2. IsSequence(results')
    <2>1. results' = [j \in DOMAIN results |-> results'[j]]
        OBVIOUS
    <2> QED BY <2>1, SameDomainIsSequence DEF ResultsInv
<1> QED BY <1>1, <1>2 DEF ResultsInv
-----------------------------------------------------------------------------
(* A load goes on. *)

LEMMA ReadsFooterKeepsInv ==
    ASSUME ViewerInv, NEW i \in DOMAIN loads, ReadsFooter(i)
    PROVE  ViewerInv'
<1> DEFINE load == loads[i]
<1>1. /\ stores' = IF load.key \in DOMAIN stores THEN stores ELSE Registered(stores, load.key, load.endpoint)
      /\ loads' = [loads EXCEPT ![i].at = "table"]
      /\ UNCHANGED <<endpoint, endpoints, tables, files, results>>
    BY DEF ReadsFooter, page, bounds
<1>2. /\ DOMAIN stores' = DOMAIN stores \cup {load.key}
      /\ \A key \in DOMAIN stores : stores'[key] = stores[key]
      /\ load.key \notin DOMAIN stores => stores'[load.key] = load.endpoint
    BY <1>1 DEF Registered
<1>3. StoresInv'
    BY <1>1, <1>2 DEF ViewerInv, StoresInv, LoadsInv
<1>4. LoadsInv'
    <2>1. loads' = [j \in DOMAIN loads |-> loads'[j]]
        BY <1>1
    <2>2. \A j \in DOMAIN loads : /\ DOMAIN loads'[j] = DOMAIN loads[j]
                                  /\ loads'[j].key = loads[j].key /\ loads'[j].endpoint = loads[j].endpoint
                                  /\ j # i => loads'[j] = loads[j]
        BY <1>1 DEF ViewerInv, LoadsInv, LoadFields
    <2>3. IsSequence(loads')
        BY <2>1, SameDomainIsSequence DEF ViewerInv, LoadsInv
    <2> QED BY <1>1, <1>2, <2>1, <2>2, <2>3 DEF ViewerInv, LoadsInv
<1>5. FilesInv'
    BY <1>1, <1>2 DEF ViewerInv, FilesInv, TablesAreOfTheirFiles, ContentsAt
<1>6. ResultsInv'
    BY <1>1 DEF ViewerInv, ResultsInv
<1> QED BY <1>3, <1>4, <1>5, <1>6 DEF ViewerInv

(* The new table has a name that no file has. *)
LEMMA RegistersTableKeepsInv ==
    ASSUME ViewerInv, NEW i \in DOMAIN loads, RegistersTable(i)
    PROVE  ViewerInv'
<1> DEFINE load == loads[i]
           file == Resolved(load)
<1>1. /\ load.at = "table" /\ load.name \notin DOMAIN tables
      /\ tables' = Registered(tables, load.name, [key |-> load.key, source |-> load.source])
      /\ files' = Append(files, file)
      /\ results' = Append(results, Entry(Len(results), DefaultQuery, file))
      /\ EndLoad(i)
      /\ UNCHANGED <<endpoint, endpoints, stores>>
    BY DEF RegistersTable, CanRegister, bounds
<1>2. /\ file.registered = load.name /\ file.key = load.key /\ file.source = load.source
      /\ file.contents = ContentsAt(load.endpoint, load.source)
    BY DEF Resolved
<1>3. /\ load.key \in DOMAIN stores
      /\ endpoints = 0 => load.endpoint = endpoint
    BY <1>1 DEF ViewerInv, LoadsInv
<1>4. /\ DOMAIN tables' = DOMAIN tables \cup {load.name}
      /\ tables'[load.name] = [key |-> load.key, source |-> load.source]
      /\ \A name \in DOMAIN tables : tables'[name] = tables[name]
    BY <1>1 DEF Registered
<1>5. /\ IsSequence(files)
      /\ IsSequence(files') /\ Len(files) \in Nat /\ DOMAIN files = 1..Len(files)
      /\ DOMAIN files' = 1..Len(files) + 1 /\ files'[Len(files) + 1] = file
      /\ \A k \in DOMAIN files : files'[k] = files[k]
    BY <1>1, AppendAtTheEnd DEF ViewerInv, FilesInv
<1>6. LoadsInv' /\ StoresInv'
    BY <1>1, EndLoadKeepsLoads DEF ViewerInv, StoresInv
<1>7. FilesInv'
    <2>1. \A k \in DOMAIN files' : k \in DOMAIN files \/ k = Len(files) + 1
        BY <1>5
    <2>2. \A k \in DOMAIN files' :
             /\ files'[k].registered \in DOMAIN tables'
             /\ tables'[files'[k].registered] = [key |-> files'[k].key, source |-> files'[k].source]
             /\ files'[k].key \in DOMAIN stores'
             /\ endpoints' = 0 => files'[k].contents = ContentsAt(endpoint', files'[k].source)
        BY <1>1, <1>2, <1>3, <1>4, <1>5, <2>1 DEF ViewerInv, FilesInv, TablesAreOfTheirFiles
    <2>3. \A j, k \in DOMAIN files' : j # k => files'[j].registered # files'[k].registered
        <3>1. \A k \in DOMAIN files : files'[k].registered \in DOMAIN tables
            BY <1>5 DEF ViewerInv, FilesInv, TablesAreOfTheirFiles
        <3>2. files'[Len(files) + 1].registered \notin DOMAIN tables
            BY <1>1, <1>2, <1>5
        <3>3. \A j, k \in DOMAIN files : j # k => files'[j].registered # files'[k].registered
            BY <1>5 DEF ViewerInv, FilesInv, TablesAreOfTheirFiles
        <3> QED BY <2>1, <3>1, <3>2, <3>3
    <2> QED BY <1>5, <2>2, <2>3 DEF FilesInv, TablesAreOfTheirFiles, ContentsAt
<1>8. ResultsInv'
    <2>1. /\ Len(files) + 1 \in DOMAIN files'
          /\ results' = Append(results, Entry(Len(results), DefaultQuery, files'[Len(files) + 1]))
        BY <1>1, <1>5
    <2>2. \A k \in DOMAIN results : DOMAIN results[k] = EntryFields /\ \E j \in DOMAIN files' : results[k].file = files'[j]
        BY <1>5 DEF ViewerInv, ResultsInv
    <2> QED BY <2>1, <2>2, EntryKeepsResults DEF ViewerInv, ResultsInv
<1> QED BY <1>6, <1>7, <1>8 DEF ViewerInv
-----------------------------------------------------------------------------
LEMMA ViewerNextKeepsInv ==
    ASSUME ViewerInv, ViewerNext
    PROVE  ViewerInv'
<1> USE DEF ViewerInv
<1>1. CASE OpenAny
    <2>1. PICK s \in Sources, tag \in Tags : OpenSource(s, tag)
        BY <1>1 DEF OpenAny
    <2>2. Opens(s, tag) /\ Settled /\ UNCHANGED results
        BY <2>1 DEF OpenSource, Settled, session
    <2> QED BY <2>2, OpensKeepsLoads, SettledKeepsFiles DEF Settled, ResultsInv
<1>2. CASE SetEndpoint
    BY <1>2 DEF SetEndpoint, session, page, LoadsInv, StoresInv, FilesInv, TablesAreOfTheirFiles, ResultsInv
<1>3. CASE \E i \in DOMAIN loads : LoadPanics(i) \/ LoadFails(i)
    <2>1. PICK i \in DOMAIN loads : EndLoad(i) /\ Settled /\ UNCHANGED results
        BY <1>3 DEF LoadPanics, LoadFails, Settled, session, page, bounds
    <2> QED BY <2>1, EndLoadKeepsLoads, SettledKeepsFiles DEF Settled, ResultsInv
<1>4. CASE \E i \in DOMAIN loads : ReadsFooter(i)
    BY <1>4, ReadsFooterKeepsInv
<1>5. CASE \E i \in DOMAIN loads : RegistersTable(i)
    BY <1>5, RegistersTableKeepsInv
<1>6. CASE TypeQuery
    <2>1. Settled /\ UNCHANGED <<loads, results>>
        BY <1>6 DEF TypeQuery, Settled, session
    <2> QED BY <2>1, SettledKeepsFiles DEF Settled, LoadsInv, ResultsInv
<1>7. CASE SubmitQuery
    <2>1. /\ Settled /\ UNCHANGED loads /\ files # <<>>
          /\ results' = Append(results, Entry(Len(results), input, Last(files)))
        BY <1>7 DEF SubmitQuery, QueryInputShown, Settled, session
    <2>2. Len(files) \in DOMAIN files /\ results' = Append(results, Entry(Len(results), input, files[Len(files)]))
        BY <2>1, LastIsThere DEF FilesInv
    <2>3. ResultsInv'
        BY <2>1, <2>2, EntryKeepsResults, SMTT(30) DEF Settled, ResultsInv
    <2> QED BY <2>1, <2>3, SettledKeepsFiles DEF Settled, LoadsInv
<1>8. CASE \E i \in DOMAIN results : Hide(results[i].id)
    <2>1. PICK i : /\ Settled /\ UNCHANGED loads
                   /\ results' = [results EXCEPT ![i].display = FALSE]
        BY <1>8 DEF Hide, Settled, session
    <2>2. CASE i \in DOMAIN results
        BY <2>1, <2>2, HideKeepsResults, SettledKeepsFiles DEF Settled, LoadsInv
    <2>3. CASE i \notin DOMAIN results
        <3>1. results' = [j \in DOMAIN results |-> results[j]]
            BY <2>1, <2>3
        <3>2. IsSequence(results') /\ \A j \in DOMAIN results : results'[j] = results[j]
            BY <3>1, SameDomainIsSequence DEF ResultsInv
        <3> QED BY <2>1, <3>1, <3>2, SettledKeepsFiles DEF Settled, LoadsInv, ResultsInv
    <2> QED BY <2>2, <2>3
<1>9. CASE ToRewriter \/ ToViewer
    <2>1. Settled /\ UNCHANGED <<loads, results>>
        BY <1>9 DEF ToRewriter, ToViewer, Settled, session, page, bounds
    <2> QED BY <2>1, SettledKeepsFiles DEF Settled, LoadsInv, ResultsInv
<1>10. CASE BackToLink
    <2>1. Opens(linked[1], CHOOSE t \in Tags : TRUE) /\ Settled /\ UNCHANGED results
        BY <1>10 DEF BackToLink, Settled, session
    <2> QED BY <2>1, OpensKeepsLoads, SettledKeepsFiles DEF Settled, ResultsInv
<1> QED BY <1>1, <1>2, <1>3, <1>4, <1>5, <1>6, <1>7, <1>8, <1>9, <1>10 DEF ViewerNext

LEMMA ViewerInvNext == ViewerInv /\ [Next]_vars => ViewerInv'
<1> SUFFICES ASSUME ViewerInv, [Next]_vars
             PROVE  ViewerInv'
    OBVIOUS
<1>1. CASE ViewerNext
    BY <1>1, ViewerNextKeepsInv
<1>2. CASE UNCHANGED viewerVars
    BY <1>2, SettledKeepsFiles
    DEF viewerVars, session, page, bounds, Settled, ViewerInv, LoadsInv, ResultsInv
<1>3. [Next]_vars => ViewerNext \/ UNCHANGED viewerVars
    BY DEF Next, PanelNext, PanelWaits, Click, vars
<1> QED BY <1>1, <1>2, <1>3

-----------------------------------------------------------------------------
(* The list and the session agree, however loads of one name overlap: each *)
(* file has its own table, under its own name.                             *)
THEOREM FilesHaveTheirTables == Spec => []TablesAreOfTheirFiles
<1>1. ViewerInv => TablesAreOfTheirFiles
    BY DEF ViewerInv, FilesInv
<1> QED BY <1>1, ViewerInvInit, ViewerInvNext, PTL DEF Spec

(* The first query of a file and any that names it read that file's table, *)
(* and as long as the endpoint stays what it was, the bytes whose metadata *)
(* is shown: user_input_to_sql is given the file of the entry.             *)
THEOREM QueriesReadTheirTables == Spec => []QueriesReadTheirFile
<1>1. ViewerInv => QueriesReadTheirFile
    <2> SUFFICES ASSUME ViewerInv, NEW i \in DOMAIN results, Names(results[i].query, results[i].file)
                 PROVE  LET file == results[i].file
                            name == SqlTable(results[i].query, file)
                        IN /\ name \in DOMAIN tables
                           /\ tables[name].source = file.source
                           /\ endpoints = 0 => ContentsAt(stores[tables[name].key], tables[name].source) = file.contents
        BY DEF QueriesReadTheirFile
    <2>1. PICK k \in DOMAIN files : results[i].file = files[k]
        BY DEF ViewerInv, ResultsInv
    <2>2. SqlTable(results[i].query, files[k]) = files[k].registered
        BY <2>1 DEF Names, SqlTable
    <2>3. /\ files[k].registered \in DOMAIN tables
          /\ tables[files[k].registered] = [key |-> files[k].key, source |-> files[k].source]
          /\ files[k].key \in DOMAIN stores
          /\ endpoints = 0 => files[k].contents = ContentsAt(endpoint, files[k].source)
        BY DEF ViewerInv, FilesInv, TablesAreOfTheirFiles
    <2>4. endpoints = 0 => stores[files[k].key] = endpoint
        BY <2>3 DEF ViewerInv, StoresInv
    <2> QED BY <2>1, <2>2, <2>3, <2>4
<1> QED BY <1>1, ViewerInvInit, ViewerInvNext, PTL DEF Spec

-----------------------------------------------------------------------------
(* What the entries become. *)

LEMMA SameIsKept ==
    ASSUME NEW s, IsSequence(s)
    PROVE  Kept(s, s)
BY DEF Kept, IsSequence

LEMMA AppendedIsKept ==
    ASSUME NEW s, IsSequence(s), NEW e
    PROVE  Kept(s, Append(s, e)) /\ Last(Append(s, e)) = e
<1>1. /\ Len(s) \in Nat /\ DOMAIN s = 1..Len(s) /\ Len(Append(s, e)) = Len(s) + 1
      /\ Append(s, e)[Len(s) + 1] = e /\ \A k \in DOMAIN s : Append(s, e)[k] = s[k]
    BY AppendAtTheEnd, AppendKeepsThePrefix
<1> QED BY <1>1 DEF Kept, Last

(* Hidden entries differ in what is displayed only. *)
LEMMA HiddenIsKept ==
    ASSUME ResultsInv, NEW i, results' = [results EXCEPT ![i].display = FALSE]
    PROVE  Kept(results, results')
<1>1. results' = [j \in DOMAIN results |-> results'[j]]
    OBVIOUS
<1>2. IsSequence(results') /\ DOMAIN results' = DOMAIN results
    BY <1>1, SameDomainIsSequence DEF ResultsInv
<1>3. Len(results') = Len(results) /\ Len(results) \in Nat
    BY <1>2 DEF IsSequence, ResultsInv
<1>4. ASSUME NEW j \in DOMAIN results
      PROVE  /\ [results'[j] EXCEPT !.display = TRUE] = [results[j] EXCEPT !.display = TRUE]
             /\ results'[j].display => results[j].display
    <2>1. DOMAIN results[j] = EntryFields
        BY <1>4 DEF ResultsInv
    <2>2. CASE j = i
        <3>1. results'[j] = [results[j] EXCEPT !.display = FALSE]
            BY <1>4, <2>2
        <3>2. DOMAIN results'[j] = EntryFields /\ \A f \in EntryFields : f # "display" => results'[j][f] = results[j][f]
            BY <2>1, <3>1
        <3>3. results'[j].display = FALSE
            BY <2>1, <3>1 DEF EntryFields
        <3>4. [results'[j] EXCEPT !.display = TRUE] = [f \in EntryFields |-> IF f = "display" THEN TRUE ELSE results[j][f]]
            BY <3>2
        <3>5. [results[j] EXCEPT !.display = TRUE] = [f \in EntryFields |-> IF f = "display" THEN TRUE ELSE results[j][f]]
            BY <2>1
        <3> QED BY <3>3, <3>4, <3>5
    <2>3. CASE j # i
        BY <1>1, <1>4, <2>3
    <2> QED BY <2>2, <2>3
<1> QED BY <1>3, <1>4 DEF Kept

(* A list of loads gets shorter in no other way than by an end.            *)
LEMMA OpensNoEnd ==
    ASSUME IsSequence(loads), NEW s, NEW tag, Opens(s, tag)
    PROVE  ~(Len(loads') < Len(loads))
<1>1. loads' = loads \/ \E e : loads' = Append(loads, e)
    BY DEF Opens
<1>2. Len(loads) \in Nat /\ \A e : Len(Append(loads, e)) = Len(loads) + 1
    BY AppendKeepsThePrefix DEF IsSequence
<1> QED BY <1>1, <1>2

(* Whatever else is loaded, asked, hidden or left meanwhile: a load that   *)
(* ends, ends with its own file and the first query of it, or with its own *)
(* error on the page; only that of a dropped file, or of something shorter *)
(* than a footer, may end in a panic, which touches nothing else.  Neither *)
(* files nor entries are lost or renumbered, nor shown again.  The         *)
(* sequences are appended to at their current end.                         *)
THEOREM LoadsEndWithAWord == Spec => LoadsEndInTheOpen
<1> DEFINE Open ==
        /\ Len(loads') < Len(loads) =>
              \E i \in DOMAIN loads : loads' = RemoveAt(loads, i) /\ EndsInTheOpen(loads[i])
        /\ IsPrefix(files, files') /\ Kept(results, results')
<1>1. ASSUME ViewerInv, ViewerNext PROVE Open
    <2> USE <1>1 DEF ViewerInv
    <2>1. /\ IsSequence(loads) /\ IsSequence(files) /\ IsSequence(results) /\ Len(loads) \in Nat
          /\ IsPrefix(files, files) /\ Kept(results, results)
        <3>1. IsSequence(loads) /\ IsSequence(files) /\ IsSequence(results)
            BY DEF LoadsInv, FilesInv, ResultsInv
        <3>2. Len(loads) \in Nat
            BY <3>1 DEF IsSequence
        <3>3. IsPrefix(files, files)
            BY <3>1, AppendKeepsThePrefix
        <3>4. Kept(results, results)
            BY <3>1, SameIsKept
        <3> QED BY <3>1, <3>2, <3>3, <3>4
    <2>2. CASE OpenAny
        <3>1. PICK s \in Sources, tag \in Tags : OpenSource(s, tag)
            BY <2>2 DEF OpenAny
        <3> QED BY <2>1, <3>1, OpensNoEnd DEF OpenSource
    <2>3. CASE BackToLink
        BY <2>1, <2>3, OpensNoEnd DEF BackToLink
    <2>4. CASE \E i \in DOMAIN loads : LoadPanics(i) \/ LoadFails(i)
        <3>1. PICK i \in DOMAIN loads : LoadPanics(i) \/ LoadFails(i)
            BY <2>4
        <3>2. UNCHANGED <<files, results>>
            BY <3>1 DEF LoadPanics, LoadFails, page
        <3>3. loads' = RemoveAt(loads, i) /\ EndsInTheOpen(loads[i])
            BY <3>1, Zenon DEF LoadPanics, LoadFails, EndLoad, EndsInTheOpen
        <3> QED BY <2>1, <3>2, <3>3, Zenon
    <2>5. CASE \E i \in DOMAIN loads : ReadsFooter(i)
        <3>1. PICK i \in DOMAIN loads : ReadsFooter(i)
            BY <2>5
        <3>2. loads' = [loads EXCEPT ![i].at = "table"] /\ UNCHANGED <<files, results>>
            BY <3>1 DEF ReadsFooter, page
        <3>3. loads' = [j \in DOMAIN loads |-> loads'[j]]
            BY <3>2
        <3>4. IsSequence(loads') /\ DOMAIN loads' = DOMAIN loads
            BY <2>1, <3>3, SameDomainIsSequence
        <3>5. Len(loads') = Len(loads)
            BY <2>1, <3>4 DEF IsSequence
        <3> QED BY <2>1, <3>2, <3>5
    <2>6. CASE \E i \in DOMAIN loads : RegistersTable(i)
        <3>1. PICK i \in DOMAIN loads : RegistersTable(i)
            BY <2>6
        <3> DEFINE file == Resolved(loads[i])
        <3>2. files' = Append(files, file) /\ results' = Append(results, Entry(Len(results), DefaultQuery, file))
            BY <3>1 DEF RegistersTable
        <3> HIDE DEF file
        <3>3. /\ IsPrefix(files, files') /\ Len(files') = Len(files) + 1 /\ Len(files) \in Nat
              /\ Last(files') = file
            <4>1. Len(files) \in Nat
                BY <2>1 DEF IsSequence
            <4> QED BY <2>1, <3>2, <4>1, AppendKeepsThePrefix, AppendedIsKept
        <3>4. Kept(results, results') /\ Last(results') = Entry(Len(results), DefaultQuery, file)
            BY <2>1, <3>2, AppendedIsKept
        <3>5. file.source = loads[i].source
            BY DEF file, Resolved
        <3>6. loads' = RemoveAt(loads, i)
            BY <3>1, Zenon DEF RegistersTable, EndLoad
        <3>7. EndsInTheOpen(loads[i])
            BY <3>3, <3>4, <3>5, Zenon DEF EndsInTheOpen
        <3> QED BY <3>3, <3>4, <3>6, <3>7, Zenon
    <2>7. CASE SubmitQuery
        <3>1. UNCHANGED <<loads, files>> /\ results' = Append(results, Entry(Len(results), input, Last(files)))
            BY <2>7 DEF SubmitQuery, session
        <3>2. Kept(results, results')
            BY <2>1, <3>1, AppendedIsKept
        <3> QED BY <2>1, <3>1, <3>2
    <2>8. CASE \E i \in DOMAIN results : Hide(results[i].id)
        <3>1. PICK i : UNCHANGED <<loads, files>> /\ results' = [results EXCEPT ![i].display = FALSE]
            BY <2>8 DEF Hide
        <3>2. Kept(results, results')
            BY <3>1, HiddenIsKept
        <3> QED BY <2>1, <3>1, <3>2
    <2>9. CASE SetEndpoint \/ TypeQuery \/ ToRewriter \/ ToViewer
        <3>1. UNCHANGED <<loads, files, results>>
            BY <2>9 DEF SetEndpoint, TypeQuery, ToRewriter, ToViewer, page
        <3> QED BY <2>1, <3>1
    <2> QED BY <2>2, <2>3, <2>4, <2>5, <2>6, <2>7, <2>8, <2>9 DEF ViewerNext
<1> HIDE DEF Open
<1>2. ViewerInv /\ [Next]_vars => [Open]_vars
    <2> SUFFICES ASSUME ViewerInv, Next, vars' # vars PROVE Open
        OBVIOUS
    <2>1. CASE ViewerNext
        BY <1>1, <2>1
    <2>2. CASE UNCHANGED viewerVars
        <3>1. UNCHANGED <<loads, files, results>>
            BY <2>2 DEF viewerVars, page
        <3>2. IsPrefix(files, files') /\ Kept(results, results') /\ Len(loads) \in Nat
            <4>1. IsSequence(loads) /\ IsSequence(files) /\ IsSequence(results)
                BY DEF ViewerInv, LoadsInv, FilesInv, ResultsInv
            <4>2. Len(loads) \in Nat
                BY <4>1 DEF IsSequence
            <4>3. IsPrefix(files, files) /\ Kept(results, results)
                BY <4>1, AppendKeepsThePrefix, SameIsKept
            <4> QED BY <3>1, <4>2, <4>3
        <3> QED BY <3>1, <3>2 DEF Open
    <2> QED BY <2>1, <2>2 DEF Next, PanelNext, PanelWaits, Click
<1>3. Spec => [][Open]_vars
    BY <1>2, ViewerInvInit, ViewerInvNext, PTL DEF Spec
<1> QED BY <1>3 DEF Open, LoadsEndInTheOpen

-----------------------------------------------------------------------------
(* The lists a file is read into: its fields, their leaves, the columns. *)

(* The leaves of a field, as Columns lists them. *)
LeafOf(f, i, j) ==
    [path |-> <<f.fields[i].name>> \o f.fields[i].leaves[j],
     type |-> f.fields[i].type, length |-> f.fields[i].length]
LeavesOf(f, i) == [j \in DOMAIN f.fields[i].leaves |-> LeafOf(f, i, j)]
LeafLists(f) == [i \in DOMAIN f.fields |-> LeavesOf(f, i)]
LeafSet(f) == {LeafOf(f, p[1], p[2]) : p \in Nat \X Nat}

LEMMA ListIs ==
    ASSUME NEW s, IsList(s)
    PROVE  Len(s) \in Nat /\ DOMAIN s = 1..Len(s) /\ s \in Seq(ToSet(s))
BY DEF IsList

(* Every field has a name of its own and at least one leaf. *)
LEMMA FieldsAre ==
    ASSUME NEW f, IsParquet(f)
    PROVE  /\ Len(f.fields) \in Nat /\ DOMAIN f.fields = 1..Len(f.fields)
           /\ \A i \in 1..Len(f.fields) :
                /\ f.fields[i].rank \in Int
                /\ Len(f.fields[i].leaves) \in Nat \ {0} /\ DOMAIN f.fields[i].leaves = 1..Len(f.fields[i].leaves)
                /\ \A j \in 1..Len(f.fields[i].leaves) : IsList(f.fields[i].leaves[j])
           /\ \A i, j \in 1..Len(f.fields) : f.fields[i].name = f.fields[j].name => i = j
<1>1. IsList(f.fields)
    BY DEF IsParquet
<1>2. Len(f.fields) \in Nat /\ DOMAIN f.fields = 1..Len(f.fields)
    BY <1>1, ListIs
<1>3. ASSUME NEW i \in 1..Len(f.fields)
      PROVE  /\ f.fields[i].rank \in Int
             /\ Len(f.fields[i].leaves) \in Nat \ {0} /\ DOMAIN f.fields[i].leaves = 1..Len(f.fields[i].leaves)
             /\ \A j \in 1..Len(f.fields[i].leaves) : IsList(f.fields[i].leaves[j])
    <2>1. /\ f.fields[i].rank \in Int
          /\ IsList(f.fields[i].leaves) /\ f.fields[i].leaves # <<>>
          /\ \A j \in DOMAIN f.fields[i].leaves : IsList(f.fields[i].leaves[j])
        BY <1>2 DEF IsParquet
    <2> DEFINE l == f.fields[i].leaves
    <2>2. l \in Seq(ToSet(l)) /\ DOMAIN l = 1..Len(l) /\ Len(l) \in Nat /\ l # <<>>
        BY <2>1, ListIs
    <2>3. Len(l) # 0
        <3> HIDE DEF l
        <3> QED BY <2>2
    <2> QED BY <2>1, <2>2, <2>3
<1>4. \A i, j \in 1..Len(f.fields) : f.fields[i].name = f.fields[j].name => i = j
    BY <1>2 DEF IsParquet
<1> QED BY <1>2, <1>3, <1>4

(* The path of a leaf starts with the name of its field. *)
LEMMA LeafPath ==
    ASSUME NEW f, NEW i, NEW j, IsList(f.fields[i].leaves[j])
    PROVE  LeafOf(f, i, j).path[1] = f.fields[i].name
<1> DEFINE l == f.fields[i].leaves[j]
           S == ToSet(l) \cup {f.fields[i].name}
           head == <<f.fields[i].name>>
<1>1. l \in Seq(S) /\ head \in Seq(S) /\ Len(head) = 1 /\ head[1] = f.fields[i].name
    <2>1. l \in Seq(ToSet(l))
        BY DEF IsList
    <2> HIDE DEF l
    <2> QED BY <2>1
<1> HIDE DEF l, head, S
<1>2. (head \o l)[1] = head[1]
    BY <1>1
<1>3. LeafOf(f, i, j).path = head \o l
    BY DEF LeafOf, head, l
<1> QED BY <1>1, <1>2, <1>3

(* The columns are the leaves of the fields: each is of a field, and every *)
(* field has one.                                                          *)
LEMMA ColumnsAre ==
    ASSUME NEW f, IsParquet(f)
    PROVE  /\ LeafLists(f) \in Seq(Seq(LeafSet(f))) /\ Len(LeafLists(f)) = Len(f.fields)
           /\ Columns(f) = FlattenSeq(LeafLists(f)) /\ Columns(f) \in Seq(LeafSet(f))
           /\ Len(Columns(f)) \in Nat /\ Len(Columns(f)) >= Len(f.fields)
           /\ \A k \in 1..Len(Columns(f)) :
                \E i \in 1..Len(f.fields) : Columns(f)[k].path[1] = f.fields[i].name
           /\ \A i \in 1..Len(f.fields) :
                \E k \in 1..Len(Columns(f)) : Columns(f)[k].path[1] = f.fields[i].name
<1> DEFINE n == Len(f.fields)
           S == LeafSet(f)
           ss == LeafLists(f)
<1>1. /\ n \in Nat /\ DOMAIN f.fields = 1..n
      /\ \A i \in 1..n : /\ Len(f.fields[i].leaves) \in Nat \ {0}
                         /\ DOMAIN f.fields[i].leaves = 1..Len(f.fields[i].leaves)
                         /\ \A j \in 1..Len(f.fields[i].leaves) : IsList(f.fields[i].leaves[j])
    BY FieldsAre
<1>2. ASSUME NEW i \in 1..n
      PROVE  /\ LeavesOf(f, i) \in Seq(S) /\ Len(LeavesOf(f, i)) = Len(f.fields[i].leaves)
             /\ \A j \in 1..Len(f.fields[i].leaves) : LeavesOf(f, i)[j] = LeafOf(f, i, j)
    <2> DEFINE m == Len(f.fields[i].leaves)
    <2>1. m \in Nat /\ DOMAIN f.fields[i].leaves = 1..m
        BY <1>1
    <2>2. \A j \in 1..m : LeafOf(f, i, j) \in S
        <3> TAKE j \in 1..m
        <3>1. <<i, j>> \in Nat \X Nat /\ <<i, j>>[1] = i /\ <<i, j>>[2] = j
            BY <1>1, <2>1
        <3> QED BY <3>1 DEF LeafSet
    <2>3. LeavesOf(f, i) = [j \in 1..m |-> LeafOf(f, i, j)]
        BY <2>1 DEF LeavesOf
    <2> HIDE DEF m, S
    <2>4. LeavesOf(f, i) \in [1..m -> S]
        BY <2>2, <2>3
    <2>5. LeavesOf(f, i) \in Seq(S)
        BY <2>1, <2>4, SeqDef
    <2> QED BY <2>1, <2>3, <2>4, <2>5 DEF m
<1> HIDE DEF n, S
<1>3. ss \in Seq(Seq(S)) /\ Len(ss) = n /\ \A i \in 1..n : ss[i] = LeavesOf(f, i)
    <2>1. ss = [i \in 1..n |-> LeavesOf(f, i)]
        BY <1>1 DEF LeafLists
    <2> HIDE DEF ss
    <2>2. ss \in [1..n -> Seq(S)]
        BY <1>2, <2>1
    <2>3. ss \in Seq(Seq(S))
        BY <1>1, <2>2, SeqDef
    <2> QED BY <1>1, <2>1, <2>2, <2>3
<1>4. Columns(f) = FlattenSeq(ss)
    BY Zenon DEF Columns, LeafLists, LeavesOf, LeafOf
<1> DEFINE cols == Columns(f)
<1> HIDE DEF ss, cols
<1>5. cols \in Seq(S) /\ Len(cols) \in Nat
    <2>1. FlattenSeq(ss) \in Seq(S)
        BY <1>3, FlattenLen
    <2> QED BY <1>4, <2>1 DEF cols
<1>6. \A x : Occurs(x, cols) <=> \E i \in 1..n : Occurs(x, ss[i])
    <2> TAKE x
    <2>1. Occurs(x, FlattenSeq(ss)) <=> \E i \in 1..Len(ss) : Occurs(x, ss[i])
        BY <1>3, FlattenOccurs
    <2> QED BY <1>3, <1>4, <2>1 DEF cols
<1>7. ASSUME NEW k \in 1..Len(cols) PROVE \E i \in 1..n : cols[k].path[1] = f.fields[i].name
    <2>1. Occurs(cols[k], cols)
        BY DEF Occurs
    <2>2. PICK i \in 1..n : Occurs(cols[k], ss[i])
        BY <1>6, <2>1
    <2>3. PICK j \in 1..Len(f.fields[i].leaves) : cols[k] = LeafOf(f, i, j)
        BY <1>2, <1>3, <2>2 DEF Occurs
    <2>4. cols[k].path[1] = f.fields[i].name
        BY <1>1, <2>3, LeafPath
    <2> QED BY <2>4
<1>8. ASSUME NEW i \in 1..n PROVE \E k \in 1..Len(cols) : cols[k].path[1] = f.fields[i].name
    <2>1. 1 \in 1..Len(f.fields[i].leaves)
        BY <1>1
    <2>2. Occurs(LeafOf(f, i, 1), ss[i])
        <3>1. LeavesOf(f, i)[1] = LeafOf(f, i, 1) /\ 1 \in 1..Len(LeavesOf(f, i)) /\ ss[i] = LeavesOf(f, i)
            BY <1>2, <1>3, <2>1
        <3> QED BY <3>1 DEF Occurs
    <2>3. PICK k \in 1..Len(cols) : cols[k] = LeafOf(f, i, 1)
        <3>1. Occurs(LeafOf(f, i, 1), cols)
            BY <1>6, <2>2
        <3> QED BY <3>1 DEF Occurs
    <2>4. cols[k].path[1] = f.fields[i].name
        BY <1>1, <2>1, <2>3, LeafPath
    <2> QED BY <2>4
<1>9. Len(cols) >= n
    <2> DEFINE lens == [i \in DOMAIN ss |-> Len(ss[i])]
               ones == [i \in 1..n |-> 1]
    <2>1. Len(cols) = Total(lens)
        BY <1>3, <1>4, FlattenLen DEF cols
    <2>2. lens \in Seq(Int) /\ Len(lens) = n /\ \A i \in 1..n : lens[i] >= 1
        <3>1. DOMAIN ss = 1..n
            BY <1>3
        <3>2. \A i \in 1..n : Len(ss[i]) \in Int /\ Len(ss[i]) >= 1
            <4> TAKE i \in 1..n
            <4>1. ss[i] = LeavesOf(f, i) /\ Len(LeavesOf(f, i)) = Len(f.fields[i].leaves)
                BY <1>2, <1>3
            <4>2. Len(f.fields[i].leaves) \in Int /\ Len(f.fields[i].leaves) >= 1
                BY <1>1
            <4> QED BY <4>1, <4>2
        <3>3. lens \in [1..n -> Int]
            BY <3>1, <3>2
        <3>4. lens \in Seq(Int)
            BY <1>1, <3>3, SeqDef
        <3> QED BY <1>1, <3>1, <3>2, <3>3, <3>4
    <2>3. ones \in Seq(Int) /\ Len(ones) = n /\ \A i \in 1..n : ones[i] = 1
        <3>1. ones \in [1..n -> Int]
            OBVIOUS
        <3>2. ones \in Seq(Int)
            BY <1>1, <3>1, SeqDef
        <3> QED BY <1>1, <3>1, <3>2
    <2> HIDE DEF lens, ones
    <2>4. Total(ones) = n
        <3> DEFINE g == [k \in 0..n |-> k]
        <3>1. g[0] = 0 /\ g[n] = n /\ \A k \in 1..Len(ones) : g[k] = g[k - 1] + ones[k]
            BY <1>1, <2>3
        <3> HIDE DEF g
        <3>2. Total(ones) = g[Len(ones)]
            BY <2>3, <3>1, TotalIs
        <3> QED BY <2>3, <3>1, <3>2
    <2>5. Len(ones) = Len(lens) /\ \A i \in 1..Len(ones) : ones[i] <= lens[i]
        BY <1>1, <2>2, <2>3
    <2>6. Total(ones) <= Total(lens)
        BY <2>2, <2>3, <2>5, TotalGrows
    <2> QED BY <1>1, <1>5, <2>1, <2>4, <2>6
<1> QED BY <1>3, <1>4, <1>5, <1>7, <1>8, <1>9 DEF cols, S, n, ss

-----------------------------------------------------------------------------
(* The columns of a row of the schema table. *)
IdsOf(f, i) == {id \in ColumnIds(f) : Column(f, id).path[1] = f.fields[i].name}
IdsIn(f, i) == SchemaRows(f)[i].parquet_columns

(* The rows divide the columns: each column is of one row, and no row is   *)
(* empty.                                                                  *)
LEMMA IdsAre ==
    ASSUME NEW f, IsParquet(f)
    PROVE  /\ ColumnIds(f) \in SUBSET Nat /\ IsFiniteSet(ColumnIds(f)) /\ Cardinality(ColumnIds(f)) = Len(Columns(f))
           /\ \A i, j \in 1..Len(f.fields) : i # j => IdsOf(f, i) \cap IdsOf(f, j) = {}
           /\ \A id \in ColumnIds(f) : id + 1 \in 1..Len(Columns(f)) /\ \E i \in 1..Len(f.fields) : id \in IdsOf(f, i)
           /\ \A i \in 1..Len(f.fields) : IdsOf(f, i) # {}
<1> DEFINE m == Len(Columns(f))
           n == Len(f.fields)
<1>1. /\ m \in Nat
      /\ \A k \in 1..m : \E i \in 1..n : Columns(f)[k].path[1] = f.fields[i].name
      /\ \A i \in 1..n : \E k \in 1..m : Columns(f)[k].path[1] = f.fields[i].name
    BY ColumnsAre
<1>2. n \in Nat /\ \A i, j \in 1..n : f.fields[i].name = f.fields[j].name => i = j
    BY FieldsAre
<1>3. ColumnIds(f) = 0..m - 1 /\ \A id \in ColumnIds(f) : Column(f, id) = Columns(f)[id + 1]
    BY DEF ColumnIds, Column
<1> HIDE DEF m, n
<1>4. ColumnIds(f) \in SUBSET Nat /\ \A id \in ColumnIds(f) : id + 1 \in 1..m
    <2> DEFINE ids == ColumnIds(f)
    <2>1. m \in Nat /\ ids = 0..m - 1
        BY <1>1, <1>3
    <2> HIDE DEF ids
    <2>2. ids \in SUBSET Nat /\ \A id \in ids : id + 1 \in 1..m
        BY ONLY <2>1
    <2> QED BY <2>2 DEF ids
<1>5. IsFiniteSet(ColumnIds(f)) /\ Cardinality(ColumnIds(f)) = m
    <2> DEFINE l == m - 1
    <2>1. l \in Int /\ 0 \in Int
        BY <1>1
    <2> HIDE DEF l
    <2>2. IsFiniteSet(0..l) /\ Cardinality(0..l) = IF 0 > l THEN 0 ELSE l - 0 + 1
        BY <2>1, FS_Interval
    <2> QED BY <1>1, <1>3, <2>2 DEF l
<1>6. \A i, j \in 1..n : i # j => IdsOf(f, i) \cap IdsOf(f, j) = {}
    BY <1>2 DEF IdsOf
<1>7. ASSUME NEW id \in ColumnIds(f) PROVE \E i \in 1..n : id \in IdsOf(f, i)
    <2>1. PICK i \in 1..n : Columns(f)[id + 1].path[1] = f.fields[i].name
        BY <1>1, <1>4
    <2>2. id \in IdsOf(f, i)
        BY <1>3, <2>1 DEF IdsOf
    <2> QED BY <2>2
<1>8. ASSUME NEW i \in 1..n PROVE IdsOf(f, i) # {}
    <2>1. PICK k \in 1..m : Columns(f)[k].path[1] = f.fields[i].name
        BY <1>1
    <2>2. k - 1 \in ColumnIds(f) /\ (k - 1) + 1 = k
        BY <1>1, <1>3
    <2>3. k - 1 \in IdsOf(f, i)
        BY <1>3, <2>1, <2>2 DEF IdsOf
    <2> QED BY <2>3
<1> QED BY <1>4, <1>5, <1>6, <1>7, <1>8 DEF m, n

(* A row lists its columns, each once. *)
LEMMA RowsAre ==
    ASSUME NEW f, IsParquet(f)
    PROVE  /\ DOMAIN SchemaRows(f) = 1..Len(f.fields)
           /\ \A i \in 1..Len(f.fields) :
                /\ SchemaRows(f)[i].arrow_index = i - 1
                /\ IdsIn(f, i) \in Seq(IdsOf(f, i)) /\ Len(IdsIn(f, i)) = Cardinality(IdsOf(f, i))
                /\ Len(IdsIn(f, i)) \in Nat \ {0} /\ IdsIn(f, i) # <<>>
                /\ \A id \in IdsOf(f, i) : \E k \in 1..Len(IdsIn(f, i)) : IdsIn(f, i)[k] = id
<1> DEFINE n == Len(f.fields)
<1>1. n \in Nat /\ DOMAIN f.fields = 1..n
    BY FieldsAre
<1>2. ColumnIds(f) \in SUBSET Nat /\ IsFiniteSet(ColumnIds(f)) /\ \A i \in 1..n : IdsOf(f, i) # {}
    BY IdsAre
<1> HIDE DEF n
<1>3. ASSUME NEW i \in 1..n
      PROVE  /\ SchemaRows(f)[i].arrow_index = i - 1
             /\ IdsIn(f, i) \in Seq(IdsOf(f, i)) /\ Len(IdsIn(f, i)) = Cardinality(IdsOf(f, i))
             /\ Len(IdsIn(f, i)) \in Nat \ {0} /\ IdsIn(f, i) # <<>>
             /\ \A id \in IdsOf(f, i) : \E k \in 1..Len(IdsIn(f, i)) : IdsIn(f, i)[k] = id
    <2>1. SchemaRows(f)[i] = SchemaRow(f, i - 1) /\ (i - 1) + 1 = i /\ i \in Int
        BY <1>1 DEF SchemaRows
    <2> DEFINE k == i - 1
    <2>2. k + 1 = i
        BY <2>1
    <2> HIDE DEF k
    <2>3. SchemaRow(f, k).arrow_index = k /\ SchemaRow(f, k).parquet_columns = ColumnsByRoot(f, f.fields[k + 1].name)
        BY DEF SchemaRow
    <2>4. IdsIn(f, i) = Ascending(IdsOf(f, i)) /\ SchemaRows(f)[i].arrow_index = i - 1
        <3>1. ColumnsByRoot(f, f.fields[i].name) = Ascending(IdsOf(f, i))
            BY Zenon DEF ColumnsByRoot, IdsOf
        <3>2. SchemaRows(f)[i] = SchemaRow(f, k)
            BY <2>1 DEF k
        <3>3. SchemaRow(f, k).parquet_columns = ColumnsByRoot(f, f.fields[i].name)
            BY <2>2, <2>3
        <3>4. IdsIn(f, i) = ColumnsByRoot(f, f.fields[i].name)
            BY <3>2, <3>3 DEF IdsIn
        <3>5. SchemaRows(f)[i].arrow_index = k
            BY <2>3, <3>2
        <3> QED BY <3>1, <3>4, <3>5 DEF k
    <2> DEFINE N == IdsOf(f, i)
    <2>5. N \in SUBSET ColumnIds(f) /\ N # {}
        BY <1>2 DEF IdsOf
    <2> HIDE DEF N
    <2>6. N \in SUBSET Int /\ IsFiniteSet(N)
        <3>1. N \in SUBSET Int
            BY <1>2, <2>5
        <3> QED BY <1>2, <2>5, <3>1, FS_Subset
    <2>7. /\ Ascending(N) \in Seq(N) /\ Len(Ascending(N)) = Cardinality(N)
          /\ \A x \in N : \E j \in 1..Cardinality(N) : Ascending(N)[j] = x
        BY <2>6, AscendingOrder
    <2>8. Cardinality(N) \in Nat \ {0}
        BY <2>5, <2>6, FS_CardinalityType, FS_EmptySet
    <2> DEFINE s == Ascending(N)
    <2> HIDE DEF s
    <2>9. s # <<>>
        BY <2>7, <2>8 DEF s
    <2>10. IdsIn(f, i) = s
        BY <2>4 DEF s, N
    <2> QED BY <2>4, <2>7, <2>8, <2>9, <2>10 DEF s, N
<1>4. DOMAIN SchemaRows(f) = 1..n
    BY <1>1 DEF SchemaRows
<1> QED BY <1>3, <1>4 DEF n

LineLists(f) == [i \in DOMAIN f.fields |-> LinesOfColumns(SchemaRows(f)[i])]

(* The lines are the columns of the rows, in their order: each column      *)
(* once.                                                                   *)
LEMMA LinesAre ==
    ASSUME NEW f, IsParquet(f)
    PROVE  /\ Lines(f) \in Seq(Nat \X Nat) /\ Len(Lines(f)) = Len(Columns(f))
           /\ SumOver(GroupSize, SchemaRows(f)) = Len(Lines(f))
           /\ \A k \in 1..Len(Lines(f)) :
                /\ Lines(f)[k][1] + 1 \in 1..Len(f.fields)
                /\ Lines(f)[k][2] \in IdsOf(f, Lines(f)[k][1] + 1)
           /\ \A id \in ColumnIds(f) : \E k \in 1..Len(Lines(f)) : Lines(f)[k][2] = id
<1> DEFINE n == Len(f.fields)
           S == Nat \X Nat
           ss == LineLists(f)
           lines == Lines(f)
           P == [i \in 1..n |-> IdsOf(f, i)]
           counts == [i \in 1..n |-> Cardinality(P[i])]
<1>1. n \in Nat /\ DOMAIN f.fields = 1..n
    BY FieldsAre
<1>2. /\ DOMAIN SchemaRows(f) = 1..n
      /\ \A i \in 1..n :
           /\ SchemaRows(f)[i].arrow_index = i - 1
           /\ IdsIn(f, i) \in Seq(IdsOf(f, i)) /\ Len(IdsIn(f, i)) = Cardinality(IdsOf(f, i))
           /\ Len(IdsIn(f, i)) \in Nat \ {0} /\ IdsIn(f, i) # <<>>
           /\ \A id \in IdsOf(f, i) : \E k \in 1..Len(IdsIn(f, i)) : IdsIn(f, i)[k] = id
    BY RowsAre
<1>3. /\ ColumnIds(f) \in SUBSET Nat /\ IsFiniteSet(ColumnIds(f)) /\ Cardinality(ColumnIds(f)) = Len(Columns(f))
      /\ \A i, j \in 1..n : i # j => IdsOf(f, i) \cap IdsOf(f, j) = {}
      /\ \A id \in ColumnIds(f) : \E i \in 1..n : id \in IdsOf(f, i)
    BY IdsAre
<1>4. \A i \in 1..n : IdsOf(f, i) \in SUBSET ColumnIds(f)
    BY DEF IdsOf
<1> HIDE DEF n, S
<1>5. ASSUME NEW i \in 1..n
      PROVE  /\ LinesOfColumns(SchemaRows(f)[i]) \in Seq(S)
             /\ Len(LinesOfColumns(SchemaRows(f)[i])) = Len(IdsIn(f, i))
             /\ \A k \in 1..Len(IdsIn(f, i)) : LinesOfColumns(SchemaRows(f)[i])[k] = <<i - 1, IdsIn(f, i)[k]>>
    <2> DEFINE ids == IdsIn(f, i)
               m == Len(ids)
    <2>1. ids \in Seq(IdsOf(f, i)) /\ m \in Nat /\ SchemaRows(f)[i].arrow_index = i - 1
        BY <1>2
    <2>2. DOMAIN ids = 1..m /\ \A k \in 1..m : ids[k] \in Nat
        <3>1. IdsOf(f, i) \in SUBSET Nat
            BY <1>3, <1>4
        <3> HIDE DEF ids
        <3> QED BY <2>1, <3>1
    <2>3. LinesOfColumns(SchemaRows(f)[i]) = [k \in 1..m |-> <<i - 1, ids[k]>>]
        BY <2>1, <2>2, Zenon DEF LinesOfColumns, IdsIn
    <2> HIDE DEF ids, m
    <2>4. i - 1 \in Nat
        BY <1>1
    <2>5. LinesOfColumns(SchemaRows(f)[i]) \in [1..m -> S]
        BY <2>2, <2>3, <2>4 DEF S
    <2>6. LinesOfColumns(SchemaRows(f)[i]) \in Seq(S)
        BY <2>1, <2>5, SeqDef
    <2> QED BY <2>1, <2>3, <2>5, <2>6 DEF ids, m
<1>6. ss \in Seq(Seq(S)) /\ Len(ss) = n /\ DOMAIN ss = 1..n /\ \A i \in 1..n : ss[i] = LinesOfColumns(SchemaRows(f)[i])
    <2>1. ss = [i \in 1..n |-> LinesOfColumns(SchemaRows(f)[i])]
        BY <1>1 DEF LineLists
    <2> HIDE DEF ss
    <2>2. ss \in [1..n -> Seq(S)]
        BY <1>5, <2>1
    <2>3. ss \in Seq(Seq(S))
        BY <1>1, <2>2, SeqDef
    <2> QED BY <1>1, <2>1, <2>2, <2>3
<1>7. lines = FlattenSeq(ss)
    <2> DEFINE lists == [i \in DOMAIN f.fields |-> IF SchemaRows(f)[i].parquet_columns = <<>>
                                                  THEN LinesWithoutColumn(SchemaRows(f)[i])
                                                  ELSE LinesOfColumns(SchemaRows(f)[i])]
    <2>1. lines = FlattenSeq(lists)
        BY Zenon DEF Lines
    <2>2. lists = LineLists(f)
        <3>1. \A i \in DOMAIN f.fields : SchemaRows(f)[i].parquet_columns # <<>>
            BY <1>1, <1>2 DEF IdsIn
        <3> QED BY <3>1, Zenon DEF LineLists
    <2> HIDE DEF lists
    <2> QED BY <2>1, <2>2, Zenon
<1> HIDE DEF ss, lines, P, counts
<1>8. counts = [i \in DOMAIN ss |-> Len(ss[i])]
    <2>1. counts = [i \in 1..n |-> Cardinality(IdsOf(f, i))]
        BY DEF counts, P
    <2>2. \A i \in 1..n : Cardinality(IdsOf(f, i)) = Len(ss[i])
        <3> TAKE i \in 1..n
        <3>1. Cardinality(IdsOf(f, i)) = Len(IdsIn(f, i))
            BY <1>2
        <3>2. Len(LinesOfColumns(SchemaRows(f)[i])) = Len(IdsIn(f, i))
            BY <1>5
        <3> QED BY <1>6, <3>1, <3>2
    <2> QED BY <1>6, <2>1, <2>2
<1>9. lines \in Seq(S) /\ Len(lines) = Total(counts)
    <2>1. FlattenSeq(ss) \in Seq(S) /\ Len(FlattenSeq(ss)) = Total([i \in DOMAIN ss |-> Len(ss[i])])
        BY <1>6, FlattenLen
    <2> QED BY <1>7, <1>8, <2>1
<1>10. Total(counts) = Cardinality(ColumnIds(f))
    <2> DEFINE A == ColumnIds(f)
    <2> HIDE DEF A
    <2>1. P \in [1..n -> SUBSET A] /\ IsFiniteSet(A)
        BY <1>3, <1>4 DEF A, P
    <2>2. \A i, j \in 1..n : i # j => P[i] \cap P[j] = {}
        BY <1>3 DEF P
    <2>3. \A x \in A : \E i \in 1..n : x \in P[i]
        BY <1>3 DEF A, P
    <2>4. Total([i \in 1..n |-> Cardinality(P[i])]) = Cardinality(A)
        BY <1>1, <2>1, <2>2, <2>3, CountByParts
    <2> QED BY <2>4 DEF counts, A
<1>11. SumOver(GroupSize, SchemaRows(f)) = Total(counts)
    <2> DEFINE sizes == [i \in DOMAIN SchemaRows(f) |-> GroupSize(SchemaRows(f)[i])]
    <2>1. SumOver(GroupSize, SchemaRows(f)) = Total(sizes)
        BY Zenon DEF SumOver
    <2>2. \A i \in 1..n : GroupSize(SchemaRows(f)[i]) = Cardinality(IdsOf(f, i))
        BY <1>2 DEF GroupSize, IdsIn
    <2>3. sizes = counts
        BY <1>2, <2>2 DEF counts, P
    <2> HIDE DEF sizes
    <2> QED BY <2>1, <2>3
<1>12. \A x : Occurs(x, lines) <=> \E i \in 1..n : Occurs(x, ss[i])
    <2> TAKE x
    <2>1. Occurs(x, FlattenSeq(ss)) <=> \E i \in 1..Len(ss) : Occurs(x, ss[i])
        BY <1>6, FlattenOccurs
    <2> QED BY <1>6, <1>7, <2>1
<1>13. ASSUME NEW k \in 1..Len(lines)
       PROVE  lines[k][1] + 1 \in 1..n /\ lines[k][2] \in IdsOf(f, lines[k][1] + 1)
    <2>1. PICK i \in 1..n : Occurs(lines[k], ss[i])
        BY <1>12 DEF Occurs
    <2>2. PICK j \in 1..Len(ss[i]) : ss[i][j] = lines[k]
        BY <2>1 DEF Occurs
    <2>3. j \in 1..Len(IdsIn(f, i)) /\ lines[k] = <<i - 1, IdsIn(f, i)[j]>>
        <3>1. ss[i] = LinesOfColumns(SchemaRows(f)[i])
            BY <1>6
        <3> QED BY <1>5, <2>2, <3>1
    <2>4. IdsIn(f, i)[j] \in IdsOf(f, i)
        <3>1. IdsIn(f, i) \in Seq(IdsOf(f, i))
            BY <1>2
        <3> QED BY <2>3, <3>1
    <2>5. lines[k][1] + 1 = i /\ lines[k][2] = IdsIn(f, i)[j]
        BY <1>1, <2>3
    <2> QED BY <2>4, <2>5
<1>14. ASSUME NEW id \in ColumnIds(f) PROVE \E k \in 1..Len(lines) : lines[k][2] = id
    <2>1. PICK i \in 1..n : id \in IdsOf(f, i)
        BY <1>3
    <2>2. PICK j \in 1..Len(IdsIn(f, i)) : IdsIn(f, i)[j] = id
        BY <1>2, <2>1
    <2>3. Occurs(<<i - 1, id>>, ss[i])
        <3>1. ss[i] = LinesOfColumns(SchemaRows(f)[i])
            BY <1>6
        <3>2. ss[i][j] = <<i - 1, id>> /\ j \in 1..Len(ss[i])
            BY <1>5, <2>2, <3>1
        <3> QED BY <3>2 DEF Occurs
    <2>4. PICK k \in 1..Len(lines) : lines[k] = <<i - 1, id>>
        <3>1. Occurs(<<i - 1, id>>, lines)
            BY <1>12, <2>3
        <3> QED BY <3>1 DEF Occurs
    <2> QED BY <2>4
<1> QED BY <1>3, <1>9, <1>10, <1>11, <1>13, <1>14 DEF lines, n, S

-----------------------------------------------------------------------------
(* The chunks of the file, by row groups and by columns. *)
ChunkSet(f) == {f.groups[p[1]].columns[p[2]] : p \in (1..Len(f.groups)) \X (1..Len(Columns(f)))}
Compressed(f) == [c \in ChunkSet(f) |-> c.compressed]
Encoded(f) == [c \in ChunkSet(f) |-> c.encoded]

(* Every row group has a chunk of each column. *)
LEMMA GroupsAre ==
    ASSUME NEW f, IsParquet(f)
    PROVE  /\ Len(f.groups) \in Nat /\ DOMAIN f.groups = 1..Len(f.groups) /\ Len(Columns(f)) \in Nat
           /\ \A g \in 1..Len(f.groups) :
                /\ f.groups[g].rows \in Nat
                /\ f.groups[g].columns \in Seq(ChunkSet(f)) /\ Len(f.groups[g].columns) = Len(Columns(f))
                /\ DOMAIN f.groups[g].columns = 1..Len(Columns(f))
           /\ \A c \in ChunkSet(f) :
                c.compressed \in Nat /\ c.encoded \in Nat /\ c.null_count \in Nat /\ IsList(c.pages)
           /\ Valued(ChunkSet(f), Compressed(f)) /\ Valued(ChunkSet(f), Encoded(f))
<1> DEFINE n == Len(f.groups)
           m == Len(Columns(f))
           S == ChunkSet(f)
<1>1. n \in Nat /\ DOMAIN f.groups = 1..n
    <2>1. IsList(f.groups)
        BY DEF IsParquet
    <2> QED BY <2>1, ListIs
<1>2. m \in Nat
    BY ColumnsAre
<1> HIDE DEF m, n, S
<1>3. ASSUME NEW g \in 1..n
      PROVE  /\ f.groups[g].rows \in Nat
             /\ IsList(f.groups[g].columns) /\ Len(f.groups[g].columns) = m
             /\ \A i \in DOMAIN f.groups[g].columns :
                  LET c == f.groups[g].columns[i]
                  IN {c.compressed, c.encoded, c.null_count} \subseteq Nat /\ IsList(c.pages)
    BY <1>1, Zenon DEF IsParquet, m
<1>4. ASSUME NEW g \in 1..n
      PROVE  /\ f.groups[g].columns \in Seq(S) /\ DOMAIN f.groups[g].columns = 1..m
             /\ \A i \in 1..m : f.groups[g].columns[i] \in S
    <2> DEFINE cs == f.groups[g].columns
    <2>1. DOMAIN cs = 1..m /\ cs \in Seq(ToSet(cs)) /\ Len(cs) = m
        BY <1>3, ListIs
    <2>2. \A i \in 1..m : cs[i] \in S
        <3> TAKE i \in 1..m
        <3>1. <<g, i>> \in (1..n) \X (1..m) /\ <<g, i>>[1] = g /\ <<g, i>>[2] = i
            OBVIOUS
        <3> QED BY <3>1 DEF S, ChunkSet, n, m
    <2> HIDE DEF cs
    <2>3. cs \in [1..m -> S]
        BY <2>1, <2>2
    <2>4. cs \in Seq(S)
        BY <1>2, <2>3, SeqDef
    <2> QED BY <2>1, <2>2, <2>4 DEF cs
<1>5. ASSUME NEW c \in S
      PROVE  c.compressed \in Nat /\ c.encoded \in Nat /\ c.null_count \in Nat /\ IsList(c.pages)
    <2>1. PICK p \in (1..n) \X (1..m) : c = f.groups[p[1]].columns[p[2]]
        BY DEF S, ChunkSet, n, m
    <2>2. p[1] \in 1..n /\ p[2] \in DOMAIN f.groups[p[1]].columns
        BY <1>4
    <2>3. {c.compressed, c.encoded, c.null_count} \subseteq Nat /\ IsList(c.pages)
        BY <1>3, <2>1, <2>2
    <2> QED BY <2>3
<1>6. Valued(S, Compressed(f)) /\ Valued(S, Encoded(f))
    BY <1>5 DEF Valued, Compressed, Encoded, S
<1> QED BY <1>1, <1>2, <1>3, <1>4, <1>5, <1>6 DEF n, m, S

(* The chunks of a column are one of each row group. *)
LEMMA ChunksAre ==
    ASSUME NEW f, IsParquet(f), NEW i \in 1..Len(Columns(f))
    PROVE  /\ ChunksOf(f, i - 1) \in Seq(ChunkSet(f)) /\ Len(ChunksOf(f, i - 1)) = Len(f.groups)
           /\ \A g \in 1..Len(f.groups) :
                /\ ChunksOf(f, i - 1)[g] = f.groups[g].columns[i]
                /\ f.groups[g].columns[i] \in ChunkSet(f)
                /\ Chunk(f, g - 1, i - 1) = f.groups[g].columns[i]
<1> DEFINE n == Len(f.groups)
           m == Len(Columns(f))
           S == ChunkSet(f)
<1>1. /\ n \in Nat /\ DOMAIN f.groups = 1..n /\ m \in Nat
      /\ \A g \in 1..n : f.groups[g].columns \in Seq(S) /\ Len(f.groups[g].columns) = m
    BY GroupsAre
<1>2. (i - 1) + 1 = i /\ \A g \in 1..n : (g - 1) + 1 = g
    BY <1>1
<1> HIDE DEF n, m, S
<1>3. ChunksOf(f, i - 1) = [g \in 1..n |-> f.groups[g].columns[i]]
    BY <1>1, <1>2 DEF ChunksOf
<1>4. \A g \in 1..n : f.groups[g].columns[i] \in S
    <2> TAKE g \in 1..n
    <2>1. f.groups[g].columns \in Seq(S) /\ i \in 1..Len(f.groups[g].columns)
        BY <1>1 DEF m
    <2> QED BY <2>1
<1>5. ChunksOf(f, i - 1) \in [1..n -> S]
    BY <1>3, <1>4
<1>6. ChunksOf(f, i - 1) \in Seq(S)
    BY <1>1, <1>5, SeqDef
<1>7. \A g \in 1..n : Chunk(f, g - 1, i - 1) = f.groups[g].columns[i]
    BY <1>2 DEF Chunk
<1> QED BY <1>1, <1>3, <1>4, <1>5, <1>6, <1>7 DEF n, S

(* Whatever is added up over the chunks: by row groups and by columns it   *)
(* is the same.                                                            *)
LEMMA ChunkTotals ==
    ASSUME NEW f, IsParquet(f), NEW v, Valued(ChunkSet(f), v)
    PROVE  /\ AllChunks(f) \in Seq(ChunkSet(f))
           /\ Total(Values(v, AllChunks(f))) = Total([g \in 1..Len(f.groups) |-> Total(Values(v, f.groups[g].columns))])
           /\ Total(Values(v, AllChunks(f))) = Total([i \in 1..Len(Columns(f)) |-> Total(Values(v, ChunksOf(f, i - 1)))])
<1> DEFINE n == Len(f.groups)
           m == Len(Columns(f))
           S == ChunkSet(f)
           ss == [g \in DOMAIN f.groups |-> f.groups[g].columns]
           M == [g \in 1..n |-> Values(v, f.groups[g].columns)]
<1>1. /\ n \in Nat /\ DOMAIN f.groups = 1..n /\ m \in Nat
      /\ \A g \in 1..n : /\ f.groups[g].columns \in Seq(S) /\ Len(f.groups[g].columns) = m
                         /\ DOMAIN f.groups[g].columns = 1..m
    BY GroupsAre
<1>2. \A i \in 1..m : /\ ChunksOf(f, i - 1) \in Seq(S) /\ Len(ChunksOf(f, i - 1)) = n
                      /\ \A g \in 1..n : ChunksOf(f, i - 1)[g] = f.groups[g].columns[i]
    BY ChunksAre
<1> HIDE DEF n, m, S
<1>3. ss \in Seq(Seq(S)) /\ DOMAIN ss = 1..n
    <2>1. ss \in [1..n -> Seq(S)]
        BY <1>1
    <2>2. ss \in Seq(Seq(S))
        BY <1>1, <2>1, SeqDef
    <2> QED BY <2>1, <2>2
<1>4. AllChunks(f) = FlattenSeq(ss)
    BY Zenon DEF AllChunks
<1>5. \A g \in 1..n : ss[g] = f.groups[g].columns
    BY <1>1
<1> HIDE DEF ss
<1>6. AllChunks(f) \in Seq(S)
    BY <1>3, <1>4, FlattenLen
<1>7. Total(Values(v, AllChunks(f))) = Total([g \in 1..n |-> Total(Values(v, f.groups[g].columns))])
    <2>0. Valued(S, v)
        BY DEF S
    <2>1. Total(Values(v, FlattenSeq(ss))) = Total([g \in DOMAIN ss |-> Total(Values(v, ss[g]))])
        BY ONLY <1>3, <2>0, TotalOfFlatten
    <2>2. [g \in DOMAIN ss |-> Total(Values(v, ss[g]))] = [g \in 1..n |-> Total(Values(v, f.groups[g].columns))]
        BY <1>3, <1>5
    <2> QED BY <1>4, <2>1, <2>2, Zenon
<1>8. M \in [1..n -> [1..m -> Int]] /\ \A g \in 1..n, i \in 1..m : M[g][i] = v[f.groups[g].columns[i]]
    <2>1. ASSUME NEW g \in 1..n
          PROVE  Values(v, f.groups[g].columns) \in [1..m -> Int]
        <3>1. f.groups[g].columns \in Seq(S) /\ Valued(S, v) /\ Len(f.groups[g].columns) = m
            BY <1>1 DEF S
        <3>2. Values(v, f.groups[g].columns) \in Seq(Int) /\ Len(Values(v, f.groups[g].columns)) = m
            BY <3>1, ValuesAreIn
        <3> QED BY <3>2
    <2>2. \A g \in 1..n, i \in 1..m : Values(v, f.groups[g].columns)[i] = v[f.groups[g].columns[i]]
        BY <1>1 DEF Values
    <2> QED BY <2>1, <2>2
<1>9. \A i \in 1..m : Values(v, ChunksOf(f, i - 1)) = [g \in 1..n |-> M[g][i]]
    <2> TAKE i \in 1..m
    <2> DEFINE cs == ChunksOf(f, i - 1)
    <2>1. DOMAIN cs = 1..n /\ \A g \in 1..n : cs[g] = f.groups[g].columns[i]
        BY <1>2
    <2> HIDE DEF cs, M
    <2>2. Values(v, cs) = [g \in 1..n |-> v[cs[g]]]
        BY <2>1 DEF Values
    <2>3. \A g \in 1..n : v[cs[g]] = M[g][i]
        BY <1>8, <2>1
    <2> QED BY <2>2, <2>3 DEF cs
<1>10. Total([g \in 1..n |-> Total(M[g])]) = Total([i \in 1..m |-> Total([g \in 1..n |-> M[g][i]])])
    <2> HIDE DEF M
    <2> QED BY <1>1, <1>8, TotalsExchange
<1>11. [g \in 1..n |-> Total(M[g])] = [g \in 1..n |-> Total(Values(v, f.groups[g].columns))]
    OBVIOUS
<1>12. [i \in 1..m |-> Total([g \in 1..n |-> M[g][i]])] = [i \in 1..m |-> Total(Values(v, ChunksOf(f, i - 1)))]
    BY <1>9
<1>13. Total(Values(v, AllChunks(f))) = Total([i \in 1..m |-> Total(Values(v, ChunksOf(f, i - 1)))])
    BY <1>7, <1>10, <1>11, <1>12, Zenon
<1> QED BY <1>6, <1>7, <1>13 DEF n, m, S

-----------------------------------------------------------------------------
(* The sizes of the panel are totals. *)
LEMMA CompressedIs ==
    ASSUME NEW f, NEW list \in Seq(ChunkSet(f))
    PROVE  /\ [i \in DOMAIN list |-> list[i].compressed] = Values(Compressed(f), list)
           /\ [i \in DOMAIN list |-> list[i].encoded] = Values(Encoded(f), list)
<1>1. \A i \in DOMAIN list : list[i] \in ChunkSet(f)
    OBVIOUS
<1>2. \A i \in DOMAIN list : Compressed(f)[list[i]] = list[i].compressed /\ Encoded(f)[list[i]] = list[i].encoded
    BY <1>1 DEF Compressed, Encoded
<1> QED BY <1>2 DEF Values

LEMMA SummaryIs ==
    ASSUME NEW f, IsParquet(f)
    PROVE  /\ MetadataSummary(f).compressed_row_group_size = Total(Values(Compressed(f), AllChunks(f)))
           /\ SizesAgree(f) => MetadataSummary(f).uncompressed_size = Total(Values(Encoded(f), AllChunks(f)))
<1> DEFINE list == AllChunks(f)
<1>1. list \in Seq(ChunkSet(f))
    BY GroupsAre, ChunkTotals
<1> HIDE DEF list
<1>2. /\ MetadataSummary(f).compressed_row_group_size = Total([i \in DOMAIN AllChunks(f) |-> AllChunks(f)[i].compressed])
      /\ MetadataSummary(f).uncompressed_size = Total([g \in DOMAIN f.groups |-> f.groups[g].total_byte_size])
    BY DEF MetadataSummary, SumOver, FirstChunkHas
<1>3. [i \in DOMAIN list |-> list[i].compressed] = Values(Compressed(f), list)
    BY <1>1, CompressedIs
<1>4. ASSUME SizesAgree(f)
      PROVE  MetadataSummary(f).uncompressed_size = Total(Values(Encoded(f), AllChunks(f)))
    <2>1. /\ DOMAIN f.groups = 1..Len(f.groups) /\ Valued(ChunkSet(f), Encoded(f))
          /\ \A g \in 1..Len(f.groups) : f.groups[g].columns \in Seq(ChunkSet(f))
        BY GroupsAre
    <2>2. ASSUME NEW g \in DOMAIN f.groups
          PROVE  f.groups[g].total_byte_size = Total(Values(Encoded(f), f.groups[g].columns))
        <3> DEFINE cs == f.groups[g].columns
        <3>1. f.groups[g].total_byte_size = Total([i \in DOMAIN cs |-> cs[i].encoded])
            BY <1>4, Zenon DEF SizesAgree, SumOver
        <3>2. cs \in Seq(ChunkSet(f))
            BY <2>1
        <3> HIDE DEF cs
        <3>3. [i \in DOMAIN cs |-> cs[i].encoded] = Values(Encoded(f), cs)
            BY <3>2, CompressedIs
        <3> QED BY <3>1, <3>3, Zenon DEF cs
    <2>3. [g \in DOMAIN f.groups |-> f.groups[g].total_byte_size]
              = [g \in 1..Len(f.groups) |-> Total(Values(Encoded(f), f.groups[g].columns))]
        BY <2>1, <2>2, Zenon
    <2>4. Total(Values(Encoded(f), AllChunks(f)))
              = Total([g \in 1..Len(f.groups) |-> Total(Values(Encoded(f), f.groups[g].columns))])
        BY <2>1, ChunkTotals
    <2> QED BY <1>2, <2>3, <2>4, Zenon
<1> QED BY <1>2, <1>3, <1>4, Zenon DEF list

LEMMA ColumnIs ==
    ASSUME NEW f, IsParquet(f), NEW i \in 1..Len(Columns(f))
    PROVE  /\ ParquetColumn(f, i - 1).compressed_size = Total(Values(Compressed(f), ChunksOf(f, i - 1)))
           /\ ParquetColumn(f, i - 1).encoded_size = Total(Values(Encoded(f), ChunksOf(f, i - 1)))
           /\ ParquetColumn(f, i - 1).null_count = NullCount(ChunksOf(f, i - 1))
<1> DEFINE id == i - 1
           list == ChunksOf(f, id)
<1>1. list \in Seq(ChunkSet(f))
    BY ChunksAre
<1> HIDE DEF id
<1>2. /\ ParquetColumn(f, id).compressed_size = Total([k \in DOMAIN ChunksOf(f, id) |-> ChunksOf(f, id)[k].compressed])
      /\ ParquetColumn(f, id).encoded_size = Total([k \in DOMAIN ChunksOf(f, id) |-> ChunksOf(f, id)[k].encoded])
      /\ ParquetColumn(f, id).null_count = NullCount(ChunksOf(f, id))
    BY DEF ParquetColumn, SumOver
<1> HIDE DEF list
<1>3. /\ [k \in DOMAIN list |-> list[k].compressed] = Values(Compressed(f), list)
      /\ [k \in DOMAIN list |-> list[k].encoded] = Values(Encoded(f), list)
    BY <1>1, CompressedIs
<1> QED BY <1>2, <1>3, Zenon DEF list, id

LEMMA RowGroupIs ==
    ASSUME NEW f, IsParquet(f), NEW g \in 1..Len(f.groups)
    PROVE  RowGroupInfo(f, g - 1).compressed = Total(Values(Compressed(f), f.groups[g].columns))
<1> DEFINE list == f.groups[g].columns
           k == g - 1
<1>1. list \in Seq(ChunkSet(f)) /\ k + 1 = g
    <2>1. Len(f.groups) \in Nat /\ \A i \in 1..Len(f.groups) : f.groups[i].columns \in Seq(ChunkSet(f))
        BY GroupsAre
    <2>2. g \in Int
        BY <2>1
    <2> QED BY <2>1, <2>2
<1> HIDE DEF k
<1>2. RowGroupInfo(f, k).compressed = Total([i \in DOMAIN f.groups[k + 1].columns |-> f.groups[k + 1].columns[i].compressed])
    BY DEF RowGroupInfo, SumOver
<1> HIDE DEF list
<1>3. [i \in DOMAIN list |-> list[i].compressed] = Values(Compressed(f), list)
    BY <1>1, CompressedIs
<1>4. RowGroupInfo(f, k).compressed = Total([i \in DOMAIN list |-> list[i].compressed])
    BY <1>1, <1>2, Zenon DEF list
<1> QED BY <1>3, <1>4, Zenon DEF list, k

(* Nulls that are at most the rows in every group are at most the rows of  *)
(* the groups, and are not cut.                                             *)
LEMMA NullsAre ==
    ASSUME NEW f, IsParquet(f), NEW i \in 1..Len(Columns(f)), TotalRows(f) < U32,
           \A g \in DOMAIN f.groups : Nulls(Chunk(f, g - 1, i - 1)) <= f.groups[g].rows
    PROVE  ParquetColumn(f, i - 1).null_count \in 0..TotalRows(f)
<1> DEFINE n == Len(f.groups)
           list == ChunksOf(f, i - 1)
           nulls == [g \in DOMAIN list |-> Nulls(list[g])]
           rows == [g \in DOMAIN f.groups |-> f.groups[g].rows]
           zeros == [g \in 1..n |-> 0]
<1>1. n \in Nat /\ DOMAIN f.groups = 1..n /\ \A g \in 1..n : f.groups[g].rows \in Nat
    BY GroupsAre
<1>2. \A c \in ChunkSet(f) : c.null_count \in Nat
    BY GroupsAre
<1>3. /\ list \in Seq(ChunkSet(f)) /\ Len(list) = n
      /\ \A g \in 1..n : list[g] = f.groups[g].columns[i] /\ list[g] \in ChunkSet(f) /\ list[g] = Chunk(f, g - 1, i - 1)
    BY ChunksAre
<1> HIDE DEF n, list
<1>4. DOMAIN list = 1..n
    BY <1>3
<1>5. \A g \in 1..n : Nulls(list[g]) \in Nat /\ Nulls(list[g]) <= f.groups[g].rows
    BY <1>1, <1>2, <1>3 DEF Nulls
<1>6. nulls \in Seq(Int) /\ Len(nulls) = n /\ \A g \in 1..n : 0 <= nulls[g] /\ nulls[g] <= f.groups[g].rows
    <2>1. nulls = [g \in 1..n |-> Nulls(list[g])]
        BY <1>4
    <2>2. nulls \in [1..n -> Int]
        BY <1>5, <2>1
    <2>3. nulls \in Seq(Int)
        BY <1>1, <2>2, SeqDef
    <2> HIDE DEF nulls
    <2> QED BY <1>1, <1>5, <2>1, <2>2, <2>3
<1>7. rows \in Seq(Int) /\ Len(rows) = n /\ \A g \in 1..n : rows[g] = f.groups[g].rows
    <2>1. rows \in [1..n -> Int]
        BY <1>1
    <2>2. rows \in Seq(Int)
        BY <1>1, <2>1, SeqDef
    <2> QED BY <1>1, <2>1, <2>2
<1>8. zeros \in Seq(Int) /\ Len(zeros) = n /\ \A g \in 1..n : zeros[g] = 0
    <2>1. zeros \in [1..n -> Int]
        OBVIOUS
    <2>2. zeros \in Seq(Int)
        BY <1>1, <2>1, SeqDef
    <2> QED BY <1>1, <2>1, <2>2
<1>9. TotalRows(f) = Total(rows)
    BY Zenon DEF TotalRows, SumOver
<1>10. ParquetColumn(f, i - 1).null_count = Total(nulls) % U32
    <2>1. ParquetColumn(f, i - 1).null_count = NullCount(list)
        BY ColumnIs DEF list
    <2>2. NullCount(list) = Total([g \in DOMAIN list |-> Nulls(list[g])]) % U32
        BY Zenon DEF NullCount, SumOver
    <2> QED BY <2>1, <2>2
<1> HIDE DEF nulls, rows, zeros
<1>11. Total(zeros) = 0
    <2>1. \A k \in 1..Len(zeros) : zeros[k] = 0
        BY <1>8
    <2> QED BY <1>8, <2>1, TotalOfZeros
<1>12. Total(zeros) <= Total(nulls)
    <2>1. Len(nulls) = Len(zeros) /\ \A k \in 1..Len(zeros) : zeros[k] <= nulls[k]
        BY <1>6, <1>8
    <2> QED BY <1>6, <1>8, <2>1, TotalGrows
<1>13. Total(nulls) <= Total(rows)
    <2>1. Len(rows) = Len(nulls) /\ \A k \in 1..Len(nulls) : nulls[k] <= rows[k]
        BY <1>6, <1>7
    <2> QED BY <1>6, <1>7, <2>1, TotalGrows
<1>14. Total(nulls) \in Int /\ Total(rows) \in Int
    BY <1>6, <1>7, TotalIsInt
<1>15. U32 \in Nat \ {0}
    BY U32IsPositive
<1> DEFINE x == Total(nulls)
           r == TotalRows(f)
<1>16. x \in Int /\ r \in Int /\ 0 <= x /\ x <= r /\ r < U32
    BY <1>9, <1>11, <1>12, <1>13, <1>14
<1> HIDE DEF x, r
<1>17. x % U32 = x
    BY <1>15, <1>16
<1> QED BY <1>10, <1>16, <1>17 DEF x, r

(* The options of the columns: each is a field, under its index. *)
LEMMA OptionsAre ==
    ASSUME NEW f, IsParquet(f), NEW k \in DOMAIN SortedFields(f)
    PROVE  \E i \in 1..Len(f.fields) : SortedFields(f)[k].index = i - 1 /\ SortedFields(f)[k].name = f.fields[i].name
<1> DEFINE n == Len(f.fields)
           list == [i \in DOMAIN f.fields |-> [index |-> i - 1, name |-> f.fields[i].name]]
           keys == NameRanks(f)
           S == {list[i] : i \in DOMAIN f.fields}
<1>1. n \in Nat /\ DOMAIN f.fields = 1..n /\ \A i \in 1..n : f.fields[i].rank \in Int
    BY FieldsAre
<1> HIDE DEF n
<1>2. list \in Seq(S) /\ DOMAIN list = 1..n
    <2>1. list \in [1..n -> S] /\ DOMAIN list = 1..n
        BY <1>1
    <2> HIDE DEF list, S
    <2>2. list \in Seq(S)
        BY <1>1, <2>1, SeqDef
    <2> QED BY <2>1, <2>2
<1>3. keys \in [DOMAIN list -> Int]
    BY <1>1 DEF NameRanks
<1>4. \A i \in 1..n : list[i].index = i - 1 /\ list[i].name = f.fields[i].name
    BY <1>1
<1>5. SortedFields(f) = Sorted(list, keys)
    BY Zenon DEF SortedFields
<1> HIDE DEF list, keys, S
<1>6. PICK p : Sorts(p, list, keys)
    BY <1>2, <1>3, SortedOrder
<1>7. p \in [DOMAIN list -> DOMAIN list] /\ Sorted(list, keys) = [l \in DOMAIN list |-> list[p[l]]]
    BY <1>6 DEF Sorts
<1>8. k \in 1..n /\ SortedFields(f)[k] = list[p[k]] /\ p[k] \in 1..n
    BY <1>2, <1>5, <1>7
<1> QED BY <1>4, <1>8 DEF n

(* Without nested fields the columns are the fields. *)
LEMMA FlatColumnsAre ==
    ASSUME NEW f, IsParquet(f), \A i \in DOMAIN f.fields : f.fields[i].leaves = <<<<>>>>
    PROVE  /\ Len(Columns(f)) = Len(f.fields)
           /\ \A i \in 1..Len(f.fields) : Columns(f)[i].path = <<f.fields[i].name>>
<1> DEFINE n == Len(f.fields)
           S == LeafSet(f)
           ss == LeafLists(f)
           g == [k \in 0..n |-> [i \in 1..k |-> LeafOf(f, i, 1)]]
<1>1. n \in Nat /\ DOMAIN f.fields = 1..n
    BY FieldsAre
<1>2. ss \in Seq(Seq(S)) /\ Len(ss) = n /\ Columns(f) = FlattenSeq(ss)
    BY ColumnsAre
<1> HIDE DEF n
<1>3. \A i \in 1..n : LeafOf(f, i, 1) \in S
    <2> TAKE i \in 1..n
    <2>1. <<i, 1>> \in Nat \X Nat /\ <<i, 1>>[1] = i /\ <<i, 1>>[2] = 1
        BY <1>1
    <2> QED BY <2>1 DEF LeafSet
<1>4. \A i \in 1..n : ss[i] = <<LeafOf(f, i, 1)>>
    <2> TAKE i \in 1..n
    <2>1. f.fields[i].leaves = <<<<>>>>
        BY <1>1
    <2>2. DOMAIN f.fields[i].leaves = {1}
        BY <2>1, SMT
    <2>3. LeavesOf(f, i) = [j \in {1} |-> LeafOf(f, i, j)]
        BY <2>2, Zenon DEF LeavesOf
    <2>4. [j \in {1} |-> LeafOf(f, i, j)] = <<LeafOf(f, i, 1)>>
        <3> DEFINE e == LeafOf(f, i, 1)
        <3>1. [j \in {1} |-> LeafOf(f, i, j)] = [j \in {1} |-> e]
            BY Zenon
        <3> HIDE DEF e
        <3>2. [j \in {1} |-> e] = <<e>>
            <4>1. {1} = 1..1
                OBVIOUS
            <4>2. [j \in 1..1 |-> e] = <<e>>
                OBVIOUS
            <4> QED BY <4>1, <4>2
        <3> QED BY <3>1, <3>2 DEF e
    <2>5. ss[i] = LeavesOf(f, i)
        BY <1>1 DEF LeafLists
    <2> QED BY <2>3, <2>4, <2>5
<1> HIDE DEF S, ss
<1>5. g[0] = <<>>
    BY <1>1
<1>6. ASSUME NEW k \in 1..n PROVE g[k] = g[k - 1] \o ss[k]
    <2> DEFINE a == [i \in 1..k - 1 |-> LeafOf(f, i, 1)]
               c == [i \in 1..k |-> LeafOf(f, i, 1)]
               e == LeafOf(f, k, 1)
    <2>0. k \in Int /\ k - 1 \in Nat /\ k \in 0..n /\ k - 1 \in 0..n
        BY <1>1
    <2>1. g[k] = c /\ g[k - 1] = a
        BY <2>0
    <2>2. a \in [1..k - 1 -> S] /\ c \in [1..k -> S] /\ e \in S
        BY <1>1, <1>3
    <2>3. (\A i \in 1..k - 1 : a[i] = c[i]) /\ c[k] = e
        BY <1>1
    <2> HIDE DEF a, c, e, g
    <2>4. a \in Seq(S) /\ Len(a) = k - 1 /\ c \in Seq(S) /\ Len(c) = k
        <3>1. a \in Seq(S) /\ c \in Seq(S)
            BY <2>0, <2>2, SeqDef
        <3> QED BY <2>0, <2>2, <3>1
    <2>5. c = a \o <<e>>
        <3>1. a \o <<e>> \in Seq(S) /\ Len(a \o <<e>>) = k
            BY <2>0, <2>2, <2>4
        <3>2. \A i \in 1..k : (a \o <<e>>)[i] = c[i]
            BY <2>0, <2>2, <2>3, <2>4
        <3> QED BY <2>4, <3>1, <3>2
    <2> QED BY <1>4, <2>1, <2>5 DEF e
<1> HIDE DEF g
<1>7. FlattenSeq(ss) = g[n]
    <2>1. ss \in Seq(Seq(S)) /\ \A k \in 1..Len(ss) : g[k] = g[k - 1] \o ss[k]
        BY <1>2, <1>6 DEF ss, S
    <2>2. FlattenSeq(ss) = g[Len(ss)]
        BY <1>5, <2>1, FlattenIs
    <2> QED BY <1>2, <2>2 DEF ss
<1>8. Columns(f) = [i \in 1..n |-> LeafOf(f, i, 1)]
    BY <1>1, <1>2, <1>7 DEF g, ss
<1>9. \A i \in 1..n : LeafOf(f, i, 1).path = <<f.fields[i].name>>
    <2> TAKE i \in 1..n
    <2>1. f.fields[i].leaves[1] = <<>>
        <3>1. f.fields[i].leaves = <<<<>>>>
            BY <1>1
        <3> QED BY <3>1
    <2>2. LeafOf(f, i, 1).path = <<f.fields[i].name>> \o f.fields[i].leaves[1]
        BY DEF LeafOf
    <2> DEFINE x == f.fields[i].name
    <2> HIDE DEF x
    <2>3. <<x>> \o <<>> = <<x>>
        <3>1. <<x>> \in Seq({x})
            OBVIOUS
        <3> QED BY <3>1
    <2> QED BY <2>1, <2>2, <2>3 DEF x
<1> QED BY <1>1, <1>8, <1>9 DEF n

-----------------------------------------------------------------------------
(* What Describes asks of the panel holds of every file. *)
LEMMA PanelsDescribe ==
    ASSUME NEW f, IsParquet(f)
    PROVE  Describes(f)
<1> DEFINE n == Len(f.groups)
           m == Len(Columns(f))
           lines == Lines(f)
           summary == MetadataSummary(f)
           columns == [i \in DOMAIN Columns(f) |-> ParquetColumn(f, i - 1)]
           groups == [g \in DOMAIN f.groups |-> RowGroupInfo(f, g - 1)]
           compressed == Compressed(f)
           encoded == Encoded(f)
<1>1. /\ n \in Nat /\ DOMAIN f.groups = 1..n /\ m \in Nat
      /\ Valued(ChunkSet(f), compressed) /\ Valued(ChunkSet(f), encoded)
    BY GroupsAre
<1>2. DOMAIN Columns(f) = 1..m
    BY ColumnsAre
<1>3. /\ lines \in Seq(Nat \X Nat) /\ Len(lines) = m /\ SumOver(GroupSize, SchemaRows(f)) = Len(lines)
      /\ \A k \in 1..Len(lines) : lines[k][1] + 1 \in 1..Len(f.fields) /\ lines[k][2] \in IdsOf(f, lines[k][1] + 1)
      /\ \A id \in ColumnIds(f) : \E k \in 1..Len(lines) : lines[k][2] = id
    BY LinesAre
<1>4. /\ summary.compressed_row_group_size = Total(Values(compressed, AllChunks(f)))
      /\ SizesAgree(f) => summary.uncompressed_size = Total(Values(encoded, AllChunks(f)))
    BY SummaryIs
<1>5. \A i \in 1..m : /\ ParquetColumn(f, i - 1).compressed_size = Total(Values(compressed, ChunksOf(f, i - 1)))
                      /\ ParquetColumn(f, i - 1).encoded_size = Total(Values(encoded, ChunksOf(f, i - 1)))
    BY ColumnIs
<1>6. \A g \in 1..n : RowGroupInfo(f, g - 1).compressed = Total(Values(compressed, f.groups[g].columns))
    BY RowGroupIs
<1>7. /\ Total(Values(compressed, AllChunks(f))) = Total([g \in 1..n |-> Total(Values(compressed, f.groups[g].columns))])
      /\ Total(Values(compressed, AllChunks(f))) = Total([i \in 1..m |-> Total(Values(compressed, ChunksOf(f, i - 1)))])
    BY <1>1, ChunkTotals
<1>8. Total(Values(encoded, AllChunks(f))) = Total([i \in 1..m |-> Total(Values(encoded, ChunksOf(f, i - 1)))])
    BY <1>1, ChunkTotals
<1> HIDE DEF n, m, summary, compressed, encoded
<1>9. /\ DOMAIN columns = 1..m /\ Len(columns) = m /\ \A i \in 1..m : columns[i] = ParquetColumn(f, i - 1)
      /\ DOMAIN groups = 1..n /\ \A g \in 1..n : groups[g] = RowGroupInfo(f, g - 1)
    <2>1. columns = [i \in 1..m |-> ParquetColumn(f, i - 1)]
        BY <1>2
    <2>2. Len(columns) = m
        <3> DEFINE T == {columns[i] : i \in 1..m}
        <3>1. columns \in [1..m -> T]
            BY <2>1
        <3> HIDE DEF columns, T
        <3>2. columns \in Seq(T)
            BY <1>1, <3>1, SeqDef
        <3> QED BY <1>1, <3>1, <3>2
    <2> QED BY <1>1, <2>1, <2>2
<1> HIDE DEF columns, groups, lines
<1>10. {lines[i][2] : i \in DOMAIN lines} = ColumnIds(f) /\ Len(lines) = Len(columns)
    <2>1. DOMAIN lines = 1..Len(lines)
        BY <1>3
    <2>2. \A k \in 1..Len(lines) : lines[k][2] \in ColumnIds(f)
        BY <1>3 DEF IdsOf
    <2> QED BY <1>3, <1>9, <2>1, <2>2
<1>11. \A i \in DOMAIN lines : f.fields[lines[i][1] + 1].name = Column(f, lines[i][2]).path[1]
    <2> TAKE k \in DOMAIN lines
    <2>1. DOMAIN lines = 1..Len(lines)
        BY <1>3
    <2>2. lines[k][2] \in IdsOf(f, lines[k][1] + 1)
        BY <1>3, <2>1
    <2> DEFINE i == lines[k][1] + 1
               id == lines[k][2]
    <2> HIDE DEF i, id
    <2>3. id \in IdsOf(f, i) => f.fields[i].name = Column(f, id).path[1]
        BY DEF IdsOf
    <2> QED BY <2>2, <2>3 DEF i, id
<1>13. SumOver(LAMBDA column : column.compressed_size, columns) = summary.compressed_row_group_size
    <2>1. SumOver(LAMBDA column : column.compressed_size, columns) = Total([i \in DOMAIN columns |-> columns[i].compressed_size])
        BY Zenon DEF SumOver
    <2>2. [i \in DOMAIN columns |-> columns[i].compressed_size] = [i \in 1..m |-> Total(Values(compressed, ChunksOf(f, i - 1)))]
        BY <1>5, <1>9
    <2> QED BY <1>4, <1>7, <2>1, <2>2
<1>14. SumOver(LAMBDA group : group.compressed, groups) = summary.compressed_row_group_size
    <2>1. SumOver(LAMBDA group : group.compressed, groups) = Total([g \in DOMAIN groups |-> groups[g].compressed])
        BY Zenon DEF SumOver
    <2>2. [g \in DOMAIN groups |-> groups[g].compressed] = [g \in 1..n |-> Total(Values(compressed, f.groups[g].columns))]
        BY <1>6, <1>9
    <2> QED BY <1>4, <1>7, <2>1, <2>2
<1>15. SizesAgree(f) => SumOver(LAMBDA column : column.encoded_size, columns) = summary.uncompressed_size
    <2>1. SumOver(LAMBDA column : column.encoded_size, columns) = Total([i \in DOMAIN columns |-> columns[i].encoded_size])
        BY Zenon DEF SumOver
    <2>2. [i \in DOMAIN columns |-> columns[i].encoded_size] = [i \in 1..m |-> Total(Values(encoded, ChunksOf(f, i - 1)))]
        BY <1>5, <1>9
    <2> QED BY <1>4, <1>8, <2>1, <2>2
<1>16. ASSUME TotalRows(f) < U32, NEW i \in DOMAIN columns,
              \A g \in DOMAIN f.groups : Nulls(Chunk(f, g - 1, i - 1)) <= f.groups[g].rows
       PROVE  columns[i].null_count \in 0..TotalRows(f)
    <2>1. i \in 1..Len(Columns(f))
        BY <1>9, <1>16 DEF m
    <2>2. ParquetColumn(f, i - 1).null_count \in 0..TotalRows(f)
        BY <1>16, <2>1, NullsAre
    <2> QED BY <1>9, <1>16, <2>2
<1>17. ASSUME \A i \in DOMAIN f.fields : f.fields[i].leaves = <<<<>>>>, NEW k \in DOMAIN SortedFields(f)
       PROVE  Column(f, SortedFields(f)[k].index).path = <<SortedFields(f)[k].name>>
    <2>1. PICK i \in 1..Len(f.fields) : SortedFields(f)[k].index = i - 1 /\ SortedFields(f)[k].name = f.fields[i].name
        BY <1>17, OptionsAre
    <2>2. Columns(f)[i].path = <<f.fields[i].name>>
        BY <1>17, FlatColumnsAre
    <2>3. (i - 1) + 1 = i
        BY FieldsAre
    <2> QED BY <2>1, <2>2, <2>3 DEF Column
<1>18. /\ {lines[i][2] : i \in DOMAIN lines} = ColumnIds(f) /\ Len(lines) = Len(columns)
       /\ \A i \in DOMAIN lines : f.fields[lines[i][1] + 1].name = Column(f, lines[i][2]).path[1]
       /\ SumOver(GroupSize, SchemaRows(f)) = Len(lines)
       /\ SumOver(LAMBDA column : column.compressed_size, columns) = summary.compressed_row_group_size
       /\ SumOver(LAMBDA group : group.compressed, groups) = summary.compressed_row_group_size
       /\ SizesAgree(f) => SumOver(LAMBDA column : column.encoded_size, columns) = summary.uncompressed_size
       /\ TotalRows(f) < U32 =>
             \A i \in DOMAIN columns :
                (\A g \in DOMAIN f.groups : Nulls(Chunk(f, g - 1, i - 1)) <= f.groups[g].rows)
                    => columns[i].null_count \in 0..TotalRows(f)
       /\ (\A i \in DOMAIN f.fields : f.fields[i].leaves = <<<<>>>>) =>
             \A i \in DOMAIN SortedFields(f) :
                 Column(f, SortedFields(f)[i].index).path = <<SortedFields(f)[i].name>>
    BY <1>3, <1>10, <1>11, <1>13, <1>14, <1>15, <1>16, <1>17, Zenon
<1> QED BY <1>18, Zenon DEF Describes, lines, summary, columns, groups

-----------------------------------------------------------------------------
(* What was loaded is one of the contents. *)
PlacesInv ==
    /\ endpoint \in Endpoints
    /\ linked = <<>> \/ linked[1] \in Sources
    /\ \A i \in DOMAIN loads :
         /\ loads[i].endpoint \in Endpoints /\ loads[i].source \in Sources
         /\ loads[i].at = "table" => ContentsAt(loads[i].endpoint, loads[i].source) # 0
    /\ \A i \in DOMAIN files : files[i].contents \in DOMAIN Contents

LEMMA PlacesInvInit == Init => PlacesInv
<1> SUFFICES ASSUME Init PROVE PlacesInv
    OBVIOUS
<1> USE DEF Init, ViewerInit
<1>1. endpoint \in Endpoints
    BY EndpointsAreThere
<1>2. linked = <<>> \/ \E s \in Sources : linked = <<s>>
    OBVIOUS
<1>3. linked = <<>> \/ linked[1] \in Sources
    BY <1>2
<1>4. \A i \in DOMAIN loads :
         /\ loads[i].endpoint \in Endpoints /\ loads[i].source \in Sources
         /\ loads[i].at = "table" => ContentsAt(loads[i].endpoint, loads[i].source) # 0
    <2>1. CASE linked = <<>>
        BY <2>1
    <2>2. CASE linked # <<>>
        <3>1. PICK s \in Sources : linked = <<s>>
            BY <1>2, <2>2
        <3> DEFINE load == Load(linked[1], 1, CHOOSE t \in Tags : TRUE)
        <3>2. loads = <<load>>
            BY <2>2
        <3>3. load.endpoint = endpoint /\ load.source = linked[1] /\ load.at = "footer"
            BY DEF Load
        <3> HIDE DEF load
        <3>4. DOMAIN loads = {1} /\ loads[1] = load
            BY <3>2, SingletonIsSequence
        <3> QED BY <1>1, <1>3, <2>2, <3>3, <3>4
    <2> QED BY <2>1, <2>2
<1>5. files = <<>>
    OBVIOUS
<1> QED BY <1>1, <1>3, <1>4, <1>5 DEF PlacesInv

LEMMA OpensKeepsPlaces ==
    ASSUME LoadsInv, PlacesInv, NEW s \in Sources, NEW tag, Opens(s, tag), UNCHANGED <<endpoint, linked, files>>
    PROVE  PlacesInv'
<1> DEFINE load == Load(s, opened', tag)
<1>1. loads' = Append(loads, load) \/ loads' = loads
    BY DEF Opens
<1>2. load.endpoint = endpoint /\ load.source = s /\ load.at = "footer"
    BY DEF Load
<1> HIDE DEF load
<1>3. \A i \in DOMAIN loads' : loads'[i] = load \/ \E k \in DOMAIN loads : loads'[i] = loads[k]
    <2>1. CASE loads' = Append(loads, load)
        BY <2>1, AppendIsSequence DEF LoadsInv
    <2> QED BY <1>1, <2>1
<1> QED BY <1>2, <1>3 DEF PlacesInv, ContentsAt

LEMMA EndLoadKeepsPlaces ==
    ASSUME LoadsInv, PlacesInv, NEW i \in DOMAIN loads, EndLoad(i), UNCHANGED <<endpoint, linked>>,
           \A k \in DOMAIN files' : files'[k].contents \in DOMAIN Contents
    PROVE  PlacesInv'
<1>1. \A j \in DOMAIN loads' : \E k \in DOMAIN loads : loads'[j] = loads[k]
    BY RemoveAtIsSequence DEF EndLoad, LoadsInv
<1> QED BY <1>1 DEF PlacesInv, ContentsAt

(* A file that joins the list was read where an object is. *)
LEMMA PlacesInvKept ==
    ASSUME ViewerInv, PlacesInv, ViewerNext
    PROVE  PlacesInv'
<1> USE DEF ViewerInv
<1>1. CASE OpenAny
    <2>1. PICK s \in Sources, tag \in Tags : OpenSource(s, tag)
        BY <1>1 DEF OpenAny
    <2> QED BY <2>1, OpensKeepsPlaces DEF OpenSource
<1>2. CASE SetEndpoint
    BY <1>2 DEF SetEndpoint, page, PlacesInv, ContentsAt
<1>3. CASE \E i \in DOMAIN loads : LoadPanics(i) \/ LoadFails(i)
    <2>1. PICK i \in DOMAIN loads : EndLoad(i) /\ UNCHANGED <<endpoint, linked, files>>
        BY <1>3 DEF LoadPanics, LoadFails, page
    <2> QED BY <2>1, EndLoadKeepsPlaces DEF PlacesInv
<1>4. CASE \E i \in DOMAIN loads : ReadsFooter(i)
    <2>1. PICK i \in DOMAIN loads : ReadsFooter(i)
        BY <1>4
    <2>2. /\ ContentsAt(loads[i].endpoint, loads[i].source) # 0
          /\ loads' = [loads EXCEPT ![i].at = "table"]
          /\ UNCHANGED <<endpoint, linked, files>>
        BY <2>1 DEF ReadsFooter, page
    <2>3. \A j \in DOMAIN loads : /\ loads'[j].endpoint = loads[j].endpoint /\ loads'[j].source = loads[j].source
                                  /\ j # i => loads'[j] = loads[j]
        BY <2>2 DEF LoadsInv, LoadFields
    <2>4. DOMAIN loads' = DOMAIN loads
        BY <2>2
    <2> QED BY <2>2, <2>3, <2>4 DEF PlacesInv, ContentsAt
<1>5. CASE \E i \in DOMAIN loads : RegistersTable(i)
    <2>1. PICK i \in DOMAIN loads : RegistersTable(i)
        BY <1>5
    <2> DEFINE file == Resolved(loads[i])
    <2>2. loads[i].at = "table" /\ files' = Append(files, file) /\ EndLoad(i) /\ UNCHANGED <<endpoint, linked>>
        BY <2>1 DEF RegistersTable
    <2>3. file.contents \in DOMAIN Contents
        <3>1. file.contents = Object[loads[i].endpoint][loads[i].source]
            BY DEF Resolved, ContentsAt
        <3> QED BY <2>2, <3>1, ObjectsAreContents DEF PlacesInv, ContentsAt
    <2> HIDE DEF file
    <2>4. \A k \in DOMAIN files' : files'[k] = file \/ \E j \in DOMAIN files : files'[k] = files[j]
        BY <2>2, AppendIsSequence DEF FilesInv
    <2>5. \A k \in DOMAIN files' : files'[k].contents \in DOMAIN Contents
        BY <2>3, <2>4 DEF PlacesInv
    <2> QED BY <2>2, <2>5, EndLoadKeepsPlaces
<1>6. CASE TypeQuery
    BY <1>6 DEF TypeQuery, PlacesInv, ContentsAt
<1>7. CASE SubmitQuery
    BY <1>7 DEF SubmitQuery, PlacesInv, ContentsAt
<1>8. CASE \E i \in DOMAIN results : Hide(results[i].id)
    <2>1. UNCHANGED <<endpoint, linked, loads, files>>
        BY <1>8 DEF Hide
    <2> QED BY <2>1 DEF PlacesInv, ContentsAt
<1>9. CASE ToRewriter \/ ToViewer
    BY <1>9 DEF ToRewriter, ToViewer, page, PlacesInv, ContentsAt
<1>10. CASE BackToLink
    BY <1>10, OpensKeepsPlaces DEF BackToLink, PlacesInv
<1> QED BY <1>1, <1>2, <1>3, <1>4, <1>5, <1>6, <1>7, <1>8, <1>9, <1>10 DEF ViewerNext

(* The list of files grows at its end, by one. *)
LEMMA FilesStay ==
    ASSUME ViewerInv, ViewerNext
    PROVE  /\ Len(files) \in Nat /\ DOMAIN files = 1..Len(files)
           /\ Len(files') \in Nat /\ DOMAIN files' = 1..Len(files')
           /\ Len(files') = Len(files) \/ Len(files') = Len(files) + 1
           /\ \A n \in DOMAIN files : n \in DOMAIN files' /\ files'[n] = files[n]
<1>1. files' = files \/ \E e : files' = Append(files, e)
    BY DEF ViewerNext, OpenAny, OpenSource, SetEndpoint, LoadPanics, LoadFails, ReadsFooter, RegistersTable,
           TypeQuery, SubmitQuery, Hide, ToRewriter, ToViewer, BackToLink, page
<1>2. IsSequence(files)
    BY DEF ViewerInv, FilesInv
<1>3. Len(files) \in Nat /\ DOMAIN files = 1..Len(files)
    BY <1>2 DEF IsSequence
<1>4. CASE \E e : files' = Append(files, e)
    <2>1. PICK e : files' = Append(files, e)
        BY <1>4
    <2>2. Len(files') = Len(files) + 1 /\ DOMAIN files' = 1..Len(files) + 1 /\ \A n \in DOMAIN files : files'[n] = files[n]
        BY <1>2, <2>1, AppendAtTheEnd, AppendKeepsThePrefix
    <2> QED BY <1>3, <2>2
<1> QED BY <1>1, <1>3, <1>4

-----------------------------------------------------------------------------
(* The chunk that is read, and with nothing to read the one that is shown, *)
(* is the selected one.                                                    *)
ChunkInv ==
    /\ DOMAIN chunk = {"shown", "reading"}
    /\ chunk.reading # Nothing => chunk.reading = <<chunk.reading[1], selected_row_group, selected_column>>
    /\ chunk.reading = Nothing /\ chunk.shown # Nothing =>
          chunk.shown = <<chunk.shown[1], selected_row_group, selected_column>>

(* The cells are those of the file, and a cell that has its value has it   *)
(* of the file it asked.                                                   *)
Asking(cell) == cell.asking = Nothing \/ \E n \in DOMAIN files : cell.asking = <<n>>
Answered(cell, c) ==
    \/ cell.value \in {Nothing, <<"failed">>}
    \/ \E n \in DOMAIN files : cell.value = <<"ok", n, Result(FileAt(n), c)>>
CellsInv ==
    /\ DOMAIN cells = IF Given = 0 THEN {} ELSE CellsOf(FileAt(Given))
    /\ \A c \in DOMAIN cells : Asking(cells[c]) /\ Answered(cells[c], c)

(* The selection is in the file, while there has been no other. *)
SelectionInv ==
    /\ ~panicked /\ Given = 1 /\ FileAt(1).groups # <<>> => HasChunk(FileAt(1), selected_row_group, selected_column)
    /\ panicked => Len(files) > 1 \/ (Len(files) = 1 /\ Columns(FileAt(1)) = <<>>)

PanelInv == ChunkInv /\ CellsInv /\ SelectionInv

LEMMA PanelInvInit == Init => PanelInv
<1> SUFFICES ASSUME Init PROVE PanelInv
    OBVIOUS
<1> USE DEF Init, ViewerInit, PanelInit
<1>1. Given = 0
    BY DEF Given
<1>2. ChunkInv
    BY DEF ChunkInv, NoChunk
<1>3. CellsInv
    BY <1>1 DEF CellsInv
<1>4. SelectionInv
    BY <1>1 DEF SelectionInv
<1> QED BY <1>2, <1>3, <1>4 DEF PanelInv

-----------------------------------------------------------------------------
(* The panel follows the page. *)

(* What was asked and answered stays so when files are added. *)
LEMMA CellsStay ==
    ASSUME NEW cell, NEW c, Asking(cell), Answered(cell, c),
           \A n \in DOMAIN files : n \in DOMAIN files' /\ files'[n] = files[n]
    PROVE  /\ cell.asking = Nothing \/ \E n \in DOMAIN files' : cell.asking = <<n>>
           /\ \/ cell.value \in {Nothing, <<"failed">>}
              \/ \E n \in DOMAIN files' : cell.value = <<"ok", n, Result(Contents[files'[n].contents], c)>>
<1>1. cell.asking = Nothing \/ \E n \in DOMAIN files' : cell.asking = <<n>>
    BY DEF Asking
<1>2. ASSUME NEW n \in DOMAIN files, cell.value = <<"ok", n, Result(FileAt(n), c)>>
      PROVE  n \in DOMAIN files' /\ cell.value = <<"ok", n, Result(Contents[files'[n].contents], c)>>
    <2>1. n \in DOMAIN files' /\ files'[n] = files[n]
        OBVIOUS
    <2>2. FileAt(n) = Contents[files'[n].contents]
        BY <2>1 DEF FileAt
    <2> QED BY <1>2, <2>1, <2>2
<1>3. cell.value \in {Nothing, <<"failed">>} \/ \E n \in DOMAIN files : cell.value = <<"ok", n, Result(FileAt(n), c)>>
    BY Zenon DEF Answered
<1>4. CASE cell.value \in {Nothing, <<"failed">>}
    BY <1>1, <1>4, Zenon
<1>5. CASE \E n \in DOMAIN files : cell.value = <<"ok", n, Result(FileAt(n), c)>>
    <2>1. PICK n \in DOMAIN files : cell.value = <<"ok", n, Result(FileAt(n), c)>>
        BY <1>5, Zenon
    <2>2. n \in DOMAIN files' /\ cell.value = <<"ok", n, Result(Contents[files'[n].contents], c)>>
        BY <1>2, <2>1, Zenon
    <2> QED BY <1>1, <2>2, Zenon
<1> QED BY <1>3, <1>4, <1>5

LEMMA CellsInvAfter ==
    ASSUME DOMAIN cells' = IF Given' = 0 THEN {} ELSE CellsOf(Contents[files'[Given'].contents]),
           \A c \in DOMAIN cells' :
              /\ cells'[c].asking = Nothing \/ \E n \in DOMAIN files' : cells'[c].asking = <<n>>
              /\ \/ cells'[c].value \in {Nothing, <<"failed">>}
                 \/ \E n \in DOMAIN files' : cells'[c].value = <<"ok", n, Result(Contents[files'[n].contents], c)>>
    PROVE  CellsInv'
BY Zenon DEF CellsInv, Asking, Answered, FileAt

(* A row group is there to be selected when there is any. *)
LEMMA BoundsOf ==
    ASSUME NEW f, IsParquet(f)
    PROVE  /\ Len(f.groups) \in Nat /\ Len(Columns(f)) \in Nat
           /\ f.groups # <<>> => Len(f.groups) > 0
           /\ Len(Columns(f)) = 0 => Columns(f) = <<>>
<1>1. f.groups \in Seq(ToSet(f.groups))
    BY DEF IsParquet, IsList
<1>2. Columns(f) \in Seq(LeafSet(f))
    BY ColumnsAre
<1> QED BY <1>1, <1>2

LEMMA UnaskedIs == Unasked.asking = Nothing /\ Unasked.value = Nothing
BY DEF Unasked

(* The panel comes up, goes away or is given the next file. *)
LEMMA FollowingKeepsInv ==
    ASSUME ViewerInv, PlacesInv, PanelInv, ~panicked, ViewerNext, PanelFollows, PlacesInv', ViewerInv'
    PROVE  PanelInv'
<1>1. /\ Len(files) \in Nat /\ DOMAIN files = 1..Len(files)
      /\ Len(files') \in Nat /\ DOMAIN files' = 1..Len(files')
      /\ Len(files') = Len(files) \/ Len(files') = Len(files) + 1
      /\ \A n \in DOMAIN files : n \in DOMAIN files' /\ files'[n] = files[n]
    BY FilesStay
<1>2. /\ Given \in Nat /\ Given' \in Nat
      /\ Given # 0 => Given \in DOMAIN files /\ Given = Len(files)
      /\ Given' # 0 => Given' \in DOMAIN files' /\ Given' = Len(files')
    <2>1. Given = (IF route = "viewer" THEN Len(files) ELSE 0) /\ Given' = (IF route' = "viewer" THEN Len(files') ELSE 0)
        BY DEF Given
    <2>2. Given = 0 \/ Given = Len(files)
        BY <2>1, Zenon
    <2>3. Given' = 0 \/ Given' = Len(files')
        BY <2>1, Zenon
    <2> DEFINE n == Len(files)
               k == Len(files')
    <2>6. n \in Nat /\ k \in Nat /\ DOMAIN files = 1..n /\ DOMAIN files' = 1..k
        BY <1>1, Zenon
    <2>7. (Given = 0 \/ Given = n) /\ (Given' = 0 \/ Given' = k)
        BY <2>2, <2>3, Zenon
    <2> HIDE DEF n, k
    <2>8. /\ 0 \in Nat
          /\ n \in Nat /\ n # 0 => n \in 1..n
          /\ k \in Nat /\ k # 0 => k \in 1..k
        BY <2>6
    <2>4. Given \in Nat /\ (Given # 0 => Given \in DOMAIN files /\ Given = Len(files))
        BY <2>6, <2>7, <2>8, Zenon DEF n
    <2>5. Given' \in Nat /\ (Given' # 0 => Given' \in DOMAIN files' /\ Given' = Len(files'))
        BY <2>6, <2>7, <2>8, Zenon DEF k
    <2> QED BY <2>4, <2>5
<1>3. \A c \in DOMAIN cells :
              /\ cells[c].asking = Nothing \/ \E n \in DOMAIN files' : cells[c].asking = <<n>>
              /\ \/ cells[c].value \in {Nothing, <<"failed">>}
                 \/ \E n \in DOMAIN files' : cells[c].value = <<"ok", n, Result(Contents[files'[n].contents], c)>>
    <2> TAKE c \in DOMAIN cells
    <2>1. Asking(cells[c]) /\ Answered(cells[c], c)
        BY DEF PanelInv, CellsInv
    <2> QED BY <1>1, <2>1, CellsStay
<1>0. /\ Given' # 0 => Len(files') > 1 \/ Len(files') = 1
      /\ Given # 0 /\ Given' # 0 /\ Given # Given' => Len(files') > 1 /\ Given' # 1
    <2> DEFINE n == Len(files)
               k == Len(files')
               a == Given
               b == Given'
    <2>1. /\ n \in Nat /\ k \in Nat /\ (k = n \/ k = n + 1)
          /\ a # 0 => a = n
          /\ b # 0 => b = k
        BY <1>1, <1>2
    <2> HIDE DEF n, k, a, b
    <2>2. /\ b # 0 => k > 1 \/ k = 1
          /\ a # 0 /\ b # 0 /\ a # b => k > 1 /\ b # 1
        BY <2>1
    <2> QED BY <2>2 DEF k, a, b
<1> DEFINE f == Contents[files'[Given'].contents]
<1>4. CASE Given' = Given
    <2>1. UNCHANGED panelVars
        BY <1>4 DEF PanelFollows
    <2>2. UNCHANGED <<selected_row_group, selected_column, chunk, cells, panicked>>
        BY <2>1 DEF panelVars
    <2>3. Given # 0 => files'[Given] = files[Given]
        BY <1>1, <1>2
    <2>4. ChunkInv'
        BY <2>2 DEF PanelInv, ChunkInv
    <2>5. CellsInv'
        <3>1. DOMAIN cells' = IF Given' = 0 THEN {} ELSE CellsOf(Contents[files'[Given'].contents])
            BY <1>4, <2>2, <2>3, Zenon DEF PanelInv, CellsInv, FileAt
        <3> QED BY <1>3, <2>2, <3>1, CellsInvAfter
    <2>6. SelectionInv'
        BY <1>4, <2>2, <2>3 DEF PanelInv, SelectionInv, FileAt
    <2> QED BY <2>4, <2>5, <2>6 DEF PanelInv
<1>5. CASE Given' # Given /\ Given' = 0
    <2>1. PanelUnmounts
        BY <1>5 DEF PanelFollows
    <2>2. ChunkInv'
        BY <2>1 DEF PanelUnmounts, ChunkInv, NoChunk
    <2>3. CellsInv'
        BY <1>5, <2>1 DEF PanelUnmounts, CellsInv
    <2>4. SelectionInv'
        BY <1>5, <2>1 DEF PanelUnmounts, SelectionInv
    <2> QED BY <2>2, <2>3, <2>4 DEF PanelInv
<1>6. Given' # 0 => Len(f.groups) \in Nat /\ Len(Columns(f)) \in Nat /\ (f.groups # <<>> => Len(f.groups) > 0) /\ (Len(Columns(f)) = 0 => Columns(f) = <<>>)
    <2> SUFFICES ASSUME Given' # 0
                 PROVE  Len(f.groups) \in Nat /\ Len(Columns(f)) \in Nat /\ (f.groups # <<>> => Len(f.groups) > 0) /\ (Len(Columns(f)) = 0 => Columns(f) = <<>>)
        BY Zenon
    <2>1. files'[Given'].contents \in DOMAIN Contents
        BY <1>2 DEF PlacesInv
    <2> HIDE DEF f
    <2>2. IsParquet(f)
        BY <2>1, ContentsAreParquet DEF f
    <2> QED BY <2>2, BoundsOf
<1>7. CASE Given' # Given /\ Given' # 0 /\ Given = 0
    <2>1. PanelMounts(Given', f)
        BY <1>7, Zenon DEF PanelFollows, FileAt
    <2> HIDE DEF f
    <2>2. /\ selected_row_group' = 0 /\ selected_column' = 0
          /\ panicked' = (f.groups # <<>> /\ ~HasChunk(f, 0, 0))
          /\ chunk' = [NoChunk EXCEPT !.reading = IF f.groups = <<>> THEN Nothing ELSE <<Given', 0, 0>>]
          /\ cells' = [c \in CellsOf(f) |-> Unasked]
        BY <2>1, Zenon DEF PanelMounts, Select, Renders
    <2>3. ChunkInv'
        <3>1. DOMAIN chunk' = {"shown", "reading"} /\ chunk'.shown = Nothing
            BY <2>2 DEF NoChunk
        <3>2. chunk'.reading = Nothing \/ chunk'.reading = <<Given', 0, 0>>
            BY <2>2 DEF NoChunk
        <3> QED BY <2>2, <3>1, <3>2 DEF ChunkInv
    <2>4. CellsInv'
        <3>1. DOMAIN cells' = CellsOf(Contents[files'[Given'].contents])
            BY <2>2, Zenon DEF f
        <3>2. \A c \in DOMAIN cells' : cells'[c].asking = Nothing /\ cells'[c].value \in {Nothing, <<"failed">>}
            <4> DEFINE S == CellsOf(f)
            <4> HIDE DEF S
            <4>1. cells' = [c \in S |-> Unasked]
                BY <2>2, Zenon DEF S
            <4> QED BY <4>1 DEF Unasked
        <3> QED BY <1>7, <3>1, <3>2, CellsInvAfter, Zenon
    <2>5. SelectionInv'
        <3>1. ~panicked' /\ f.groups # <<>> => HasChunk(f, 0, 0)
            BY <2>2, Zenon
        <3>2. panicked' => Len(Columns(f)) = 0
            <4>1. Len(f.groups) \in Nat /\ Len(Columns(f)) \in Nat /\ (f.groups # <<>> => Len(f.groups) > 0)
                BY <1>6, <1>7, Zenon
            <4>2. panicked' => f.groups # <<>> /\ ~(0 < Len(f.groups) /\ 0 < Len(Columns(f)))
                BY <2>2, Zenon DEF HasChunk
            <4>3. Len(f.groups) > 0 /\ Len(Columns(f)) # 0 => 0 < Len(f.groups) /\ 0 < Len(Columns(f))
                BY <4>1
            <4> QED BY <4>1, <4>2, <4>3, Zenon
        <3>3. Len(files') = 1 => Given' = 1
            BY <1>1, <1>2, <1>7
        <3>4. Len(files') > 1 \/ Len(files') = 1
            BY <1>0, <1>7, Zenon
        <3>5. Given' = 1 => Contents[files'[1].contents] = f
            BY DEF f
        <3>6. ~panicked' /\ Given' = 1 /\ Contents[files'[1].contents].groups # <<>>
                => HasChunk(Contents[files'[1].contents], selected_row_group', selected_column')
            BY <2>2, <3>1, <3>5, Zenon
        <3>7. panicked' => Len(files') > 1 \/ (Len(files') = 1 /\ Columns(Contents[files'[1].contents]) = <<>>)
            BY <1>6, <1>7, <3>2, <3>3, <3>4, <3>5, Zenon
        <3> QED BY <3>6, <3>7, Zenon DEF SelectionInv, FileAt
    <2> QED BY <2>3, <2>4, <2>5, Zenon DEF PanelInv
<1>8. CASE Given' # Given /\ Given' # 0 /\ Given # 0
    <2> DEFINE before == Contents[files[Given].contents]
    <2>1. PanelIsGiven(Given', f, before)
        BY <1>8, Zenon DEF PanelFollows, FileAt
    <2>0. Len(files') > 1 /\ Given' # 1
        BY <1>0, <1>8, Zenon
    <2> HIDE DEF f, before
    <2>2. /\ selected_row_group' = selected_row_group /\ selected_column' = selected_column
          /\ \/ chunk' = NoChunk
             \/ chunk' = chunk
             \/ chunk' = [NoChunk EXCEPT !.reading = <<Given', selected_row_group, selected_column>>]
          /\ cells' = [c \in CellsOf(f) |-> IF c \in DOMAIN cells THEN cells[c] ELSE Unasked]
        BY <2>1, Zenon DEF PanelIsGiven
    <2>3. ChunkInv'
        <3>1. CASE chunk' = chunk
            BY <2>2, <3>1 DEF PanelInv, ChunkInv
        <3>2. CASE chunk' = NoChunk
            BY <3>2 DEF ChunkInv, NoChunk
        <3>3. CASE chunk' = [NoChunk EXCEPT !.reading = <<Given', selected_row_group, selected_column>>]
            <4>1. DOMAIN chunk' = {"shown", "reading"} /\ chunk'.reading = <<Given', selected_row_group', selected_column'>>
                BY <2>2, <3>3 DEF NoChunk
            <4> QED BY <4>1 DEF ChunkInv, Nothing
        <3> QED BY <2>2, <3>1, <3>2, <3>3
    <2>4. CellsInv'
        <3>1. DOMAIN cells' = CellsOf(Contents[files'[Given'].contents])
            BY <2>2, Zenon DEF f
        <3>2. \A c \in DOMAIN cells' : (c \in DOMAIN cells /\ cells'[c] = cells[c]) \/ cells'[c] = Unasked
            <4> DEFINE S == CellsOf(f)
            <4> HIDE DEF S
            <4>1. cells' = [c \in S |-> IF c \in DOMAIN cells THEN cells[c] ELSE Unasked]
                BY <2>2, Zenon DEF S
            <4> QED BY <4>1
        <3>3. \A c \in DOMAIN cells' :
                 /\ cells'[c].asking = Nothing \/ \E n \in DOMAIN files' : cells'[c].asking = <<n>>
                 /\ \/ cells'[c].value \in {Nothing, <<"failed">>}
                    \/ \E n \in DOMAIN files' : cells'[c].value = <<"ok", n, Result(Contents[files'[n].contents], c)>>
            BY <1>3, <3>2, UnaskedIs, Zenon
        <3> QED BY <1>8, <3>1, <3>3, CellsInvAfter, Zenon
    <2>5. SelectionInv'
        BY <2>0, Zenon DEF SelectionInv
    <2> QED BY <2>3, <2>4, <2>5, Zenon DEF PanelInv
<1> QED BY <1>4, <1>5, <1>7, <1>8, Zenon

-----------------------------------------------------------------------------
(* The panel by itself. *)

LEMMA SameCells ==
    ASSUME CellsInv, UNCHANGED <<files, route, cells>>
    PROVE  CellsInv'
<1>1. Given' = Given
    BY DEF Given
<1> QED BY <1>1, Zenon DEF CellsInv, Asking, Answered, FileAt

LEMMA CellKeepsInv ==
    ASSUME CellsInv, UNCHANGED <<files, route>>, NEW c \in DOMAIN cells, NEW cell,
           cells' = [cells EXCEPT ![c] = cell], Asking(cell), Answered(cell, c)
    PROVE  CellsInv'
<1>1. Given' = Given
    BY DEF Given
<1>2. DOMAIN cells' = DOMAIN cells /\ \A d \in DOMAIN cells : cells'[d] = IF d = c THEN cell ELSE cells[d]
    OBVIOUS
<1>3. \A d \in DOMAIN cells : Asking(cells'[d]) /\ Answered(cells'[d], d)
    BY <1>2, Zenon DEF CellsInv
<1> QED BY <1>1, <1>2, <1>3, Zenon DEF CellsInv, Asking, Answered, FileAt

LEMMA SameSelection ==
    ASSUME SelectionInv, UNCHANGED <<files, route, selected_row_group, selected_column, panicked>>
    PROVE  SelectionInv'
<1>1. Given' = Given
    BY DEF Given
<1> QED BY <1>1, Zenon DEF SelectionInv, FileAt

(* A selection in the file starts the resource for the same places. *)
LEMMA SelectsKeepsInv ==
    ASSUME PanelInv, Given \in Nat \ {0}, Given = Len(files), UNCHANGED <<files, route>>, NEW g, NEW id,
           Selects(Given, FileAt(Given), g, id), Given = 1 => HasChunk(FileAt(1), g, id)
    PROVE  PanelInv'
<1>0. Given' = Given
    BY DEF Given
<1>1. /\ selected_row_group' = g /\ selected_column' = id
      /\ panicked' = (FileAt(Given).groups # <<>> /\ ~HasChunk(FileAt(Given), g, id))
      /\ chunk' = [chunk EXCEPT !.reading = <<Given, g, id>>]
      /\ cells' = cells
    BY Zenon DEF Selects, Select, Renders
<1>2. ChunkInv'
    <2>1. DOMAIN chunk = {"shown", "reading"}
        BY DEF PanelInv, ChunkInv
    <2>2. DOMAIN chunk' = {"shown", "reading"} /\ chunk'.reading = <<Given, g, id>>
        BY <1>1, <2>1
    <2> QED BY <1>1, <2>2 DEF ChunkInv, Nothing
<1>3. CellsInv'
    BY <1>1, SameCells DEF PanelInv
<1>4. Given = 1 \/ Len(files) > 1
    OBVIOUS
<1>5. SelectionInv'
    <2>1. ~panicked' /\ Given' = 1 /\ Contents[files'[1].contents].groups # <<>>
             => HasChunk(Contents[files'[1].contents], selected_row_group', selected_column')
        BY <1>0, <1>1, Zenon DEF FileAt
    <2>2. panicked' => Len(files') > 1
        BY <1>1, <1>4, Zenon
    <2> QED BY <2>1, <2>2, Zenon DEF SelectionInv, FileAt
<1> QED BY <1>2, <1>3, <1>5 DEF PanelInv

(* Selecting, asking and answering keep what the panel shows in its place. *)
LEMMA PanelStepKeepsInv ==
    ASSUME ViewerInv, PlacesInv, PanelInv, ~panicked, PanelNext \/ PanelWaits
    PROVE  PanelInv'
<1>1. UNCHANGED <<files, route>>
    BY DEF PanelNext, PanelWaits, Click, viewerVars, page
<1>2. /\ Len(files) \in Nat /\ DOMAIN files = 1..Len(files)
      /\ Given = (IF route = "viewer" THEN Len(files) ELSE 0)
    BY DEF ViewerInv, FilesInv, IsSequence, Given
<1>3. Given # 0 => Given \in Nat \ {0} /\ Given = Len(files) /\ Given \in DOMAIN files
    <2>1. Given = 0 \/ Given = Len(files)
        BY <1>2, Zenon
    <2> QED BY <1>2, <2>1
<1> DEFINE f == FileAt(Given)
<1>4. Given # 0 => IsParquet(f)
    <2>1. Given # 0 => files[Given].contents \in DOMAIN Contents
        BY <1>3, Zenon DEF PlacesInv
    <2> QED BY <2>1, ContentsAreParquet, Zenon DEF FileAt
<1>5. Given = 1 /\ f.groups # <<>> => selected_row_group < Len(f.groups) /\ selected_column < Len(Columns(f))
    BY Zenon DEF PanelInv, SelectionInv, HasChunk
<1>6. CASE Given # 0 /\ SelectRowGroup(Given, f)
    <2>1. PICK g \in 0..MetadataSummary(f).row_group_count - 1 : Selects(Given, f, g, selected_column)
        BY <1>6, Zenon DEF SelectRowGroup
    <2>2. MetadataSummary(f).row_group_count = Len(f.groups)
        BY DEF MetadataSummary, SumOver, FirstChunkHas
    <2>3. Len(f.groups) \in Nat /\ f.groups # <<>>
        <3>1. IsParquet(f)
            BY <1>4, <1>6, Zenon
        <3>2. f.groups # <<>>
            BY <2>1, Zenon DEF Selects
        <3> HIDE DEF f
        <3> QED BY <3>1, <3>2, BoundsOf
    <2>4. g < Len(f.groups)
        <3> DEFINE n == Len(f.groups)
        <3>1. g \in 0..n - 1 /\ n \in Nat
            BY <2>1, <2>2, <2>3, Zenon
        <3> HIDE DEF n
        <3>2. g < n
            BY <3>1
        <3> QED BY <3>2 DEF n
    <2>5. Given = 1 => HasChunk(FileAt(1), g, selected_column)
        BY <1>5, <2>3, <2>4, Zenon DEF HasChunk
    <2> QED BY <1>1, <1>3, <1>6, <2>1, <2>5, SelectsKeepsInv
<1>7. CASE Given # 0 /\ SelectColumn(Given, f)
    <2>1. PICK k \in DOMAIN SortedFields(f) : Selects(Given, f, selected_row_group, SortedFields(f)[k].index)
        BY <1>7, Zenon DEF SelectColumn
    <2>2. IsParquet(f)
        BY <1>4, <1>7, Zenon
    <2>3. f.groups # <<>>
        BY <2>1, Zenon DEF Selects
    <2> DEFINE id == SortedFields(f)[k].index
    <2>4. id < Len(Columns(f))
        <3> HIDE DEF f
        <3>1. PICK i \in 1..Len(f.fields) : SortedFields(f)[k].index = i - 1
            BY <2>2, OptionsAre
        <3>2. Len(f.fields) \in Nat
            BY <2>2, FieldsAre
        <3>3. Len(Columns(f)) \in Nat /\ Len(Columns(f)) >= Len(f.fields)
            BY <2>2, ColumnsAre
        <3> QED BY <3>1, <3>2, <3>3
    <2>5. Given = 1 => HasChunk(FileAt(1), selected_row_group, id)
        <3> HIDE DEF id
        <3> QED BY <1>5, <2>3, <2>4, Zenon DEF HasChunk
    <2> HIDE DEF id
    <2>6. Selects(Given, f, selected_row_group, id)
        BY <2>1 DEF id
    <2> QED BY <1>1, <1>3, <1>7, <2>5, <2>6, SelectsKeepsInv
<1>8. CASE Given # 0 /\ \E c \in DOMAIN cells : Ask(Given, c)
    <2>1. PICK c \in DOMAIN cells : Ask(Given, c)
        BY <1>8, Zenon
    <2> DEFINE cell == [value |-> Nothing, asking |-> <<Given>>]
    <2>2. /\ cells' = [cells EXCEPT ![c] = cell]
          /\ UNCHANGED <<selected_row_group, selected_column, chunk, panicked>>
        BY <2>1, Zenon DEF Ask, Cell
    <2>3. Asking(cell) /\ Answered(cell, c)
        BY <1>3, <1>8, Zenon DEF Asking, Answered
    <2> HIDE DEF cell
    <2>4. CellsInv'
        BY <1>1, <2>2, <2>3, CellKeepsInv DEF PanelInv
    <2>5. ChunkInv'
        BY <2>2 DEF PanelInv, ChunkInv
    <2>6. SelectionInv'
        BY <1>1, <2>2, SameSelection DEF PanelInv
    <2> QED BY <2>4, <2>5, <2>6 DEF PanelInv
<1>9. CASE \E c \in DOMAIN cells : Answers(c, [n \in DOMAIN files |-> FileAt(n)])
    <2>1. PICK c \in DOMAIN cells : Answers(c, [n \in DOMAIN files |-> FileAt(n)])
        BY <1>9, Zenon
    <2>2. PICK n \in DOMAIN files : cells[c].asking = <<n>>
        BY <2>1, Zenon DEF PanelInv, CellsInv, Asking, Answers
    <2>3. cells[c].asking[1] = n /\ [k \in DOMAIN files |-> FileAt(k)][n] = FileAt(n)
        BY <2>2
    <2> DEFINE answer == [value |-> <<"ok", n, Result(FileAt(n), c)>>, asking |-> Nothing]
               failure == [value |-> <<"failed">>, asking |-> Nothing]
    <2>4. /\ cells' = [cells EXCEPT ![c] = answer] \/ cells' = [cells EXCEPT ![c] = failure]
          /\ UNCHANGED <<selected_row_group, selected_column, chunk, panicked>>
        BY <2>1, <2>3, Zenon DEF Answers, Cell
    <2>5. Asking(answer) /\ Answered(answer, c) /\ Asking(failure) /\ Answered(failure, c)
        <3>1. answer.asking = Nothing /\ answer.value = <<"ok", n, Result(FileAt(n), c)>>
            BY Zenon
        <3>2. failure.asking = Nothing /\ failure.value = <<"failed">>
            BY Zenon
        <3> HIDE DEF answer, failure
        <3> QED BY <3>1, <3>2, Zenon DEF Asking, Answered
    <2> HIDE DEF answer, failure
    <2>6. CellsInv'
        BY <1>1, <2>4, <2>5, CellKeepsInv DEF PanelInv
    <2>7. ChunkInv'
        BY <2>4 DEF PanelInv, ChunkInv
    <2>8. SelectionInv'
        BY <1>1, <2>4, SameSelection DEF PanelInv
    <2> QED BY <2>6, <2>7, <2>8 DEF PanelInv
<1>10. CASE PagesAreRead
    <2>1. /\ chunk.reading # Nothing
          /\ chunk' = [shown |-> chunk.reading, reading |-> Nothing]
          /\ UNCHANGED <<selected_row_group, selected_column, cells, panicked>>
        BY <1>10 DEF PagesAreRead
    <2>2. ChunkInv'
        BY <2>1 DEF PanelInv, ChunkInv
    <2>3. CellsInv'
        BY <1>1, <2>1, SameCells DEF PanelInv
    <2>4. SelectionInv'
        BY <1>1, <2>1, SameSelection DEF PanelInv
    <2> QED BY <2>2, <2>3, <2>4 DEF PanelInv
<1> QED BY <1>6, <1>7, <1>8, <1>9, <1>10, Zenon DEF PanelNext, PanelWaits, Click

(* Inductive, with what keeps the list and the session in order. *)
PageInv == ViewerInv /\ PlacesInv /\ PanelInv

LEMMA PageInvNext == PageInv /\ [Next]_vars => PageInv'
<1> SUFFICES ASSUME PageInv, [Next]_vars
             PROVE  PageInv'
    OBVIOUS
<1> USE DEF PageInv
<1>1. ViewerInv'
    BY ViewerInvNext
<1>2. CASE ~panicked /\ ViewerNext /\ PanelFollows
    <2>1. PlacesInv'
        BY <1>2, PlacesInvKept
    <2> QED BY <1>1, <1>2, <2>1, FollowingKeepsInv
<1>3. ASSUME UNCHANGED viewerVars PROVE PlacesInv'
    BY <1>3 DEF viewerVars, page, PlacesInv, ContentsAt
<1>4. CASE ~panicked /\ (PanelNext \/ PanelWaits)
    <2>1. UNCHANGED viewerVars
        BY <1>4 DEF PanelNext, PanelWaits, Click
    <2> QED BY <1>1, <1>3, <1>4, <2>1, PanelStepKeepsInv
<1>5. CASE UNCHANGED vars
    <2>1. UNCHANGED viewerVars /\ UNCHANGED <<files, route, selected_row_group, selected_column, chunk, cells, panicked>>
        BY <1>5 DEF vars, viewerVars, panelVars, page
    <2>2. ChunkInv'
        BY <2>1 DEF PanelInv, ChunkInv
    <2>3. CellsInv'
        BY <2>1, SameCells DEF PanelInv
    <2>4. SelectionInv'
        BY <2>1, SameSelection DEF PanelInv
    <2> QED BY <1>1, <1>3, <2>1, <2>2, <2>3, <2>4 DEF PanelInv
<1> QED BY <1>2, <1>4, <1>5 DEF Next

-----------------------------------------------------------------------------
(* What the cells of the schema table show of the file they asked. *)

(* The pages of a chunk that can be decoded are those that are sound. *)
LEMMA SoundPagesAre ==
    ASSUME NEW f, NEW g, NEW id, NEW S, Chunk(f, g, id).pages \in Seq(S)
    PROVE  /\ PagesOf(f, g, id) \in Seq(S)
           /\ \A p \in ToSet(Chunk(f, g, id).pages) : p.sound => Occurs(p, PagesOf(f, g, id))
<1> DEFINE pages == Chunk(f, g, id).pages
           N == {i \in DOMAIN pages : pages[i].sound}
           places == Ascending(N)
<1>1. PagesOf(f, g, id) = [k \in DOMAIN places |-> pages[places[k]]]
    BY Zenon DEF PagesOf, Filtered
<1>2. pages \in Seq(S) /\ Len(pages) \in Nat /\ DOMAIN pages = 1..Len(pages)
    <2>1. pages \in Seq(S)
        OBVIOUS
    <2> HIDE DEF pages
    <2> QED BY <2>1
<1>3. ToSet(pages) = {pages[i] : i \in DOMAIN pages}
    BY DEF ToSet
<1> HIDE DEF pages
<1>4. N \in SUBSET Int /\ IsFiniteSet(N) /\ N \subseteq 1..Len(pages)
    <2>1. N \subseteq 1..Len(pages)
        BY <1>2
    <2>2. IsFiniteSet(1..Len(pages))
        <3> DEFINE l == Len(pages)
        <3>1. l \in Int /\ 1 \in Int
            BY <1>2
        <3> HIDE DEF l
        <3>2. IsFiniteSet(1..l)
            BY <3>1, FS_Interval
        <3> QED BY <3>2 DEF l
    <2>3. N \in SUBSET Int
        BY <2>1
    <2> QED BY <2>1, <2>2, <2>3, FS_Subset
<1> DEFINE c == Cardinality(N)
<1>5. /\ places \in Seq(N) /\ Len(places) = c /\ c \in Nat
      /\ \A x \in N : \E k \in 1..c : places[k] = x
    <2>1. Cardinality(N) \in Nat
        BY <1>4, FS_CardinalityType
    <2> HIDE DEF N
    <2> QED BY <1>4, <2>1, AscendingOrder
<1>6. DOMAIN places = 1..c /\ \A k \in 1..c : places[k] \in N
    <2> HIDE DEF c, places, N
    <2> QED BY <1>5
<1> DEFINE shown == PagesOf(f, g, id)
<1> HIDE DEF c, places
<1>7. shown \in Seq(S) /\ Len(shown) = c
    <2>1. \A k \in 1..c : pages[places[k]] \in S
        BY <1>2, <1>4, <1>6
    <2>2. shown \in [1..c -> S]
        BY <1>1, <1>6, <2>1
    <2> HIDE DEF shown
    <2> QED BY <1>5, <2>2, SeqDef
<1>8. ASSUME NEW p \in ToSet(pages), p.sound
      PROVE  Occurs(p, shown)
    <2>1. PICK i \in DOMAIN pages : pages[i] = p
        BY <1>3
    <2>2. i \in N
        BY <1>8, <2>1
    <2>3. PICK k \in 1..c : places[k] = i
        BY <1>5, <2>2
    <2>4. shown[k] = p
        BY <1>1, <1>6, <2>1, <2>3
    <2>5. k \in 1..Len(shown)
        BY <1>7
    <2> HIDE DEF shown
    <2> QED BY <2>4, <2>5 DEF Occurs
<1> QED BY <1>7, <1>8 DEF shown, pages

(* The encodings of a column are those of every sound page that can be     *)
(* fetched.                                                                *)
AllPages(f) == UNION {ToSet(c.pages) : c \in ChunkSet(f)}

LEMMA EncodingsAre ==
    ASSUME NEW f, IsParquet(f), NEW id \in ColumnIds(f), NEW g \in 1..Len(f.groups),
           Chunk(f, g - 1, id).readable, NEW p \in ToSet(Chunk(f, g - 1, id).pages), p.sound
    PROVE  p.encoding \in DOMAIN PageEncodings(f, id)
<1> DEFINE n == Len(f.groups)
           S == AllPages(f)
           N == {h \in 0..n - 1 : Chunk(f, h, id).readable}
           readable == Ascending(N)
           ss == [k \in DOMAIN readable |-> PagesOf(f, readable[k], id)]
           pages == FlattenSeq(ss)
<1>1. n \in Nat
    BY GroupsAre
<1>2. id + 1 \in 1..Len(Columns(f)) /\ id \in Nat
    BY IdsAre
<1>3. ASSUME NEW h \in 0..n - 1
      PROVE  /\ PagesOf(f, h, id) \in Seq(S)
             /\ \A q \in ToSet(Chunk(f, h, id).pages) : q.sound => Occurs(q, PagesOf(f, h, id))
    <2> DEFINE c == Chunk(f, h, id)
               C == ChunkSet(f)
    <2>1. c \in C
        <3> DEFINE place == <<h + 1, id + 1>>
        <3>1. place \in (1..Len(f.groups)) \X (1..Len(Columns(f)))
            BY <1>1, <1>2
        <3>2. c = f.groups[place[1]].columns[place[2]]
            BY DEF Chunk
        <3> HIDE DEF c, place
        <3> QED BY <3>1, <3>2, Zenon DEF ChunkSet
    <2>2. IsList(c.pages)
        <3> HIDE DEF c
        <3> QED BY <2>1, GroupsAre
    <2>3. ToSet(c.pages) \subseteq S
        <3> HIDE DEF c, C
        <3> QED BY <2>1 DEF AllPages, C
    <2>4. c.pages \in Seq(S)
        <3> DEFINE l == c.pages
                   T == ToSet(l)
        <3>1. l \in Seq(T)
            BY <2>2 DEF IsList
        <3>2. T \subseteq S
            BY <2>3
        <3> HIDE DEF l, T, S
        <3>3. l \in Seq(S)
            BY <3>1, <3>2
        <3> QED BY <3>3 DEF l
    <2> HIDE DEF S
    <2> QED BY <2>4, SoundPagesAre DEF c
<1>4. N \in SUBSET Int /\ IsFiniteSet(N)
    <2>1. IsFiniteSet(0..n - 1)
        <3> DEFINE l == n - 1
        <3>1. l \in Int /\ 0 \in Int
            BY <1>1
        <3> HIDE DEF l
        <3>2. IsFiniteSet(0..l)
            BY <3>1, FS_Interval
        <3> QED BY <3>2 DEF l
    <2>2. N \subseteq 0..n - 1 /\ N \in SUBSET Int
        BY <1>1
    <2> QED BY <2>1, <2>2, FS_Subset
<1> DEFINE c == Cardinality(N)
<1>5. /\ readable \in Seq(N) /\ Len(readable) = c /\ c \in Nat
      /\ \A x \in N : \E k \in 1..c : readable[k] = x
    <2>1. Cardinality(N) \in Nat
        BY <1>4, FS_CardinalityType
    <2> HIDE DEF N
    <2> QED BY <1>4, <2>1, AscendingOrder
<1>6. DOMAIN readable = 1..c /\ \A k \in 1..c : readable[k] \in 0..n - 1
    <2> HIDE DEF c, readable
    <2> QED BY <1>5
<1>7. g - 1 \in N
    BY <1>1
<1> HIDE DEF c, readable, n, S
<1>8. ss \in Seq(Seq(S)) /\ Len(ss) = c /\ \A k \in 1..c : ss[k] = PagesOf(f, readable[k], id)
    <2>1. ss \in [1..c -> Seq(S)]
        BY <1>3, <1>6
    <2>2. \A k \in 1..c : ss[k] = PagesOf(f, readable[k], id)
        BY <1>6
    <2> HIDE DEF ss
    <2>3. ss \in Seq(Seq(S)) /\ Len(ss) = c
        BY <1>5, <2>1, SeqDef
    <2> QED BY <2>2, <2>3
<1>9. Occurs(p, pages)
    <2>1. PICK k \in 1..c : readable[k] = g - 1
        BY <1>5, <1>7
    <2>2. Occurs(p, PagesOf(f, g - 1, id))
        BY <1>3, <1>7
    <2>3. k \in 1..Len(ss) /\ Occurs(p, ss[k])
        BY <1>8, <2>1, <2>2
    <2> HIDE DEF ss
    <2> QED BY <1>8, <2>3, FlattenOccurs
<1>10. pages \in Seq(S)
    <2> HIDE DEF ss
    <2> QED BY <1>8, FlattenOccurs
<1>11. DOMAIN PageEncodings(f, id) = {pages[k].encoding : k \in DOMAIN pages}
    BY Zenon DEF PageEncodings, readable, n
<1> HIDE DEF pages
<1>12. PICK k \in 1..Len(pages) : pages[k] = p
    BY <1>9 DEF Occurs
<1>13. k \in DOMAIN pages
    BY <1>10, <1>12
<1> QED BY <1>11, <1>12, <1>13

LEMMA CellShows ==
    ASSUME NEW f, IsParquet(f), NEW c \in CellsOf(f)
    PROVE  IF c.kind = "distinct"
           THEN \E i \in DOMAIN f.fields :
                   f.fields[i].name = Column(f, c.row[2]).path[1] /\ Result(f, c) = f.fields[i].distinct
           ELSE \A g \in DOMAIN f.groups :
                   Chunk(f, g - 1, c.id).readable =>
                       \A p \in ToSet(Chunk(f, g - 1, c.id).pages) : p.sound => p.encoding \in DOMAIN Result(f, c)
<1> DEFINE n == Len(f.fields)
<1>1. n \in Nat /\ DOMAIN f.fields = 1..n
    BY FieldsAre
<1>2. /\ DOMAIN SchemaRows(f) = 1..n
      /\ \A i \in 1..n :
           /\ SchemaRows(f)[i].arrow_index = i - 1
           /\ IdsIn(f, i) \in Seq(IdsOf(f, i))
           /\ Len(IdsIn(f, i)) \in Nat \ {0}
    BY RowsAre
<1>3. PICK row \in ToSet(SchemaRows(f)) : c \in {DistinctCell(row)} \cup {PageEncodingsCell(row, id) : id \in ToSet(row.parquet_columns)}
    BY Zenon DEF CellsOf
<1>4. PICK i \in 1..n : row = SchemaRows(f)[i]
    BY <1>2, <1>3 DEF ToSet
<1>5. row.arrow_index = i - 1 /\ row.parquet_columns = IdsIn(f, i) /\ i - 1 + 1 = i
    BY <1>1, <1>2, <1>4 DEF IdsIn
<1> DEFINE s == IdsIn(f, i)
           I == IdsOf(f, i)
<1>6. s \in Seq(I) /\ Len(s) \in Nat \ {0}
    BY <1>2
<1>7. I \subseteq ColumnIds(f) /\ \A id \in I : Column(f, id).path[1] = f.fields[i].name
    BY DEF IdsOf
<1> HIDE DEF n, s, I
<1>8. DOMAIN s = 1..Len(s) /\ 1 \in DOMAIN s /\ \A k \in DOMAIN s : s[k] \in I
    BY <1>6
<1>9. CASE c = DistinctCell(row)
    <2>1. c.kind = "distinct" /\ c.id = i - 1 /\ c.row = LinesOfColumns(row)[1]
        BY <1>5, <1>9 DEF DistinctCell
    <2>2. LinesOfColumns(row) = [k \in DOMAIN s |-> <<i - 1, s[k]>>]
        BY <1>5 DEF LinesOfColumns, s
    <2>3. c.row[2] = s[1]
        BY <1>8, <2>1, <2>2
    <2>4. f.fields[i].name = Column(f, c.row[2]).path[1]
        BY <1>7, <1>8, <2>3
    <2>5. Result(f, c) = f.fields[i].distinct
        BY <1>5, <2>1 DEF Result
    <2>6. i \in DOMAIN f.fields
        BY <1>1
    <2> QED BY <2>1, <2>4, <2>5, <2>6, Zenon
<1>10. CASE \E id \in ToSet(row.parquet_columns) : c = PageEncodingsCell(row, id)
    <2>1. PICK id \in ToSet(row.parquet_columns) : c = PageEncodingsCell(row, id)
        BY <1>10
    <2>2. c.kind = "encodings" /\ c.id = id
        BY <2>1 DEF PageEncodingsCell
    <2>3. id \in ColumnIds(f)
        BY <1>5, <1>7, <1>8, <2>1 DEF ToSet, s
    <2>4. c.kind # "distinct" /\ Result(f, c) = PageEncodings(f, id)
        BY <2>2 DEF Result
    <2>5. ASSUME NEW g \in DOMAIN f.groups, Chunk(f, g - 1, id).readable,
                 NEW p \in ToSet(Chunk(f, g - 1, id).pages), p.sound
          PROVE  p.encoding \in DOMAIN PageEncodings(f, id)
        <3>1. g \in 1..Len(f.groups)
            BY GroupsAre
        <3> QED BY <2>3, <2>5, <3>1, EncodingsAre
    <2> QED BY <2>2, <2>4, <2>5, Zenon
<1> QED BY <1>3, <1>9, <1>10

-----------------------------------------------------------------------------
(* The theorems of the panel. *)

(* The file the panel is given is one that was loaded. *)
LEMMA GivenIsParquet ==
    ASSUME PageInv, Given # 0
    PROVE  Given \in DOMAIN files /\ files[Given].contents \in DOMAIN Contents /\ IsParquet(FileAt(Given))
<1>1. Given = Len(files) /\ Len(files) # 0
    BY DEF Given
<1>2. Len(files) \in Nat /\ DOMAIN files = 1..Len(files)
    <2>1. IsSequence(files)
        BY DEF PageInv, ViewerInv, FilesInv
    <2> QED BY <2>1 DEF IsSequence
<1>3. Given \in DOMAIN files
    <2> DEFINE n == Len(files)
    <2>1. n \in 1..n
        BY <1>1, <1>2
    <2> HIDE DEF n
    <2> QED BY <1>1, <1>2, <2>1 DEF n
<1>4. files[Given].contents \in DOMAIN Contents
    BY <1>3 DEF PageInv, PlacesInv
<1> QED BY <1>3, <1>4, ContentsAreParquet DEF FileAt

(* What the panel says of its file is so: the lines of the table are those *)
(* of the columns, the compressed sizes add up alike over the columns and  *)
(* over the row groups, the uncompressed ones where the footer gives each  *)
(* group the size of its chunks, and no column has more nulls than rows if *)
(* no group of it has.                                                     *)
THEOREM PanelsDescribeTheirFiles == Spec => []PanelDescribesItsFile
<1>1. PageInv => PanelDescribesItsFile
    <2> SUFFICES ASSUME PageInv, Given # 0 PROVE files[Given].contents \in Described
        BY DEF PanelDescribesItsFile
    <2> DEFINE n == files[Given].contents
    <2>1. n \in DOMAIN Contents /\ IsParquet(Contents[n])
        BY GivenIsParquet DEF FileAt
    <2> HIDE DEF n
    <2>2. Describes(Contents[n])
        BY <2>1, PanelsDescribe
    <2>3. n \in Described
        BY <2>1, <2>2 DEF Described
    <2> QED BY <2>3 DEF n
<1>2. Init => PageInv
    BY ViewerInvInit, PlacesInvInit, PanelInvInit DEF PageInv
<1> QED BY <1>1, <1>2, PageInvNext, PTL DEF Spec

(* What the panel shows of a chunk and in a cell is of the selection and   *)
(* of the place it is shown at, when it was asked of the file; and only    *)
(* the selection of an earlier file is out of bounds.                      *)
THEOREM PanelsShowTheirSelection == Spec => []PanelShowsItsSelection
<1>1. PageInv => PanelShowsItsSelection
    <2> SUFFICES ASSUME PageInv PROVE PanelShowsItsSelection
        OBVIOUS
    <2>0. ChunkInv /\ CellsInv /\ SelectionInv
        BY DEF PageInv, PanelInv
    <2>1. chunk.shown # Nothing /\ chunk.reading = Nothing /\ chunk.shown[1] = Given =>
             chunk.shown = <<Given, selected_row_group, selected_column>>
        BY <2>0, Zenon DEF ChunkInv
    <2>2. Given # 0 => DOMAIN cells = CellsAt[files[Given].contents]
        <3>1. Given # 0 => files[Given].contents \in DOMAIN Contents
            BY GivenIsParquet
        <3> QED BY <2>0, <3>1, Zenon DEF CellsInv, CellsAt, FileAt
    <2>3. ASSUME NEW c \in DOMAIN cells, Given # 0, cells[c].value # Nothing, cells[c].value[1] = "ok",
                 cells[c].value[2] = Given
          PROVE  LET f == FileAt(Given)
                     row == {i \in DOMAIN f.fields : f.fields[i].name = Column(f, c.row[2]).path[1]}
                 IN IF c.kind = "distinct" THEN \E i \in row : cells[c].value[3] = f.fields[i].distinct
                    ELSE \A g \in DOMAIN f.groups :
                            Chunk(f, g - 1, c.id).readable =>
                                \A p \in ToSet(Chunk(f, g - 1, c.id).pages) :
                                    p.sound => p.encoding \in DOMAIN cells[c].value[3]
        <3> DEFINE f == FileAt(Given)
                   value == cells[c].value
        <3>1. value \in {Nothing, <<"failed">>} \/ \E n \in DOMAIN files : value = <<"ok", n, Result(FileAt(n), c)>>
            BY <2>0, Zenon DEF CellsInv, Answered
        <3>2. value # Nothing /\ value[1] = "ok" /\ value[2] = Given
            BY <2>3
        <3> HIDE DEF value
        <3>3. value # <<"failed">>
            BY <3>2
        <3>4. PICK n \in DOMAIN files : value = <<"ok", n, Result(FileAt(n), c)>>
            BY <3>1, <3>2, <3>3, Zenon
        <3>5. value[2] = n /\ value[3] = Result(FileAt(n), c)
            BY <3>4
        <3>6. value[3] = Result(f, c)
            BY <3>2, <3>5, Zenon
        <3>7. IsParquet(f)
            BY <2>3, GivenIsParquet
        <3>8. c \in CellsOf(f)
            BY <2>0, <2>3, Zenon DEF CellsInv
        <3> HIDE DEF f
        <3>9. IF c.kind = "distinct"
              THEN \E i \in DOMAIN f.fields :
                      f.fields[i].name = Column(f, c.row[2]).path[1] /\ value[3] = f.fields[i].distinct
              ELSE \A g \in DOMAIN f.groups :
                      Chunk(f, g - 1, c.id).readable =>
                          \A p \in ToSet(Chunk(f, g - 1, c.id).pages) : p.sound => p.encoding \in DOMAIN value[3]
            BY <3>6, <3>7, <3>8, CellShows, Zenon
        <3> QED BY <3>9, Zenon DEF f, value
    <2>4. panicked => Len(files) > 1 \/ Columns(FileAt(1)) = <<>>
        BY <2>0, Zenon DEF SelectionInv
    <2> QED BY <2>1, <2>2, <2>3, <2>4, Zenon DEF PanelShowsItsSelection
<1>2. Init => PageInv
    BY ViewerInvInit, PlacesInvInit, PanelInvInit DEF PageInv
<1> QED BY <1>1, <1>2, PageInvNext, PTL DEF Spec
=============================================================================
