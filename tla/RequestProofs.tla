---------------------------- MODULE RequestProofs ----------------------------
(***************************************************************************)
(* Proofs about the proxies behind the chains, and about the requests of   *)
(* the gateway as a whole.                                                 *)
(*                                                                         *)
(* Uploads: StorageInv is inductive, and with it every upload is sound.    *)
(* The search: SearchInv is inductive, and from it who is found and who    *)
(* may be shown twice, for any directory and any size of a page.           *)
(* Preferences, for any devices, switches and flags: a flag is undone only *)
(* by a write whose own read failed or was overtaken.                      *)
(* The requests: every part keeps its invariant beside the others.         *)
(***************************************************************************)
EXTENDS ChainProofs, MCGatewayRequests, FiniteSetTheorems, SequenceTheorems

-----------------------------------------------------------------------------
(* Uploads.                                                                *)

\* The types and extensions that each list has.
LEMMA TypeLists ==
  /\ DOMAIN ImageTypes = {"image/jpeg", "image/jpg", "image/png"}
  /\ DOMAIN ChatTypes = {"image/jpeg", "image/jpg", "image/png", "audio/mp4"}
  /\ DOMAIN EscrowTypes =
       {"image/jpeg", "image/jpg", "image/png", "audio/mp4", "video/mp4"}
  /\ DOMAIN ImageExts = {"jpg", "jpeg", "png"}
  /\ DOMAIN ChatExts = {"jpg", "jpeg", "png", "m4a"}
  /\ DOMAIN EscrowExts = {"jpg", "jpeg", "png", "m4a", "mp4"}
BY DEF ImageTypes, ChatTypes, EscrowTypes, ImageExts, ChatExts, EscrowExts

\* The lists, entry by entry.
LEMMA TypeEntries ==
  /\ ImageTypes["image/jpeg"] = "jpg" /\ ImageTypes["image/jpg"] = "jpg"
  /\ ImageTypes["image/png"] = "png"
  /\ \A t \in DOMAIN ImageTypes : ChatTypes[t] = ImageTypes[t]
  /\ ChatTypes["audio/mp4"] = "m4a"
  /\ \A t \in DOMAIN ChatTypes : EscrowTypes[t] = ChatTypes[t]
  /\ EscrowTypes["video/mp4"] = "mp4"
BY TypeLists DEF ImageTypes, ChatTypes, EscrowTypes

\* The type that each extension stands for; the longer lists agree with the
\* shorter ones.
LEMMA ExtEntries ==
  /\ ImageExts["jpg"] = "image/jpeg" /\ ImageExts["jpeg"] = "image/jpeg"
  /\ ImageExts["png"] = "image/png"
  /\ \A e \in DOMAIN ImageExts : ChatExts[e] = ImageExts[e]
  /\ ChatExts["m4a"] = "audio/mp4"
  /\ \A e \in DOMAIN ChatExts : EscrowExts[e] = ChatExts[e]
  /\ EscrowExts["mp4"] = "video/mp4"
BY TypeLists DEF ImageExts, ChatExts, EscrowExts

\* What kind of content each type is.
LEMMA Families ==
  /\ \A t \in DOMAIN ImageTypes : Family(t) = "image"
  /\ Family("audio/mp4") = "audio" /\ Family("video/mp4") = "video"
  /\ Family("application/pdf") = "document"
BY TypeLists DEF Family

\* What is settled for an upload: a type of one of the families, and an
\* extension that stands for a type of that family, if it stands for any.
Fits(as, families) ==
  /\ as \in [type : ContentTypes, ext : Extensions]
  /\ Family(as.type) \in families
  /\ as.ext \in DOMAIN EscrowExts => Family(EscrowExts[as.ext]) = Family(as.type)

\* A list whose entries fit settles what fits.
LEMMA ListedFits ==
  ASSUME NEW types, NEW exts, NEW families, NEW name, NEW type,
         \A t \in DOMAIN types : Fits([type |-> t, ext |-> types[t]], families),
         \A e \in DOMAIN exts : Fits([type |-> exts[e], ext |-> e], families),
         Listed(types, exts, name, type) # Unsupported
  PROVE  Fits(Listed(types, exts, name, type), families)
BY DEF Listed

\* What the list of images resolves is an image by type and by name.
LEMMA ImagesFit ==
  ASSUME NEW name, NEW type, Listed(ImageTypes, ImageExts, name, type) # Unsupported
  PROVE  Fits(Listed(ImageTypes, ImageExts, name, type), {"image"})
<1>1. \A t \in DOMAIN ImageTypes : Fits([type |-> t, ext |-> ImageTypes[t]], {"image"})
  BY TypeLists, TypeEntries, ExtEntries, Families DEF Fits, ContentTypes, Extensions
<1>2. \A e \in DOMAIN ImageExts : Fits([type |-> ImageExts[e], ext |-> e], {"image"})
  BY TypeLists, ExtEntries, Families DEF Fits, ContentTypes, Extensions
<1> QED
  BY <1>1, <1>2, ListedFits

\* Likewise the media of a chat,
LEMMA ChatFits ==
  ASSUME NEW name, NEW type, Listed(ChatTypes, ChatExts, name, type) # Unsupported
  PROVE  Fits(Listed(ChatTypes, ChatExts, name, type), {"image", "audio"})
<1> DEFINE families == {"image", "audio"}
<1>1. \A t \in DOMAIN ChatTypes : Fits([type |-> t, ext |-> ChatTypes[t]], families)
  BY TypeLists, TypeEntries, ExtEntries, Families DEF Fits, ContentTypes, Extensions
<1>2. \A e \in DOMAIN ChatExts : Fits([type |-> ChatExts[e], ext |-> e], families)
  BY TypeLists, ExtEntries, Families DEF Fits, ContentTypes, Extensions
<1> QED
  BY <1>1, <1>2, ListedFits

\* those of an escrow,
LEMMA EscrowFits ==
  ASSUME NEW name, NEW type, Listed(EscrowTypes, EscrowExts, name, type) # Unsupported
  PROVE  Fits(Listed(EscrowTypes, EscrowExts, name, type), {"image", "audio", "video"})
<1> DEFINE families == {"image", "audio", "video"}
<1>1. \A t \in DOMAIN EscrowTypes : Fits([type |-> t, ext |-> EscrowTypes[t]], families)
  BY TypeLists, TypeEntries, ExtEntries, Families DEF Fits, ContentTypes, Extensions
<1>2. \A e \in DOMAIN EscrowExts : Fits([type |-> EscrowExts[e], ext |-> e], families)
  BY TypeLists, ExtEntries, Families DEF Fits, ContentTypes, Extensions
<1> QED
  BY <1>1, <1>2, ListedFits

\* and documents, whose type and name may disagree.
LEMMA DocumentsFit ==
  ASSUME NEW name, NEW type, ResolveFCY(name, type) # Unsupported
  PROVE  Fits(ResolveFCY(name, type), {"image", "document"})
<1>1. CASE "application/pdf" = type \/ name = "pdf"
  BY <1>1, TypeLists, Families DEF ResolveFCY, Fits, ContentTypes, Extensions
<1>2. CASE ~("application/pdf" = type \/ name = "pdf")
  <2>1. ResolveFCY(name, type) = Listed(ImageTypes, ImageExts, name, type)
    BY <1>2 DEF ResolveFCY
  <2> QED
    BY <2>1, ImagesFit DEF Fits
<1> QED
  BY <1>1, <1>2

\* Whatever the app says of a file, its type, if it is taken, is of a family
\* that its keyspace takes.
LEMMA ResolvedFits ==
  ASSUME NEW k \in Keyspaces, NEW name, NEW type,
         Resolved(k, name, type) # Unsupported
  PROVE  Fits(Resolved(k, name, type), FamiliesOf(k))
<1>1. CASE k = "chat-media"
  <2>1. Resolved(k, name, type) = Listed(ChatTypes, ChatExts, name, type)
    BY <1>1, Zenon DEF Resolved
  <2>2. Fits(Resolved(k, name, type), {"image", "audio"})
    BY <2>1, ChatFits
  <2> QED
    BY <1>1, <2>2 DEF Fits, FamiliesOf
<1>2. CASE k = "escrow"
  <2>1. Resolved(k, name, type) = Listed(EscrowTypes, EscrowExts, name, type)
    BY <1>2, Zenon DEF Resolved
  <2>2. Fits(Resolved(k, name, type), {"image", "audio", "video"})
    BY <2>1, EscrowFits
  <2> QED
    BY <1>2, <2>2 DEF Fits, FamiliesOf
<1>3. CASE k = "fcy-document"
  <2>1. Resolved(k, name, type) = ResolveFCY(name, type)
    BY <1>3, Zenon DEF Resolved
  <2>2. Fits(Resolved(k, name, type), {"image", "document"})
    BY <2>1, DocumentsFit
  <2> QED
    BY <1>3, <2>2 DEF Fits, FamiliesOf
<1>4. CASE k \notin {"chat-media", "escrow", "fcy-document"}
  <2>1. Resolved(k, name, type) = Listed(ImageTypes, ImageExts, name, type)
    BY <1>4, Zenon DEF Resolved
  <2>2. Fits(Resolved(k, name, type), {"image"})
    BY <2>1, ImagesFit
  <2> QED
    BY <1>4, <2>2 DEF Fits, FamiliesOf
<1> QED
  BY <1>1, <1>2, <1>3, <1>4

\* The URL of an answer, before and after its host may be replaced.
LEMMA UrlFacts ==
  ASSUME StorageTypeOK
  PROVE  /\ ToPublicURL(SignedURL) \in URL
         /\ backend = "cloud" \/ publicStorage => Reaches(ToPublicURL(SignedURL))
BY StorageAssumption
DEF StorageTypeOK, SignedURL, ToPublicURL, PointsAtOurStorage, URL, Reaches

\* No key has been handed out yet.
LEMMA StorageInitInv == StorageInit => StorageInv
BY StorageAssumption
DEF StorageInit, StorageInv, StorageTypeOK, KeysAreFresh, UploadsAreSound,
    ObjectsAreTheirUploads, UploadsLand

\* What an upload URL is for.
SoundTicket(t) ==
  /\ t.key.user = t.user
  /\ Family(t.type) \in FamiliesOf(t.keyspace)
  /\ t.key.ext \in DOMAIN EscrowExts => Family(EscrowExts[t.key.ext]) = Family(t.type)
  /\ backend = "cloud" \/ publicStorage => Reaches(t.url)

\* With fresh identifiers no two tickets are for one object.
LEMMA SoundTickets ==
  ASSUME KeysAreFresh
  PROVE  UploadsAreSound <=> \A n \in DOMAIN tickets : SoundTicket(tickets[n])
BY DEF KeysAreFresh, UploadsAreSound, ObjectsAreTheirUploads, UploadsLand, SoundTicket

\* Each answer names an object that none has named before.
LEMMA HandOutKeeps ==
  ASSUME StorageInv, NEW u \in Uploaders, NEW k \in Keyspaces, NEW name, NEW type,
         HandOut(u, k, name, type)
  PROVE  StorageInv'
<1> DEFINE as == Resolved(k, name, type)
           key == BuildScopedKey(u, k, as.ext, Len(tickets) + 1)
           url == ToPublicURL(SignedURL)
           t == [user |-> u, keyspace |-> k, type |-> as.type, key |-> key, url |-> url]
<1>1. /\ as # Unsupported /\ Len(tickets) < MaxUploads
      /\ tickets' = Append(tickets, t) /\ lastUpload' = "ok"
      /\ backend' = backend /\ publicStorage' = publicStorage
  BY DEF HandOut
<1>2. Fits(as, FamiliesOf(k))
  BY <1>1, ResolvedFits
<1>3. StorageTypeOK /\ tickets \in Seq(Ticket) /\ Len(tickets) \in Nat
  BY DEF StorageInv, StorageTypeOK
<1>4. url \in URL /\ (backend = "cloud" \/ publicStorage => Reaches(url))
  BY <1>3, UrlFacts
<1>5. /\ key \in Key /\ key.id = Len(tickets) + 1 /\ key.user = u
      /\ key.ext = as.ext
  BY <1>2, <1>3 DEF Fits, BuildScopedKey, Key
<1>6. t \in Ticket
  BY <1>2, <1>4, <1>5 DEF Fits, Ticket
<1>7. SoundTicket(t)
  <2> HIDE DEF as, key, url
  <2> QED
    BY <1>2, <1>4, <1>5 DEF SoundTicket, Fits
<1> HIDE DEF t, key, url, as
<1>8. StorageTypeOK'
  BY <1>1, <1>3, <1>6, StorageAssumption DEF StorageTypeOK
<1>9. t.key.id = Len(tickets) + 1
  BY <1>5 DEF t
<1>10. KeysAreFresh'
  BY <1>1, <1>3, <1>6, <1>9 DEF StorageInv, KeysAreFresh
<1>11. \A n \in DOMAIN tickets : SoundTicket(tickets[n])
  BY SoundTickets DEF StorageInv
<1>12. \A n \in DOMAIN tickets' : SoundTicket(tickets'[n])
  BY <1>1, <1>3, <1>6, <1>7, <1>11
<1>13. (\A n \in DOMAIN tickets : SoundTicket(tickets[n]))'
  BY <1>1, <1>12 DEF SoundTicket
<1>14. KeysAreFresh' =>
         (UploadsAreSound' <=> (\A n \in DOMAIN tickets : SoundTicket(tickets[n]))')
  BY DEF KeysAreFresh, UploadsAreSound, ObjectsAreTheirUploads, UploadsLand, SoundTicket
<1> QED
  BY <1>8, <1>10, <1>13, <1>14 DEF StorageInv

\* Every step keeps the keys apart.
LEMMA StorageStepInv == StorageInv /\ [StorageNext]_storageVars => StorageInv'
<1> SUFFICES ASSUME StorageInv, [StorageNext]_storageVars PROVE StorageInv'
  OBVIOUS
<1>1. ASSUME UNCHANGED <<backend, publicStorage, tickets>>,
             lastUpload' \in {"none", "ok", "unsupported_media_type",
                              "storage_unreachable"}
      PROVE  StorageInv'
  BY <1>1 DEF StorageInv, StorageTypeOK, KeysAreFresh, UploadsAreSound,
     ObjectsAreTheirUploads, UploadsLand
<1>2. ASSUME NEW k \in Keyspaces, NEW name \in FileNames, NEW type \in FileTypes,
             RefuseType(k, name, type) \/ StorageFails(k, name, type)
      PROVE  StorageInv'
  BY <1>1, <1>2 DEF RefuseType, StorageFails
<1>3. CASE UNCHANGED storageVars
  BY <1>1, <1>3 DEF storageVars, StorageInv, StorageTypeOK
<1> QED
  BY <1>2, <1>3, HandOutKeeps DEF StorageNext

\* The uploads keep their types, and no object's identifier is used twice
\* (storage_proxy.go:485-511).
THEOREM StorageInvariant == StorageSpec => []StorageInv
  BY StorageInitInv, StorageStepInv, PTL DEF StorageSpec

\* Whatever the app says of its files, each upload has an object of its own,
\* under its user, of a type that its keyspace takes, and its URL can be
\* used where the storage can be reached at all (storage_proxy.go:414-562).
THEOREM UploadsSound == StorageSpec => []UploadsAreSound
<1>1. StorageInv => UploadsAreSound
  BY DEF StorageInv
<1> QED
  BY <1>1, StorageInvariant, PTL

-----------------------------------------------------------------------------
(* The search.                                                             *)

\* What SMT needs of the directory.
LEMMA DirectoryIsASequence ==
  ASSUME SearchTypeOK
  PROVE  /\ directory \in Seq(People) /\ Len(directory) \in Nat
         /\ DOMAIN directory = 1 .. Len(directory)
         /\ \A i \in DOMAIN directory : directory[i] \in People
BY SearchAssumption DEF SearchTypeOK

\* The part of the directory that the page at an offset covers.
PageAt(o) == {i \in DOMAIN directory : o < i /\ i <= o + Limit}

\* The elements of a sequence behind the first o, up to the e-th.
LEMMA SubSeqFrom ==
  ASSUME NEW S, NEW s \in Seq(S), NEW o \in Nat, NEW e \in Nat,
         o + 1 <= e, e <= Len(s)
  PROVE  /\ SubSeq(s, o + 1, e) \in Seq(S)
         /\ Len(SubSeq(s, o + 1, e)) = e - o
         /\ \A j \in 1 .. e - o : SubSeq(s, o + 1, e)[j] = s[o + j]
<1> DEFINE m == o + 1
           r == SubSeq(s, m, e)
<1>1. \A i \in m .. e : s[i] \in S
  <2>1. DOMAIN s = 1 .. Len(s) /\ Len(s) \in Nat /\ \A i \in 1 .. Len(s) : s[i] \in S
    OBVIOUS
  <2> QED
    BY <2>1
<1>2. m \in Int /\ e \in Int /\ m <= e /\ e - m + 1 = e - o
  OBVIOUS
<1> HIDE DEF m
<1>3. /\ r \in Seq(S)
      /\ Len(r) = IF m <= e THEN e - m + 1 ELSE 0
      /\ \A i \in 1 .. e - m + 1 : r[i] = s[m + i - 1]
  BY <1>1, <1>2, SubSeqProperties
<1>4. \A j \in 1 .. e - o : m + j - 1 = o + j
  BY DEF m
<1>5. r \in Seq(S) /\ Len(r) = e - o /\ \A j \in 1 .. e - o : r[j] = s[o + j]
  BY <1>2, <1>3, <1>4
<1> QED
  BY <1>5 DEF m

\* A page of the directory is that part of it, and is full unless it is the
\* last one.
LEMMA RawPage ==
  ASSUME SearchTypeOK, NEW up, "directory" \in up
  PROVE  /\ Range(RawOf(up)) = {directory[i] : i \in PageAt(offset)}
         /\ Len(RawOf(up)) >= Limit => offset + Limit <= Len(directory)
         /\ Len(RawOf(up)) < Limit => Len(directory) < offset + Limit
         /\ Len(RawOf(up)) \in Nat
<1> DEFINE end == IF offset + Limit <= Len(directory)
                  THEN offset + Limit ELSE Len(directory)
           raw == SubSeq(directory, offset + 1, end)
<1>1. /\ directory \in Seq(People) /\ Len(directory) \in Nat
      /\ DOMAIN directory = 1 .. Len(directory)
  BY DirectoryIsASequence
<1>2. offset \in Nat /\ Limit \in Nat \ {0}
  BY SearchAssumption DEF SearchTypeOK
<1>3. RawOf(up) = raw
  BY DEF RawOf
<1>4. end \in Nat /\ end <= Len(directory) /\ end <= offset + Limit
  BY <1>1, <1>2
<1>5. CASE offset + 1 <= end
  <2>1. /\ raw \in Seq(People) /\ Len(raw) = end - offset
        /\ \A j \in 1 .. end - offset : raw[j] = directory[offset + j]
    BY <1>1, <1>2, <1>4, <1>5, SubSeqFrom
  <2>2. DOMAIN raw = 1 .. end - offset
    BY <2>1
  <2>3. Range(raw) \subseteq {directory[i] : i \in PageAt(offset)}
    <3> SUFFICES ASSUME NEW j \in 1 .. end - offset
                 PROVE  raw[j] \in {directory[i] : i \in PageAt(offset)}
      BY <2>2 DEF Range
    <3>1. offset + j \in PageAt(offset)
      BY <1>1, <1>2, <1>4 DEF PageAt
    <3> QED
      BY <2>1, <3>1
  <2>4. {directory[i] : i \in PageAt(offset)} \subseteq Range(raw)
    <3> SUFFICES ASSUME NEW i \in PageAt(offset)
                 PROVE  directory[i] \in Range(raw)
      OBVIOUS
    <3>1. i - offset \in 1 .. end - offset /\ offset + (i - offset) = i
      BY <1>1, <1>2, <1>4 DEF PageAt
    <3>2. raw[i - offset] = directory[i]
      BY <2>1, <3>1
    <3> QED
      BY <2>2, <3>1, <3>2 DEF Range
  <2> QED
    BY <1>1, <1>2, <1>3, <2>1, <2>3, <2>4
<1>6. CASE ~(offset + 1 <= end)
  <2>1. raw = << >>
    BY <1>1, <1>2, <1>4, <1>6
  <2>2. PageAt(offset) = {} /\ Len(directory) < offset + Limit
    BY <1>1, <1>2, <1>6 DEF PageAt
  <2> QED
    BY <1>2, <1>3, <2>1, <2>2 DEF Range
<1> QED
  BY <1>5, <1>6

\* A directory that is down has no page.
LEMMA NoRawPage ==
  ASSUME NEW up, "directory" \notin up
  PROVE  Range(RawOf(up)) = {}
BY DEF RawOf, Range

\* Nobody has been shown anything yet.
LEMMA SearchInitInv == SearchInit => SearchInv
<1> SUFFICES ASSUME SearchInit PROVE SearchInv
  OBVIOUS
<1>1. SearchTypeOK /\ Len(directory) \in Nat /\ DOMAIN directory = 1 .. Len(directory)
  <2>1. SearchTypeOK
    <3>1. local \in [People -> 0 .. MaxRows] /\ saved \in [People -> 0 .. MaxRows]
      BY SearchAssumption DEF SearchInit
    <3> QED
      BY <3>1 DEF SearchInit, SearchTypeOK
  <2> QED
    BY <2>1, DirectoryIsASequence
<1>2. OnlySavedRowsRepeat
  BY SearchAssumption DEF SearchInit, OnlySavedRowsRepeat, Rows
<1>3. PagesLieApart /\ ShownForAReason
  BY DEF SearchInit, PagesLieApart, ShownForAReason
<1>4. NobodyIsPassedOver
  BY <1>1, SearchAssumption DEF SearchInit, NobodyIsPassedOver, Covered
<1> QED
  BY <1>1, <1>2, <1>3, <1>4 DEF SearchInv, SearchInit

\* Where the people of a page come from.
LEMMA PageSources ==
  ASSUME SearchTypeOK, NEW up
  PROVE  /\ LocalOf(up) \in [People -> 0 .. MaxRows] /\ LocalOf(up)[Caller] = 0
         /\ \A p \in People : LocalOf(up)[p] \in {0, saved[p]}
         /\ LocalUserIDs(up) \subseteq Saved \ {Caller}
         /\ MembersOf(up) \subseteq members \ ({Caller} \cup LocalUserIDs(up))
         /\ offset # 0 => LocalUserIDs(up) = {} /\ MembersOf(up) = {}
         /\ \A p \in DirectoryOf(up) : \E i \in PageAt(offset) : directory[i] = p
         /\ DirectoryOf(up) \subseteq
              People \ ({Caller} \cup LocalUserIDs(up) \cup MembersOf(up))
<1>1. /\ LocalOf(up) \in [People -> 0 .. MaxRows] /\ LocalOf(up)[Caller] = 0
      /\ \A p \in People : LocalOf(up)[p] \in {0, saved[p]}
      /\ \A p \in People : LocalOf(up)[p] > 0 => p # Caller /\ saved[p] > 0 /\ offset = 0
  <2>1. 0 \in 0 .. MaxRows /\ saved \in [People -> 0 .. MaxRows]
    BY SearchAssumption DEF SearchTypeOK
  <2> QED
    BY <2>1, SearchAssumption DEF LocalOf
<1>2. /\ LocalUserIDs(up) \subseteq Saved \ {Caller}
      /\ offset # 0 => LocalUserIDs(up) = {}
  BY <1>1 DEF LocalUserIDs, Saved
<1>3. /\ MembersOf(up) \subseteq members \ ({Caller} \cup LocalUserIDs(up))
      /\ offset # 0 => MembersOf(up) = {}
  BY DEF MembersOf
<1>4. \A p \in Range(RawOf(up)) : p \in People /\ \E i \in PageAt(offset) : directory[i] = p
  <2>1. CASE "directory" \in up
    BY <2>1, RawPage, DirectoryIsASequence DEF PageAt
  <2>2. CASE "directory" \notin up
    BY <2>2, NoRawPage
  <2> QED
    BY <2>1, <2>2
<1> QED
  BY <1>1, <1>2, <1>3, <1>4 DEF DirectoryOf

\* The offset is added to those of the people on the page.
LEMMA AnswerShows ==
  ASSUME SearchTypeOK, NEW up, AnswerPage(up)
  PROVE  \A p \in People :
           shownOn'[p] = IF p \in LocalUserIDs(up) \cup connections' \cup listed'
                         THEN shownOn[p] \cup {offset} ELSE shownOn[p]
BY DEF AnswerPage, SearchTypeOK

\* A page shows people, and does not change the directory.
LEMMA AnswerKeepsTypes ==
  ASSUME SearchInv, NEW up, AnswerPage(up)
  PROVE  SearchTypeOK' /\ IsInjective(directory)'
<1>1. SearchTypeOK
  BY DEF SearchInv
<1>2. UNCHANGED <<directory, saved, members, payable, offset>>
  BY DEF AnswerPage, worldVars
<1>3. client' = "showing" /\ more' \in BOOLEAN
  BY DEF AnswerPage, HasMore
<1>4. blind' \in BOOLEAN
  <2>1. blind \in BOOLEAN /\ blind' = (blind \/ "directory" \notin up)
    BY <1>1 DEF AnswerPage, SearchTypeOK
  <2> QED
    BY <2>1, Zenon
<1>5. local' \in [People -> 0 .. MaxRows] /\ connections' \in SUBSET People /\ listed' \in SUBSET People
  BY <1>1, PageSources DEF AnswerPage, KeepPayable, SearchTypeOK
<1>6. shownOn' \in [People -> SUBSET (0 .. offset)]
  <2>1. shownOn \in [People -> SUBSET (0 .. offset)] /\ offset \in 0 .. offset
    BY <1>1 DEF SearchTypeOK
  <2> QED
    BY <2>1 DEF AnswerPage
<1>7. IsInjective(directory)'
  BY <1>2 DEF SearchInv, IsInjective
<1> QED
  BY <1>1, <1>2, <1>3, <1>4, <1>5, <1>6, <1>7 DEF SearchTypeOK

\* The page just shown lies apart from those before, repeats saved rows only, and
\* shows each for a reason.
LEMMA AnswerKeepsApart ==
  ASSUME SearchInv, NEW up, AnswerPage(up)
  PROVE  OnlySavedRowsRepeat' /\ PagesLieApart' /\ ShownForAReason'
<1>1. SearchTypeOK /\ offset \in Nat /\ Limit \in Nat \ {0}
  BY SearchAssumption DEF SearchInv, SearchTypeOK
<1>2. /\ UNCHANGED <<directory, saved, members, payable, offset>>
      /\ client = "asking" /\ client' = "showing"
  BY DEF AnswerPage, worldVars
<1>3. OnlySavedRowsRepeat'
  <2>1. /\ local' = LocalOf(up) /\ connections' \subseteq MembersOf(up)
        /\ listed' \subseteq DirectoryOf(up) /\ saved' = saved
    BY <1>2 DEF AnswerPage, KeepPayable
  <2>2. \A p \in People :
          /\ local'[p] \in Nat /\ local'[p] \in {0, saved[p]}
          /\ local'[p] > 0 => p \notin connections' \cup listed'
          /\ p \in connections' => p \notin listed'
    BY <1>1, <2>1, PageSources, SearchAssumption DEF LocalUserIDs
  <2>3. local'[Caller] = 0 /\ Caller \notin connections' \cup listed'
    BY <1>1, <2>1, PageSources
  <2> QED
    BY <2>1, <2>2, <2>3 DEF OnlySavedRowsRepeat, Rows
<1>4. \A p \in People : \A o \in shownOn[p] : o \in Nat /\ o # offset /\ o + Limit <= offset
  BY <1>1, <1>2 DEF SearchInv, PagesLieApart, SearchTypeOK
<1>5. PagesLieApart'
  <2> SUFFICES ASSUME NEW p \in People, NEW o \in shownOn'[p]
               PROVE  /\ o = offset \/ o + Limit <= offset
                      /\ \A q \in shownOn'[p] :
                           o = q \/ o + Limit <= q \/ q + Limit <= o
    BY <1>2 DEF PagesLieApart
  <2>1. shownOn'[p] \subseteq shownOn[p] \cup {offset}
    BY <1>1, AnswerShows
  <2>2. \A q \in shownOn[p] : \A r \in shownOn[p] :
          q = r \/ q + Limit <= r \/ r + Limit <= q
    BY DEF SearchInv, PagesLieApart
  <2> QED
    BY <1>1, <1>4, <2>1, <2>2
<1>6. ShownForAReason'
  <2> SUFFICES ASSUME NEW p \in People, NEW o \in shownOn'[p]
               PROVE  \/ o = 0 /\ p \in Saved \cup members
                      \/ \E i \in DOMAIN directory :
                           directory[i] = p /\ o < i /\ i <= o + Limit
    BY <1>2 DEF ShownForAReason, Saved
  <2>1. CASE o \in shownOn[p]
    BY <2>1 DEF SearchInv, ShownForAReason
  <2>2. CASE o \notin shownOn[p]
    <3>1. o = offset /\ p \in LocalUserIDs(up) \cup connections' \cup listed'
      BY <1>1, <2>2, AnswerShows
    <3>2. /\ connections' \subseteq MembersOf(up)
          /\ listed' \subseteq DirectoryOf(up)
      BY DEF AnswerPage, KeepPayable
    <3> QED
      BY <1>1, <3>1, <3>2, PageSources DEF PageAt
  <2> QED
    BY <2>1, <2>2
<1> QED
  BY <1>3, <1>5, <1>6

\* Of the part of the directory that the page covers, whoever can be paid is
\* on the page.
LEMMA AnswerPassesNobodyOver ==
  ASSUME SearchInv, NEW up, AnswerPage(up)
  PROVE  NobodyIsPassedOver'
<1>1. SearchTypeOK /\ offset \in Nat /\ Limit \in Nat \ {0}
  BY SearchAssumption DEF SearchInv, SearchTypeOK
<1>2. /\ UNCHANGED <<directory, saved, members, payable, offset>>
      /\ client = "asking" /\ client' = "showing"
      /\ Covered = offset /\ Covered' = offset + Limit
  BY DEF AnswerPage, worldVars, Covered
<1> SUFFICES ASSUME ~blind'
             PROVE  /\ \A i \in DOMAIN directory :
                         i <= offset + Limit /\ directory[i] \in payable
                           /\ directory[i] # Caller => shownOn'[directory[i]] # {}
                    /\ ~more' => Len(directory) < offset + Limit
  BY <1>2 DEF NobodyIsPassedOver
<1>3. ~blind /\ "directory" \in up
  <2>1. blind' = (blind \/ "directory" \notin up)
    BY DEF AnswerPage
  <2> QED
    BY <2>1, Zenon
<1>4. ASSUME NEW i \in DOMAIN directory, i <= offset + Limit,
             directory[i] \in payable, directory[i] # Caller
      PROVE  shownOn'[directory[i]] # {}
  <2>0. directory[i] \in People /\ i \in Nat
    BY <1>1, DirectoryIsASequence
  <2>1. CASE i <= offset
    <3>1. shownOn[directory[i]] # {}
      BY <1>2, <1>3, <1>4, <2>1 DEF SearchInv, NobodyIsPassedOver
    <3> QED
      BY <1>1, <2>0, <3>1, AnswerShows
  <2>2. CASE ~(i <= offset)
    <3>1. i \in PageAt(offset)
      BY <1>1, <1>4, <2>0, <2>2 DEF PageAt
    <3>2. directory[i] \in Range(RawOf(up))
      BY <1>1, <1>3, <3>1, RawPage
    <3>3. directory[i] \in LocalUserIDs(up) \cup MembersOf(up) \cup DirectoryOf(up)
      BY <1>4, <3>2 DEF DirectoryOf
    <3>4. directory[i] \in LocalUserIDs(up) \cup connections' \cup listed'
      BY <1>4, <3>3 DEF AnswerPage, KeepPayable
    <3> QED
      BY <1>1, <2>0, <3>4, AnswerShows
  <2> QED
    BY <2>1, <2>2
<1>5. ~more' => Len(directory) < offset + Limit
  <2>1. more' = HasMore(up)
    BY DEF AnswerPage
  <2>2. HasMore(up) <=> Len(RawOf(up)) >= Limit
    BY <1>3 DEF HasMore
  <2>3. Len(RawOf(up)) \in Nat /\ (Len(RawOf(up)) < Limit => Len(directory) < offset + Limit)
    BY <1>1, <1>3, RawPage
  <2> QED
    BY <1>1, <2>1, <2>2, <2>3
<1> QED
  BY <1>4, <1>5

\* The next page begins where the one shown ends.
LEMMA NextPageKeeps ==
  ASSUME SearchInv, NextPage
  PROVE  SearchInv'
<1>1. SearchTypeOK /\ offset \in Nat /\ Limit \in Nat \ {0}
  BY SearchAssumption DEF SearchInv, SearchTypeOK
<1>2. /\ UNCHANGED <<directory, saved, members, payable, local, connections, listed,
                     more, shownOn, blind>>
      /\ client = "showing" /\ client' = "asking" /\ offset' = offset + Limit
      /\ Covered' = Covered
  BY DEF NextPage, NextOffset, worldVars, pageVars, Covered
<1>3. SearchTypeOK'
  <2>1. shownOn' \in [People -> SUBSET (0 .. offset')]
    <3>1. 0 .. offset \subseteq 0 .. offset'
      BY <1>1, <1>2
    <3>2. shownOn \in [People -> SUBSET (0 .. offset)]
      BY <1>1 DEF SearchTypeOK
    <3> QED
      BY <1>2, <3>1, <3>2
  <2> QED
    BY <1>1, <1>2, <2>1 DEF SearchTypeOK
<1>4. PagesLieApart'
  <2>1. \A p \in People : \A o \in shownOn[p] : o \in Nat
    BY <1>1 DEF SearchTypeOK
  <2> QED
    BY <1>1, <1>2, <2>1 DEF SearchInv, PagesLieApart
<1>5. IsInjective(directory)' /\ OnlySavedRowsRepeat' /\ ShownForAReason'
  BY <1>2 DEF SearchInv, IsInjective, OnlySavedRowsRepeat, Rows, ShownForAReason, Saved
<1>6. NobodyIsPassedOver'
  <2> HIDE DEF Covered
  <2> QED
    BY <1>2 DEF SearchInv, NobodyIsPassedOver
<1> QED
  BY <1>2, <1>3, <1>4, <1>5, <1>6 DEF SearchInv

\* Nothing but what the app does changes.
LEMMA LastPageKeeps ==
  ASSUME SearchInv, LastPage
  PROVE  SearchInv'
<1>1. /\ UNCHANGED <<directory, saved, members, payable, local, connections, listed,
                     more, shownOn, blind, offset>>
      /\ client = "showing" /\ client' = "finished" /\ ~more
      /\ Covered' = Covered
  BY DEF LastPage, worldVars, pageVars, Covered
<1>2. SearchTypeOK' /\ IsInjective(directory)'
  BY <1>1 DEF SearchInv, SearchTypeOK, IsInjective
<1>3. OnlySavedRowsRepeat' /\ PagesLieApart' /\ ShownForAReason'
  BY <1>1 DEF SearchInv, OnlySavedRowsRepeat, Rows, PagesLieApart, ShownForAReason,
            Saved
<1>4. NobodyIsPassedOver'
  BY <1>1 DEF SearchInv, NobodyIsPassedOver
<1> QED
  BY <1>1, <1>2, <1>3, <1>4 DEF SearchInv

\* Nothing changes between two requests.
LEMMA SearchStutters == SearchInv /\ UNCHANGED searchVars => SearchInv'
<1> SUFFICES ASSUME SearchInv, UNCHANGED searchVars PROVE SearchInv'
  OBVIOUS
<1>1. /\ UNCHANGED <<directory, saved, members, payable, local, connections, listed,
                     more, shownOn, blind, offset, client>>
      /\ Covered' = Covered
  BY DEF searchVars, worldVars, pageVars, Covered
<1>2. SearchTypeOK' /\ IsInjective(directory)'
  BY <1>1 DEF SearchInv, SearchTypeOK, IsInjective
<1>3. OnlySavedRowsRepeat' /\ PagesLieApart' /\ ShownForAReason'
  BY <1>1 DEF SearchInv, OnlySavedRowsRepeat, Rows, PagesLieApart, ShownForAReason,
            Saved
<1>4. NobodyIsPassedOver'
  BY <1>1 DEF SearchInv, NobodyIsPassedOver
<1> QED
  BY <1>1, <1>2, <1>3, <1>4 DEF SearchInv

\* Every step keeps the search sound.
LEMMA SearchStepInv == SearchInv /\ [SearchNext]_searchVars => SearchInv'
<1> SUFFICES ASSUME SearchInv, [SearchNext]_searchVars PROVE SearchInv'
  OBVIOUS
<1>1. ASSUME NEW up \in SUBSET Services, AnswerPage(up)
      PROVE  SearchInv'
  <2>1. client' = "showing"
    BY <1>1 DEF AnswerPage
  <2> QED
    BY <1>1, <2>1, AnswerKeepsTypes, AnswerKeepsApart, AnswerPassesNobodyOver
    DEF SearchInv
<1>2. ASSUME NEW up \in SUBSET Services, SearchUnavailable(up)
      PROVE  SearchInv'
  BY <1>2, SearchStutters DEF SearchUnavailable
<1> QED
  BY <1>1, <1>2, NextPageKeeps, LastPageKeeps, SearchStutters DEF SearchNext

\* The pages of a search lie apart, what they show is there for a reason, and
\* nobody that they cover is passed over (unified_search_proxy.go:307, 396).
THEOREM SearchInvariant == SearchSpec => []SearchInv
  BY SearchInitInv, SearchStepInv, PTL DEF SearchSpec

\* Whoever pages to the end, the directory having answered each time, has been
\* shown everybody who can be paid, whatever the size of the pages and of the
\* directory (unified_search_proxy.go:307, 396).
THEOREM EverybodyFound == SearchSpec => []EverybodyIsFound
<1>1. SearchInv => EverybodyIsFound
  <2> SUFFICES ASSUME SearchInv, client = "finished", ~blind,
                      NEW p \in (Range(directory) \cap payable) \ {Caller}
               PROVE  shownOn[p] # {}
    BY DEF EverybodyIsFound
  <2>1. SearchTypeOK /\ ~more
    BY DEF SearchInv
  <2>2. PICK i \in DOMAIN directory : directory[i] = p
    BY DEF Range
  <2>3. /\ Len(directory) < Covered /\ Covered = offset + Limit
        /\ offset \in Nat /\ Limit \in Nat
    BY <2>1, SearchAssumption DEF SearchInv, NobodyIsPassedOver, Covered, SearchTypeOK
  <2>4. i <= Covered
    BY <2>1, <2>2, <2>3, DirectoryIsASequence
  <2> QED
    BY <2>2, <2>4 DEF SearchInv, NobodyIsPassedOver
<1> QED
  BY <1>1, SearchInvariant, PTL

\* A person comes once in the directory, so on one page of it.
LEMMA OnePageOfTheDirectory ==
  ASSUME SearchInv, NEW p \in People,
         NEW o \in shownOn[p], NEW q \in shownOn[p], o # q
  PROVE  p \in Saved \cup members /\ (o = 0 \/ q = 0)
<1>1. /\ SearchTypeOK /\ offset \in Nat /\ Limit \in Nat \ {0}
      /\ o \in Nat /\ q \in Nat
  BY SearchAssumption DEF SearchInv, SearchTypeOK
<1>2. o + Limit <= q \/ q + Limit <= o
  BY DEF SearchInv, PagesLieApart
<1>3. ASSUME NEW i \in DOMAIN directory, directory[i] = p, o < i, i <= o + Limit,
             NEW j \in DOMAIN directory, directory[j] = p, q < j, j <= q + Limit
      PROVE  FALSE
  <2>1. i = j /\ i \in Nat
    BY <1>1, <1>3, DirectoryIsASequence DEF SearchInv, IsInjective
  <2> QED
    BY <1>1, <1>2, <1>3, <2>1
<1> QED
  BY <1>3 DEF SearchInv, ShownForAReason

\* Nobody is shown twice but by several saved rows of one page, or by the first
\* page, which shows the saved and the members, and by one page of the directory
\* (unified_search_proxy.go:248-360).
THEOREM RepeatsAreFirst == SearchSpec => []RepeatsAreOfTheFirstPage
<1>1. ASSUME SearchInv, NEW p \in People, Cardinality(shownOn[p]) > 1
      PROVE  0 \in shownOn[p] /\ p \in Saved \cup members /\ Cardinality(shownOn[p]) = 2
  <2> DEFINE S == shownOn[p]
  <2>1. S # {} /\ \A x : S # {x}
    <3>1. Cardinality({}) = 0 /\ ~(0 > 1) /\ ~(1 > 1)
      BY FS_EmptySet
    <3>2. \A x : Cardinality({x}) = 1
      BY FS_Singleton
    <3> QED
      BY <1>1, <3>1, <3>2, Zenon
  <2>2. PICK o \in S : TRUE
    BY <2>1
  <2>3. PICK q \in S : q # o
    BY <2>1, <2>2
  <2>4. p \in Saved \cup members /\ 0 \in S
    BY <1>1, <2>2, <2>3, OnePageOfTheDirectory
  <2>5. PICK r \in S : r # 0
    BY <2>2, <2>3
  <2>6. \A x \in S : x = 0 \/ x = r
    BY <1>1, <2>5, OnePageOfTheDirectory
  <2>7. S = {0} \cup {r}
    BY <2>4, <2>5, <2>6
  <2>8. Cardinality({0} \cup {r}) = 2
    <3>1. IsFiniteSet({0}) /\ Cardinality({0}) = 1
      BY FS_Singleton, Zenon
    <3>2. Cardinality({0} \cup {r}) =
            IF r \in {0} THEN Cardinality({0}) ELSE Cardinality({0}) + 1
      BY <3>1, FS_AddElement, Zenon
    <3> QED
      BY <2>5, <3>1, <3>2
  <2> QED
    BY <2>4, <2>7, <2>8
<1>2. SearchInv => RepeatsAreOfTheFirstPage
  BY <1>1 DEF RepeatsAreOfTheFirstPage, OnlyFirstPageRepeats, SearchInv
<1> QED
  BY <1>2, SearchInvariant, PTL

-----------------------------------------------------------------------------
(* Preferences.                                                            *)

USE PreferencesAssumption, NotLoadedAssumption

\* The types, and that a request is made from a screen that shows a profile.
PreferencesTypeInv ==
  /\ PreferencesTypeOK
  /\ \A d \in Devices : pc[d] # "idle" => screen[d] # NotLoaded

\* The record taken for a failed read is one.
LEMMA EmptyIsARecord == Empty \in [Entries -> BOOLEAN]
  BY DEF Empty

\* The switches of a record are switches.
LEMMA SwitchesOfType ==
  ASSUME NEW r \in [Entries -> BOOLEAN]
  PROVE  SwitchesOf(r) \in [Switches -> BOOLEAN]
  BY DEF SwitchesOf, Entries

\* The switches are replaced, the flags are kept.
LEMMA MergedFacts ==
  ASSUME NEW r \in [Entries -> BOOLEAN], NEW s \in [Switches -> BOOLEAN]
  PROVE  /\ Merged(r, s) \in [Entries -> BOOLEAN]
         /\ \A f \in Flags : Merged(r, s)[f] = r[f]
         /\ \A e \in Switches : Merged(r, s)[e] = s[e]
  BY DEF Merged, Entries

\* A request is made of a screen that has been loaded.
LEMMA RequestedType ==
  ASSUME PreferencesTypeOK, NEW d \in Devices, screen[d] # NotLoaded
  PROVE  Requested(d) \in [Switches -> BOOLEAN]
  BY DEF Requested, PreferencesTypeOK

\* What a write stores and what the user then intends.
LEMMA WriteFacts ==
  ASSUME PreferencesTypeInv, NEW d \in Devices, pc[d] = "writing",
         stored' = Merged(base[d], Requested(d)),
         intended' = [intended EXCEPT
                        ![toggled[d]] = Requested(d)[toggled[d]]]
  PROVE  /\ stored' \in [Entries -> BOOLEAN]
         /\ intended' \in [Entries -> BOOLEAN]
         /\ \A f \in Flags : stored'[f] = base[d][f] /\ intended'[f] = intended[f]
<1>1. base[d] \in [Entries -> BOOLEAN] /\ toggled[d] \in Switches
  BY DEF PreferencesTypeInv, PreferencesTypeOK
<1>2. Requested(d) \in [Switches -> BOOLEAN]
  BY RequestedType DEF PreferencesTypeInv
<1>3. toggled[d] \in Entries /\ \A f \in Flags : f \in Entries /\ f # toggled[d]
  BY <1>1 DEF Entries
<1>4. Requested(d)[toggled[d]] \in BOOLEAN
  BY <1>1, <1>2
<1>5. intended \in [Entries -> BOOLEAN]
  BY DEF PreferencesTypeInv, PreferencesTypeOK
<1>6. intended' \in [Entries -> BOOLEAN]
  BY <1>3, <1>4, <1>5
<1>7. \A f \in Flags : intended'[f] = intended[f]
  BY <1>3, <1>5
<1>8. /\ stored' \in [Entries -> BOOLEAN]
      /\ \A f \in Flags : stored'[f] = base[d][f]
  BY <1>1, <1>2, MergedFacts
<1> QED
  BY <1>6, <1>7, <1>8

-----------------------------------------------------------------------------
\* The types hold at the start.
LEMMA PreferencesTypeInit == PreferencesInit => PreferencesTypeInv
<1> SUFFICES ASSUME PreferencesInit PROVE PreferencesTypeInv
  OBVIOUS
<1>1. AnySwitch \in Switches
  BY DEF AnySwitch
<1> QED
  BY <1>1, EmptyIsARecord DEF PreferencesInit, PreferencesTypeInv, PreferencesTypeOK

\* Every action keeps the types, whatever fails and whatever overlaps.
LEMMA PreferencesTypeStep == PreferencesTypeInv /\ [PreferencesNext]_preferencesVars => PreferencesTypeInv'
<1> SUFFICES ASSUME PreferencesTypeInv, [PreferencesNext]_preferencesVars PROVE PreferencesTypeInv'
  OBVIOUS
<1>0. PreferencesTypeOK
  BY DEF PreferencesTypeInv
<1>1. ASSUME NEW d \in Devices, GetUserProfile(d)
      PROVE  PreferencesTypeInv'
  <2>1. SwitchesOf(stored) \in [Switches -> BOOLEAN]
    BY <1>0, SwitchesOfType DEF PreferencesTypeOK
  <2> QED
    BY <1>0, <1>1, <2>1 DEF GetUserProfile, PreferencesTypeInv, PreferencesTypeOK
<1>2. ASSUME NEW d \in Devices, GetUserProfileWithout(d)
      PROVE  PreferencesTypeInv'
  <2>1. SwitchesOf(Empty) \in [Switches -> BOOLEAN]
    BY EmptyIsARecord, SwitchesOfType
  <2> QED
    BY <1>0, <1>2, <2>1 DEF GetUserProfileWithout, PreferencesTypeInv, PreferencesTypeOK
<1>3. ASSUME NEW d \in Devices, NEW s \in Switches, Toggle(d, s)
      PROVE  PreferencesTypeInv'
  BY <1>0, <1>3 DEF Toggle, PreferencesTypeInv, PreferencesTypeOK
<1>4. ASSUME NEW d \in Devices, ReadCurrent(d)
      PROVE  PreferencesTypeInv'
  BY <1>0, <1>4 DEF ReadCurrent, PreferencesTypeInv, PreferencesTypeOK
<1>5. ASSUME NEW d \in Devices, ReadCurrentFails(d)
      PROVE  PreferencesTypeInv'
  BY <1>0, <1>5, EmptyIsARecord DEF ReadCurrentFails, PreferencesTypeInv, PreferencesTypeOK
<1>6. ASSUME NEW d \in Devices, Write(d)
      PROVE  PreferencesTypeInv'
  <2>1. /\ stored' \in [Entries -> BOOLEAN]
        /\ intended' \in [Entries -> BOOLEAN]
    BY <1>6, WriteFacts DEF Write
  <2>2. SwitchesOf(stored') \in [Switches -> BOOLEAN]
    BY <2>1, SwitchesOfType
  <2>3. /\ screen' = [screen EXCEPT ![d] = SwitchesOf(stored')]
        /\ base' = [base EXCEPT ![d] = Empty]
        /\ pc' = [pc EXCEPT ![d] = "idle"]
        /\ toggled' = toggled
    BY <1>6 DEF Write
  <2>4. outdated' \in SUBSET Devices
    BY <1>0, <1>6 DEF Write, Writing, PreferencesTypeOK
  <2> QED
    BY <1>0, <2>1, <2>2, <2>3, <2>4, EmptyIsARecord DEF PreferencesTypeInv, PreferencesTypeOK
<1>7. ASSUME NEW d \in Devices, WriteFails(d)
      PROVE  PreferencesTypeInv'
  BY <1>0, <1>7, EmptyIsARecord DEF WriteFails, PreferencesTypeInv, PreferencesTypeOK
<1>8. ASSUME NEW d \in Devices, WriteLost(d)
      PROVE  PreferencesTypeInv'
  <2>1. /\ stored' \in [Entries -> BOOLEAN]
        /\ intended' \in [Entries -> BOOLEAN]
    BY <1>8, WriteFacts DEF WriteLost
  <2>2. /\ base' = [base EXCEPT ![d] = Empty]
        /\ pc' = [pc EXCEPT ![d] = "idle"]
        /\ UNCHANGED <<screen, toggled>>
    BY <1>8 DEF WriteLost
  <2>4. outdated' \in SUBSET Devices
    BY <1>0, <1>8 DEF WriteLost, Writing, PreferencesTypeOK
  <2> QED
    BY <1>0, <2>1, <2>2, <2>4, EmptyIsARecord DEF PreferencesTypeInv, PreferencesTypeOK
<1>9. ASSUME NEW d \in Devices, NEW f \in Flags, ChangeFlag(d, f)
      PROVE  PreferencesTypeInv'
  <2>1. f \in Entries
    BY DEF Entries
  <2>2. stored' \in [Entries -> BOOLEAN] /\ stored'[f] \in BOOLEAN
    BY <1>0, <1>9, <2>1 DEF ChangeFlag, PreferencesTypeOK
  <2>3. intended' \in [Entries -> BOOLEAN]
    BY <1>0, <1>9, <2>1, <2>2 DEF ChangeFlag, PreferencesTypeOK
  <2>4. outdated' \in SUBSET Devices
    BY <1>0, <1>9 DEF ChangeFlag, Writing, PreferencesTypeOK
  <2> QED
    BY <1>0, <1>9, <2>2, <2>3, <2>4 DEF ChangeFlag, PreferencesTypeInv, PreferencesTypeOK
<1>10. CASE UNCHANGED preferencesVars
  BY <1>0, <1>10 DEF preferencesVars, PreferencesTypeInv, PreferencesTypeOK
<1> QED
  BY <1>1, <1>2, <1>3, <1>4, <1>5, <1>6, <1>7, <1>8, <1>9, <1>10 DEF PreferencesNext

\* The types hold, and a call under way was made from a screen that was loaded.
LEMMA PreferencesTypeInvariant == PreferencesSpec => []PreferencesTypeInv
  BY PreferencesTypeInit, PreferencesTypeStep, PTL DEF PreferencesSpec

\* Every variable of the preferences keeps its type.
THEOREM PreferencesTypes == PreferencesSpec => []PreferencesTypeOK
<1>1. PreferencesTypeInv => PreferencesTypeOK
  BY DEF PreferencesTypeInv
<1> QED
  BY <1>1, PreferencesTypeInvariant, PTL

-----------------------------------------------------------------------------
\* At the start nothing is about to be written.
LEMMA PreferencesInitInv == PreferencesInit => PreferencesInv
  BY PreferencesTypeInit DEF PreferencesInit, PreferencesInv, PreferencesTypeInv

\* A change of the record leaves no base of another call that is not outdated.
LEMMA PreferencesStepInv == PreferencesInv /\ [PreferencesNext]_preferencesVars => PreferencesInv'
<1> SUFFICES ASSUME PreferencesInv, [PreferencesNext]_preferencesVars
             PROVE  \A e \in Devices : pc'[e] = "writing" /\ e \notin outdated' =>
                      \A f \in Flags : base'[e][f] = stored'[f]
  <2>1. PreferencesInv => PreferencesTypeInv
    BY DEF PreferencesInv, PreferencesTypeInv
  <2> QED
    BY <2>1, PreferencesTypeStep DEF PreferencesInv, PreferencesTypeInv
<1>0. PreferencesTypeOK
  BY DEF PreferencesInv
<1> USE DEF PreferencesInv, Writing
<1> DEFINE Current ==
      \A e \in Devices : pc'[e] = "writing" /\ e \notin outdated' =>
        \A f \in Flags : base'[e][f] = stored'[f]
<1>1. ASSUME NEW d \in Devices, GetUserProfile(d) \/ GetUserProfileWithout(d)
      PROVE  Current
  BY <1>1 DEF GetUserProfile, GetUserProfileWithout
<1>2. ASSUME NEW d \in Devices, NEW s \in Switches, Toggle(d, s)
      PROVE  Current
  BY <1>0, <1>2 DEF Toggle, PreferencesTypeOK
<1>3. ASSUME NEW d \in Devices, ReadCurrent(d)
      PROVE  Current
  BY <1>0, <1>3 DEF ReadCurrent, PreferencesTypeOK
<1>4. ASSUME NEW d \in Devices, ReadCurrentFails(d)
      PROVE  Current
  BY <1>0, <1>4 DEF ReadCurrentFails, PreferencesTypeOK
<1>5. ASSUME NEW d \in Devices, Write(d) \/ WriteLost(d)
      PROVE  Current
  <2>1. /\ pc' = [pc EXCEPT ![d] = "idle"]
        /\ outdated' = (outdated \cup Writing) \ {d}
    BY <1>5 DEF Write, WriteLost
  <2>2. \A e \in Devices : pc'[e] = "writing" => e \in outdated'
    BY <1>0, <2>1 DEF PreferencesTypeOK
  <2> QED
    BY <2>2
<1>6. ASSUME NEW d \in Devices, WriteFails(d)
      PROVE  Current
  BY <1>0, <1>6 DEF WriteFails, PreferencesTypeOK
<1>7. ASSUME NEW d \in Devices, NEW f \in Flags, ChangeFlag(d, f)
      PROVE  Current
  BY <1>0, <1>7 DEF ChangeFlag, PreferencesTypeOK
<1>8. CASE UNCHANGED preferencesVars
  BY <1>8 DEF preferencesVars
<1> QED
  BY <1>1, <1>2, <1>3, <1>4, <1>5, <1>6, <1>7, <1>8 DEF PreferencesNext

\* A record about to be written back holds the flags as they are, unless its
\* call is outdated (user_proxy.go:215-228).
THEOREM PreferencesInvariant == PreferencesSpec => []PreferencesInv
  BY PreferencesInitInv, PreferencesStepInv, PTL DEF PreferencesSpec

-----------------------------------------------------------------------------
\* Only a write changes a flag without the user's asking for it.
LEMMA FlagsStep ==
  ASSUME PreferencesInv, [PreferencesNext]_preferencesVars,
         NEW f \in Flags, stored[f] = intended[f], stored'[f] # intended'[f]
  PROVE  \E d \in outdated : pc[d] = "writing" /\ pc'[d] = "idle"
<1>0. PreferencesTypeOK /\ PreferencesTypeInv
  BY DEF PreferencesInv, PreferencesTypeInv
<1>1. UNCHANGED <<stored, intended>> => FALSE
  OBVIOUS
<1>2. ASSUME NEW d \in Devices, Write(d) \/ WriteLost(d)
      PROVE  \E e \in outdated : pc[e] = "writing" /\ pc'[e] = "idle"
  <2>1. /\ pc[d] = "writing"
        /\ pc' = [pc EXCEPT ![d] = "idle"]
        /\ stored' = Merged(base[d], Requested(d))
        /\ intended' = [intended EXCEPT ![toggled[d]] = Requested(d)[toggled[d]]]
    BY <1>2 DEF Write, WriteLost
  <2>2. stored'[f] = base[d][f] /\ intended'[f] = intended[f]
    BY <1>0, <2>1, WriteFacts
  <2>3. base[d][f] # stored[f]
    BY <2>2
  <2>4. d \in outdated
    BY <2>1, <2>3 DEF PreferencesInv
  <2>5. pc'[d] = "idle"
    BY <1>0, <2>1 DEF PreferencesTypeOK
  <2> QED
    BY <2>1, <2>4, <2>5
<1>3. ASSUME NEW d \in Devices, NEW g \in Flags, ChangeFlag(d, g)
      PROVE  FALSE
  <2>1. f \in Entries /\ g \in Entries
    BY DEF Entries
  <2> QED
    BY <1>0, <1>3, <2>1 DEF ChangeFlag, PreferencesTypeOK
<1> QED
  BY <1>1, <1>2, <1>3 DEF PreferencesNext, preferencesVars, GetUserProfile,
     GetUserProfileWithout, Toggle, ReadCurrent, ReadCurrentFails, WriteFails

\* A flag is undone only by a write that is outdated: whose read failed, or was
\* followed by another write or change before it.
THEOREM FlagsAreKept == PreferencesSpec => OnlyOutdatedWritesClobber
<1>1. PreferencesInv /\ [PreferencesNext]_preferencesVars =>
        [\A f \in Flags : stored[f] = intended[f] /\ stored'[f] # intended'[f] =>
           \E d \in outdated : pc[d] = "writing" /\ pc'[d] = "idle"]_preferencesVars
  BY FlagsStep
<1> QED
  BY <1>1, PreferencesInvariant, PTL DEF PreferencesSpec, OnlyOutdatedWritesClobber

-----------------------------------------------------------------------------
(* The requests.                                                           *)

\* The five parts share no state: a step of the gateway is one of each of
\* them, or leaves it alone.
THEOREM RequestsHaveTheirParts ==
  RequestsSpec =>
    ChainSpec /\ GrpcSpec /\ SearchSpec /\ StorageSpec /\ PreferencesSpec
<1>1. RequestsInit =>
        ChainInit /\ GrpcInit /\ SearchInit /\ StorageInit /\ PreferencesInit
  BY DEF RequestsInit
<1>2. [RequestsNext]_<<part, requestVars>> =>
        /\ [ChainNext]_chainVars
        /\ [GrpcNext]_grpcVars
        /\ [SearchNext]_searchVars
        /\ [StorageNext]_storageVars
        /\ [PreferencesNext]_preferencesVars
  BY DEF RequestsNext, requestVars
<1> QED
  BY <1>1, <1>2, PTL
     DEF RequestsSpec, ChainSpec, GrpcSpec, SearchSpec, StorageSpec, PreferencesSpec

\* The inductive invariants of the five parts hold of the gateway's requests
\* (interceptors/auth.go:14-53, user_proxy.go:215-228,
\* unified_search_proxy.go:396, storage_proxy.go:485-511).
THEOREM RequestsInvariant == RequestsSpec => []RequestsInv
<1>1. HttpInv /\ GrpcInv /\ SearchInv /\ StorageInv /\ PreferencesInv => RequestsInv
  BY DEF RequestsInv
<1> QED
  BY <1>1, RequestsHaveTheirParts, HttpInvariant, GrpcInvariant, SearchInvariant,
     StorageInvariant, PreferencesInvariant, PTL

=============================================================================
