--------------------------- MODULE StorageUploads ---------------------------
(***************************************************************************)
(* The upload URLs that the app asks of the gateway                        *)
(* (src/internal/proxy/storage_proxy.go): the type of the upload is        *)
(* settled from what the app says of it, the gateway names the object, the *)
(* storage service signs a URL for it, and the gateway may rewrite that    *)
(* URL's host.  The app then PUTs the object itself.                       *)
(*                                                                         *)
(* Of the allow lists, which differ between keyspaces, one or two entries  *)
(* of each family stand for the rest.  A file name is its extension.       *)
(***************************************************************************)
EXTENDS Integers, Sequences

CONSTANTS
  Uploaders,   \* the users
  FileNames,   \* what the app may give as the extension of the file name ...
  FileTypes,   \* ... and as its content type
  Backends,    \* where the storage service may keep objects: "local", "cloud"
  MaxUploads   \* bound: upload URLs handed out

ASSUME StorageAssumption ==
  Backends \subseteq {"local", "cloud"} /\ MaxUploads \in Nat

Keyspaces == {"profile", "bank-scan", "chat-media", "invoice", "escrow",
              "fcy-document", "group-avatar"}

VARIABLES
  backend,        \* where objects are kept
  publicStorage,  \* whether STORAGE_PUBLIC_URL is set
  tickets,        \* the answers with an upload URL, in their order
  lastUpload      \* the status of the last request

storageVars == <<backend, publicStorage, tickets, lastUpload>>

-----------------------------------------------------------------------------
\* Content type -> extension, and extension -> content type.
ImageTypes ==
  [t \in {"image/jpeg", "image/jpg", "image/png"} |->
     IF t = "image/png" THEN "png" ELSE "jpg"]
ImageExts ==
  [e \in {"jpg", "jpeg", "png"} |->
     IF e = "png" THEN "image/png" ELSE "image/jpeg"]

ChatTypes ==
  [t \in DOMAIN ImageTypes \cup {"audio/mp4"} |->
     IF t = "audio/mp4" THEN "m4a" ELSE ImageTypes[t]]
ChatExts ==
  [e \in DOMAIN ImageExts \cup {"m4a"} |->
     IF e = "m4a" THEN "audio/mp4" ELSE ImageExts[e]]

EscrowTypes ==
  [t \in DOMAIN ChatTypes \cup {"video/mp4"} |->
     IF t = "video/mp4" THEN "mp4" ELSE ChatTypes[t]]
EscrowExts ==
  [e \in DOMAIN ChatExts \cup {"mp4"} |->
     IF e = "mp4" THEN "video/mp4" ELSE ChatExts[e]]

Unsupported == [type |-> "none", ext |-> "none"]

\* The content type decides if the list has it, else the file name.
Listed(types, exts, name, type) ==
  IF type \in DOMAIN types THEN [type |-> type, ext |-> types[type]]
  ELSE IF name \in DOMAIN exts THEN [type |-> exts[name], ext |-> name]
  ELSE Unsupported

\* For documents a PDF goes first, by its type or by its name.
ResolveFCY(name, type) ==
  IF "application/pdf" = type \/ name = "pdf"
  THEN [type |-> "application/pdf", ext |-> "pdf"]
  ELSE Listed(ImageTypes, ImageExts, name, type)

Resolved(keyspace, name, type) ==
  CASE keyspace = "chat-media"   -> Listed(ChatTypes, ChatExts, name, type)
    [] keyspace = "escrow"       -> Listed(EscrowTypes, EscrowExts, name, type)
    [] keyspace = "fcy-document" -> ResolveFCY(name, type)
    [] OTHER                     -> Listed(ImageTypes, ImageExts, name, type)

\* buildScopedKey: a fresh identifier under the user's own prefix.
BuildScopedKey(user, keyspace, ext, fresh) ==
  [user |-> user, keyspace |-> keyspace, id |-> fresh, ext |-> ext]

\* What the storage service answers: an address inside for its own store, and
\* a URL whose signature covers the host for a cloud.
SignedURL ==
  [host |-> IF backend = "cloud" THEN "cloud" ELSE "inside",
   signedFor |-> IF backend = "cloud" THEN "cloud" ELSE "any"]

PointsAtOurStorage(url) == url.host = "inside"

\* Mutant: every host is replaced.
ToPublicURLAlways(url) ==
  IF publicStorage THEN [url EXCEPT !.host = "public"] ELSE url

ToPublicURL(url) ==
  IF publicStorage /\ PointsAtOurStorage(url)
  THEN [url EXCEPT !.host = "public"] ELSE url

-----------------------------------------------------------------------------
StorageInit ==
  /\ backend \in Backends
  /\ publicStorage \in BOOLEAN
  /\ tickets = <<>>
  /\ lastUpload = "none"

\* 400 for a type that the keyspace does not take.  (That the caller is known
\* and the body parses is the same for every handler of the chain.)
RefuseType(keyspace, name, type) ==
  /\ Resolved(keyspace, name, type) = Unsupported
  /\ lastUpload' = "unsupported_media_type"
  /\ UNCHANGED <<backend, publicStorage, tickets>>

\* 502: the storage service cannot be reached, refuses, or answers no JSON.
StorageFails(keyspace, name, type) ==
  /\ Resolved(keyspace, name, type) # Unsupported
  /\ lastUpload' = "storage_unreachable"
  /\ UNCHANGED <<backend, publicStorage, tickets>>

HandOut(user, keyspace, name, type) ==
  LET as == Resolved(keyspace, name, type)
  IN /\ as # Unsupported
     /\ Len(tickets) < MaxUploads
     /\ tickets' = Append(tickets,
          [user |-> user, keyspace |-> keyspace, type |-> as.type,
           key |-> BuildScopedKey(user, keyspace, as.ext, Len(tickets) + 1),
           url |-> ToPublicURL(SignedURL)])
     /\ lastUpload' = "ok"
     /\ UNCHANGED <<backend, publicStorage>>

\* A phone reaches public hosts only, and the signature has to fit the host.
Reaches(url) ==
  url.host \in {"cloud", "public"} /\ url.signedFor \in {"any", url.host}

StorageNext ==
  \E k \in Keyspaces, name \in FileNames, type \in FileTypes :
    \/ RefuseType(k, name, type)
    \/ StorageFails(k, name, type)
    \/ \E u \in Uploaders : HandOut(u, k, name, type)

StorageSpec == StorageInit /\ [][StorageNext]_storageVars

-----------------------------------------------------------------------------
URL == [host : {"inside", "cloud", "public"}, signedFor : {"cloud", "any"}]
ContentTypes == DOMAIN EscrowTypes \cup {"application/pdf"}
Extensions   == DOMAIN EscrowExts \cup {"pdf"}

Key == [user : Uploaders, keyspace : Keyspaces, id : Nat, ext : Extensions]

Ticket ==
  [user : Uploaders, keyspace : Keyspaces, type : ContentTypes, key : Key, url : URL]

\* Every variable has its type.
StorageTypeOK ==
  /\ backend \in Backends
  /\ publicStorage \in BOOLEAN
  /\ tickets \in Seq(Ticket) /\ Len(tickets) <= MaxUploads
  /\ lastUpload \in {"none", "ok", "unsupported_media_type", "storage_unreachable"}

Family(type) ==
  IF type \in DOMAIN ImageTypes THEN "image"
  ELSE IF type \in DOMAIN ChatTypes THEN "audio"
  ELSE IF type \in DOMAIN EscrowTypes THEN "video" ELSE "document"

FamiliesOf(keyspace) ==
  {"image"} \cup (IF keyspace \in {"chat-media", "escrow"} THEN {"audio"} ELSE {})
            \cup (IF keyspace = "escrow" THEN {"video"} ELSE {})
            \cup (IF keyspace = "fcy-document" THEN {"document"} ELSE {})

\* Whatever the app says of its files, by type, by name or by both in
\* contradiction, no upload ever replaces another's object, each is named
\* under its user, and its extension, its content type and its keyspace fit
\* each other (storage_proxy.go:485-511, 516-562).
ObjectsAreTheirUploads ==
  \A n \in DOMAIN tickets :
    LET t == tickets[n]
    IN /\ \A m \in DOMAIN tickets : tickets[m].key = t.key => m = n
       /\ t.key.user = t.user
       /\ Family(t.type) \in FamiliesOf(t.keyspace)
       /\ t.key.ext \in DOMAIN EscrowExts => Family(EscrowExts[t.key.ext]) = Family(t.type)

\* Every URL handed out can be used from a phone: the host of the storage
\* service's own URLs is replaced when a public one is configured, and that of
\* a signed cloud URL never is (storage_proxy.go:414-480).
UploadsLand ==
  backend = "cloud" \/ publicStorage =>
    \A n \in DOMAIN tickets : Reaches(tickets[n].url)

\* An upload goes where it belongs, and gets there (storage_proxy.go:414-562).
UploadsAreSound == ObjectsAreTheirUploads /\ UploadsLand

-----------------------------------------------------------------------------
\* Each ticket's object has an identifier of its own.
KeysAreFresh == \A n \in DOMAIN tickets : tickets[n].key.id = n

\* The inductive invariant.
StorageInv == StorageTypeOK /\ KeysAreFresh /\ UploadsAreSound

=============================================================================
