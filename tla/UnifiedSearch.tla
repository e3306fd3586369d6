---------------------------- MODULE UnifiedSearch ----------------------------
(***************************************************************************)
(* GET /api/v1/users/search-unified as the app pages through it            *)
(* (HandleUnifiedSearch in src/internal/proxy/unified_search_proxy.go):    *)
(* saved recipients, then members of the caller's groups, then the         *)
(* directory of auth-service, which alone has pages.  The gateway keeps    *)
(* nothing between two pages; any of the services may fail on any page.    *)
(* A person may be saved several times, once for each account.             *)
(* Saved rows without a user id are nobody's here: the gateway compares    *)
(* them with no other result.                                              *)
(*                                                                         *)
(* People stand for those that match the query.  All that is read of a     *)
(* result is who it is: matching, the order of a page, user names and      *)
(* account numbers are left out.                                           *)
(***************************************************************************)
EXTENDS Integers, Sequences, FiniteSets, Functions

CONSTANTS
  People,
  Caller,      \* who searches
  Directories, \* the directories that auth-service may have, in its order
  Limit,       \* the page size, limit of the query
  MaxRows      \* bound of the saved rows of a person

ASSUME SearchAssumption ==
  /\ Caller \in People
  /\ Directories \subseteq Seq(People)
  /\ Limit \in Nat \ {0}
  /\ MaxRows \in Nat

Services == {"recipients", "directory", "groups", "accounts"}

VARIABLES
  directory, members, payable, \* what the services know
  saved,   \* how many rows of ListRecipients name each person
  client,  \* what the app does: "asking", "showing" or "finished"
  offset,  \* of the page it asks for, or shows
  local,   \* the page it shows: the saved rows of each person, ...
  connections, listed, more, \* ... and who else is on it
  shownOn, \* the offsets of the pages on which it has shown each person
  blind    \* whether a page was answered without the directory

worldVars  == <<directory, saved, members, payable>>
pageVars   == <<local, connections, listed, more>>
searchVars == <<worldVars, client, offset, pageVars, shownOn, blind>>

-----------------------------------------------------------------------------
\* Each directory names a person once.
SearchInit ==
  /\ directory \in {d \in Directories : IsInjective(d)}
  /\ saved \in [People -> 0 .. MaxRows]
  /\ members \in SUBSET People
  /\ payable \in SUBSET People
  /\ client = "asking"
  /\ offset = 0
  /\ local = [p \in People |-> 0]
  /\ connections = {} /\ listed = {} /\ more = FALSE
  /\ shownOn = [p \in People |-> {}]
  /\ blind = FALSE

\* The saved recipients, on the first page, every row of theirs.
LocalOf(up) ==
  [p \in People |->
     IF offset = 0 /\ "recipients" \in up /\ p # Caller THEN saved[p] ELSE 0]

LocalUserIDs(up) == {p \in People : LocalOf(up)[p] > 0}

\* The page of SearchUsers.
RawOf(up) ==
  LET end == IF offset + Limit <= Len(directory)
             THEN offset + Limit ELSE Len(directory)
  IN IF "directory" \in up THEN SubSeq(directory, offset + 1, end) ELSE <<>>

\* The members of groups, on the first page.
MembersOf(up) ==
  IF offset = 0 /\ "groups" \in up
  THEN members \ ({Caller} \cup LocalUserIDs(up)) ELSE {}

\* Mutant: the members are not removed from the directory's page.
DirectoryOfTwice(up) == Range(RawOf(up)) \ ({Caller} \cup LocalUserIDs(up))

\* What is left of the directory's page: nobody who is shown already.
DirectoryOf(up) ==
  Range(RawOf(up)) \ ({Caller} \cup LocalUserIDs(up) \cup MembersOf(up))

\* keepPayable, which lets everybody pass if accounts-service fails.
KeepPayable(items, up) ==
  IF "accounts" \in up THEN items \cap payable ELSE items

\* Mutant: a page is full by what is left of it.
HasMoreShown(up) == Cardinality(DirectoryOf(up)) >= Limit

\* A full page of the directory has another after it.
HasMore(up) == "directory" \in up /\ Len(RawOf(up)) >= Limit

NextOffset == offset + Limit

-----------------------------------------------------------------------------
\* The gateway answers, the services in up having answered it.
AnswerPage(up) ==
  /\ client = "asking"
  /\ "directory" \in up \/ LocalUserIDs(up) # {}
  /\ client' = "showing"
  /\ local' = LocalOf(up)
  /\ connections' = KeepPayable(MembersOf(up), up)
  /\ listed' = KeepPayable(DirectoryOf(up), up)
  /\ more' = HasMore(up)
  /\ shownOn' = [p \in People |->
                   IF p \in LocalUserIDs(up) \cup connections' \cup listed'
                   THEN shownOn[p] \cup {offset} ELSE shownOn[p]]
  /\ blind' = (blind \/ "directory" \notin up)
  /\ UNCHANGED <<worldVars, offset>>

\* 502: nothing to show, and the directory failed.  The app asks again.
SearchUnavailable(up) ==
  /\ client = "asking"
  /\ "directory" \notin up /\ LocalUserIDs(up) = {}
  /\ UNCHANGED searchVars

\* The app asks for the next page, from next_offset on, while there is one.
NextPage ==
  /\ client = "showing" /\ more
  /\ client' = "asking"
  /\ offset' = NextOffset
  /\ UNCHANGED <<worldVars, pageVars, shownOn, blind>>

LastPage ==
  /\ client = "showing" /\ ~more
  /\ client' = "finished"
  /\ UNCHANGED <<worldVars, offset, pageVars, shownOn, blind>>

SearchNext ==
  \/ \E up \in SUBSET Services : AnswerPage(up) \/ SearchUnavailable(up)
  \/ NextPage
  \/ LastPage

SearchSpec == SearchInit /\ [][SearchNext]_searchVars

-----------------------------------------------------------------------------
\* Every variable has its type.
SearchTypeOK ==
  /\ directory \in Directories
  /\ saved \in [People -> 0 .. MaxRows]
  /\ members \in SUBSET People /\ payable \in SUBSET People
  /\ client \in {"asking", "showing", "finished"}
  /\ offset \in Nat
  /\ local \in [People -> 0 .. MaxRows]
  /\ connections \in SUBSET People /\ listed \in SUBSET People
  /\ more \in BOOLEAN /\ blind \in BOOLEAN
  /\ shownOn \in [People -> SUBSET (0 .. offset)]

\* Paging by raw offsets while people are removed from the pages loses nobody
\* (unified_search_proxy.go:307, 396): whoever pages to the end, the directory
\* having answered each time, has been shown everybody who can be paid.
EverybodyIsFound ==
  client = "finished" /\ ~blind =>
    \A p \in (Range(directory) \cap payable) \ {Caller} : shownOn[p] # {}

\* Who has a saved row.
Saved == {p \in People : saved[p] > 0}

\* How often a page shows person p.
Rows(p) == local[p] + (IF p \in connections THEN 1 ELSE 0)
                    + (IF p \in listed THEN 1 ELSE 0)

\* No page shows anybody from two sources, or the caller, whatever the three
\* sources have in common: it shows those twice who are saved more than once,
\* whose rows are not merged (unified_search_proxy.go:258-360).
OnlySavedRowsRepeat ==
  /\ \A p \in People : Rows(p) > 1 => Rows(p) = local[p] /\ local[p] = saved[p]
  /\ Rows(Caller) = 0

\* The gateway forgets whom the first page has shown
\* (unified_search_proxy.go:248-251, 327-328): who is saved, or a member of a
\* group, may be shown again by a later page, once; nobody else is.
OnlyFirstPageRepeats ==
  \A p \in People :
    Cardinality(shownOn[p]) > 1 =>
      0 \in shownOn[p] /\ p \in Saved \cup members /\ Cardinality(shownOn[p]) = 2

\* No one is shown twice but by several saved rows on the first page, or by the
\* first page and one that has forgotten it (unified_search_proxy.go:248-360).
RepeatsAreOfTheFirstPage == OnlySavedRowsRepeat /\ OnlyFirstPageRepeats

-----------------------------------------------------------------------------
(* The inductive invariant behind the two properties.                      *)

\* The pages shown so far lie apart, and the one being asked for is not one
\* of them.
PagesLieApart ==
  \A p \in People : \A o \in shownOn[p] :
    /\ o = offset \/ o + Limit <= offset
    /\ client = "asking" => o # offset
    /\ \A q \in shownOn[p] : o = q \/ o + Limit <= q \/ q + Limit <= o

\* Whoever has been shown was on the first page from another source, or is in
\* the part of the directory that the page covers.
ShownForAReason ==
  \A p \in People : \A o \in shownOn[p] :
    \/ o = 0 /\ p \in Saved \cup members
    \/ \E i \in DOMAIN directory :
         directory[i] = p /\ o < i /\ i <= o + Limit

\* How much of the directory has been shown.
Covered == IF client = "asking" THEN offset ELSE offset + Limit

\* With the directory up all the time, everybody who can be paid and comes
\* before the end of the page has been shown, and the last page is the last.
NobodyIsPassedOver ==
  ~blind =>
    /\ \A i \in DOMAIN directory :
         i <= Covered /\ directory[i] \in payable /\ directory[i] # Caller
           => shownOn[directory[i]] # {}
    /\ client \in {"showing", "finished"} /\ ~more
         => Len(directory) < Covered

\* The app goes on only from a page that has another after it.
SearchInv ==
  /\ SearchTypeOK
  /\ IsInjective(directory)
  /\ client = "finished" => ~more
  /\ OnlySavedRowsRepeat /\ PagesLieApart /\ ShownForAReason
  /\ NobodyIsPassedOver

\* "fetching it per-page would duplicate members across load-more pages"
\* (unified_search_proxy.go:323-324): nobody is shown on two pages.
NobodyOnTwoPages == \A p \in People : Cardinality(shownOn[p]) <= 1

=============================================================================
