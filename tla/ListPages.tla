------------------------------ MODULE ListPages -------------------------------
(***************************************************************************)
(* The paginated list queries of the keyvalue backend: ArtifactsList       *)
(* (artifact.go), IsDependencyList (isDependency.go), SourcesList (src.go) *)
(* and PackagesList (pkg.go), and a client that reads a list page by page, *)
(* as the source certifier does                                            *)
(* (pkg/certifier/components/source/source.go), while others ingest.       *)
(*                                                                         *)
(* A query holds the read lock from its start to its end, so that it is    *)
(* one action.  What it goes through is a sequence: the keys of a          *)
(* collection are sorted before every query, and a new key may sort        *)
(* anywhere; the nodes of a tree are found through their parents' lists,   *)
(* at the end of which a new node is added.  IDs are decimal numerals that *)
(* the code compares as strings.                                           *)
(***************************************************************************)
EXTENDS Naturals, Sequences, FiniteSets, SequencesExt

CONSTANTS
  Lists,       \* the queries that the client may use
  PageSizes,   \* values of first; 0 when the client gives none
  Parents,     \* 1..n: the parents of the nodes in a tree, in their order
  TypeID,      \* the ID of the type above each parent
  FirstID,     \* the next ID when the model starts
  MaxID        \* bound on the ID counter

ASSUME ListAssumption ==
  /\ Lists \subseteq {"ArtifactsList", "IsDependencyList", "IsDependencyListOf",
                      "SourcesList", "SourcesListOf", "PackagesList", "PackagesListOf"}
  /\ PageSizes \subseteq Nat
  /\ TypeID \in [Parents -> 1..FirstID - 1]
  /\ FirstID \in 1..MaxID + 1
  /\ MaxID \in Nat

VARIABLES
  list,      \* the query the client uses; "...Of" filters by type or package
  first,     \* its page size
  items,     \* what the query goes through, in that order
  nextID,    \* the next ID of the backend
  status,    \* of the client: "idle", "asking", "done", "failed"
  after,     \* the cursor it follows
  got,       \* the IDs of the nodes it has been given
  repeated,  \* history: it was given a node twice
  present    \* history: the matching IDs when it began

clientVars == <<status, after, got, repeated, present>>
vars == <<list, first, items, nextID, clientVars>>

NoCursor == 0
IDs == FirstID..MaxID
Item == [id : IDs, parent : Parents, match : BOOLEAN]
Sorted == {"ArtifactsList", "IsDependencyList"}

Init ==
  /\ list \in Lists
  /\ first \in PageSizes
  /\ items = << >>
  /\ nextID = FirstID
  /\ status = "idle"
  /\ after = NoCursor
  /\ got = {}
  /\ repeated = FALSE
  /\ present = {}

-----------------------------------------------------------------------------
(* Ingestion of a node: of a collection by its key, of a tree by its       *)
(* parent.                                                                 *)
Place(p) ==
  IF list \in Sorted THEN 0..Len(items)
  ELSE {Cardinality({i \in DOMAIN items : items[i].parent <= p})}
Ingest(p, match) ==
  /\ list \in Sorted => p = 1
  /\ nextID <= MaxID
  /\ nextID' = nextID + 1
  /\ \E n \in Place(p) :
       items' = InsertAt(items, n + 1, [id |-> nextID, parent |-> p, match |-> match])
  /\ UNCHANGED <<list, first, clientVars>>

-----------------------------------------------------------------------------
(* The queries.                                                            *)

Digits[n \in Nat] == IF n < 10 THEN <<n>> ELSE Append(Digits[n \div 10], n % 10)

(* a > b for strings.                                                      *)
StringAfter(a, b) ==
  LET s == Digits[a]  t == Digits[b]
  IN \/ IsStrictPrefix(t, s)
     \/ \E i \in DOMAIN s \cap DOMAIN t :
          s[i] > t[i] /\ \A j \in 1..i - 1 : s[j] = t[j]

(* The places of the nodes that match, among the items.                    *)
MatchesBug == DOMAIN items      \* the filter is forgotten
Matches == {i \in DOMAIN items : items[i].match}

(* What comes behind the node with the cursor's ID: the loop skips nodes   *)
(* up to that one, and all of them if there is none.                       *)
BehindTopBug(nodes) ==          \* an unknown cursor starts from the top
  IF \E c \in nodes : items[c].id = after
  THEN {i \in nodes : \E c \in nodes : items[c].id = after /\ c < i} ELSE nodes
BehindBug(nodes) ==             \* the page begins with the cursor itself
  IF after = NoCursor THEN nodes
  ELSE {i \in nodes : \E c \in nodes : items[c].id = after /\ c <= i}
Behind(nodes) ==
  IF after = NoCursor THEN nodes
  ELSE {i \in nodes : \E c \in nodes : items[c].id = after /\ c < i}

(* The dependencies of a package: those with a later ID.                   *)
Later(nodes) ==
  IF after = NoCursor THEN nodes
  ELSE {i \in nodes : StringAfter(items[i].id, after)}

(* The nodes of a type: the ID of the first one decides about all of them. *)
LaterType(nodes) ==
  {i \in nodes : after = NoCursor \/ StringAfter(items[Min(nodes)].id, after)}

(* The nodes that the page may hold, of which it takes the first ones.     *)
RestOf ==
  CASE list \in {"ArtifactsList", "IsDependencyList", "SourcesList", "PackagesList"} ->
         Behind(Matches)
    [] list = "IsDependencyListOf" -> Later(Matches)
    [] list \in {"SourcesListOf", "PackagesListOf"} ->
         LaterType({i \in Matches : TypeID[items[i].parent] = TypeID[1]})
Edges(rest) ==
  {i \in rest : first = 0 \/ Cardinality({j \in rest : j < i}) < first}

HasNextPageBug(rest) == first > 0 /\ Cardinality(rest) >= first
HasNextPage(rest) == first > 0 /\ Cardinality(rest) > first
(* ArtifactsList looks whether the page is full, not whether one is left.  *)
ArtifactsNext(rest) == first > 0 /\ Cardinality(rest) >= first
NextPage(rest) ==
  IF list = "ArtifactsList" THEN ArtifactsNext(rest) ELSE HasNextPage(rest)

(* The cursor is the ID of the last edge's node.  The node of a source or  *)
(* a package is a tree, whose ID is that of its type.                      *)
EndOfTree(edges) == TypeID[items[Max(edges)].parent]
EndCursor(edges) ==
  IF list \in Sorted \cup {"IsDependencyListOf"} THEN items[Max(edges)].id
  ELSE EndOfTree(edges)

-----------------------------------------------------------------------------
(* The client.                                                             *)

IDsAt(places) == {items[i].id : i \in places}

Begin ==
  /\ status = "idle"
  /\ status' = "asking"
  /\ present' = IDsAt(Matches)
  /\ UNCHANGED <<list, first, items, nextID, after, got, repeated>>

LastPage(rest) == rest = {} \/ ~NextPage(rest)
GetPage ==
  /\ status = "asking"
  /\ LET edges == Edges(RestOf)
         ids == IDsAt(edges)
     IN /\ got' = got \cup ids
        /\ repeated' = (repeated \/ ids \cap got # {})
        /\ IF LastPage(RestOf)
           THEN status' = "done" /\ UNCHANGED after
           ELSE after' = EndCursor(edges) /\ UNCHANGED status
  /\ UNCHANGED <<list, first, items, nextID, present>>

QueryFails ==
  /\ status = "asking"
  /\ status' = "failed"
  /\ UNCHANGED <<list, first, items, nextID, after, got, repeated, present>>

Next ==
  \/ \E p \in Parents, match \in BOOLEAN : Ingest(p, match)
  \/ Begin
  \/ GetPage
  \/ QueryFails

Spec == Init /\ [][Next]_vars /\ WF_vars(GetPage)

-----------------------------------------------------------------------------
(* Types; and a client is given only nodes that match its filter.          *)
ListTypeOK ==
  /\ items \in Seq(Item)
  /\ nextID \in FirstID..MaxID + 1
  /\ status \in {"idle", "asking", "done", "failed"}
  /\ after \in IDs \cup {TypeID[p] : p \in Parents} \cup {NoCursor}
  /\ got \subseteq IDsAt({i \in DOMAIN items : items[i].match})
  /\ repeated \in BOOLEAN
  /\ present \subseteq IDs

(* Lists whose order the cursor agrees with: by position, or by IDs that   *)
(* are in the order of their numerals.                                     *)
InCursorOrder ==
  \/ list \in Sorted
  \/ list = "IsDependencyListOf" /\
       \A i, j \in DOMAIN items : i < j => StringAfter(items[j].id, items[i].id)

(* Reading such a list page by page while others ingest gives each node    *)
(* once: none is repeated, and none is missed that was there at the start. *)
ListedOnce ==
  InCursorOrder =>
    /\ ~repeated
    /\ status = "done" => present \subseteq got

(* When a dependencies query says that there is a next page, it has nodes, *)
(* also if the client asks for it after others have ingested.              *)
PromisedPage ==
  status = "asking" /\ after # NoCursor /\ list = "IsDependencyList" => RestOf # {}

(* Paging comes to its end, except through the nodes of one type.          *)
PagingEnds ==
  list \notin {"SourcesListOf", "PackagesListOf"} /\ status = "asking"
    ~> status \in {"done", "failed"}

(* What GetComponents says that it does: "get all the sources"             *)
(* (pkg/certifier/components/source/source.go:46).                         *)
AllSources ==
  status = "done" /\ list = "SourcesList" => present \subseteq got
=============================================================================
