----------------------------- MODULE ConfigStore -----------------------------
(***************************************************************************)
(* CConfigManager (src/src/common/config) and its face CConfigLoader: one  *)
(* JSON document, merged from the files of a directory, read and written   *)
(* by key paths, and saved to files.                                       *)
(*                                                                         *)
(* A document maps each of its paths, a sequence of keys, to "object",     *)
(* "null" or a leaf.  An array is a leaf, as it is for a key path.         *)
(***************************************************************************)
EXTENDS Naturals, Sequences, SequencesExt

CONSTANTS
    Files, JsonFiles,   \* the entries of the directory; those named *.json
    Users,              \* threads that use the store at run time
    Settings,           \* what they set: [path, value], a value is a document
    Initial,            \* Initial[f]: what the file holds at first
    MaxCalls            \* bound: calls of the users

\* A tree of nodes: every node but the root lies in an object.
IsTree(d) ==
    /\ d = [p \in DOMAIN d |-> d[p]] /\ DOMAIN d \subseteq Seq(STRING)
    /\ <<>> \in DOMAIN d
    /\ \A p \in DOMAIN d \ {<<>>} : Front(p) \in DOMAIN d /\ d[Front(p)] = "object"

\* The configuration that is delivered with the program parses.
ASSUME StoreAssumption ==
    /\ JsonFiles \subseteq Files
    /\ DOMAIN Initial = Files
    /\ \A f \in Files : Initial[f].whole \in BOOLEAN /\ IsTree(Initial[f].doc)
    /\ \A f \in JsonFiles : Initial[f].whole
    /\ \A s \in Settings : s.path \in Seq(STRING) /\ IsTree(s.value)
    /\ MaxCalls \in Nat

VARIABLES
    m_json,    \* the document
    files,     \* files[f]: [whole, doc]; a text that does not parse is not whole
    job,       \* job[u]: the call that u is in, its file and the document it has
    made       \* calls so far

storeVars == <<m_json, files, job, made>>

Leaf(v)  == [p \in {<<>>} |-> v]
Torn     == [whole |-> FALSE, doc |-> Leaf("null")]
NoCall   == [op |-> "none", file |-> "", doc |-> Leaf("null")]

StoreTypeOK ==
    /\ IsTree(m_json)
    /\ DOMAIN files = Files /\ DOMAIN job = Users
    /\ \A f \in Files : files[f].whole \in BOOLEAN /\ IsTree(files[f].doc)
    /\ \A u \in Users :
          /\ job[u].op \in {"none", "merge", "dump", "close"}
          /\ job[u].file \in Files \cup {""}
          /\ IsTree(job[u].doc)
    /\ made \in 0..MaxCalls

StoreInit ==
    /\ m_json = Leaf("null")
    /\ files = Initial
    /\ job = [u \in Users |-> NoCall]
    /\ made = 0

-----------------------------------------------------------------------------
(***************************************************************************)
(* findJsonByPath and what getValue and setValue make of it.  The keys of  *)
(* a path are what lies between its dots, empty keys left out.             *)
(***************************************************************************)
KeysOf(path) ==
    LET keys[n \in 0..Len(path)] ==
            IF n = 0 THEN <<>>
            ELSE IF path[n] = "" THEN keys[n - 1] ELSE Append(keys[n - 1], path[n])
    IN  keys[Len(path)]

\* The value at a path, as a document; getValue<json> returns a copy of it.
Found(d, path) == KeysOf(path) \in DOMAIN d
ValueAt(d, path) ==
    LET p == KeysOf(path)
    IN  [q \in {SubSeq(r, Len(p) + 1, Len(r)) : r \in {r \in DOMAIN d : IsPrefix(p, r)}}
            |-> d[p \o q]]

\* Mutant: any node is made a new object.
AsObject_Always(d, p) ==
    [q \in {q \in DOMAIN d : ~IsStrictPrefix(p, q)} |-> IF q = p THEN "object" ELSE d[q]]
\* Mutant: keys are added below a node that is no object.
AsObject_Never(d, p) == d
\* A node that is no object, so that it has nothing below, is made one.
AsObject(d, p) == IF d[p] = "object" THEN d ELSE [d EXCEPT ![p] = "object"]

\* One key of the path: the node reached is entered, and its child created.
Descend(at, key) ==
    LET d == AsObject(at.doc, at.path)
        p == Append(at.path, key)
    IN  [doc |-> [q \in DOMAIN d \cup {p} |-> IF q \in DOMAIN d THEN d[q] ELSE "null"],
         path |-> p]

\* Where the walk is after each of the keys.
Walk(d, keys) ==
    LET at[n \in 0..Len(keys)] ==
            IF n = 0 THEN [doc |-> d, path |-> <<>>] ELSE Descend(at[n - 1], keys[n])
    IN  at

WithValue(d, path, v) ==
    LET at == Walk(d, KeysOf(path))[Len(KeysOf(path))]
        outside == {q \in DOMAIN at.doc : ~IsPrefix(at.path, q)}
    IN  [q \in outside \cup {at.path \o r : r \in DOMAIN v} |->
            IF q \in outside THEN at.doc[q] ELSE v[SubSeq(q, Len(at.path) + 1, Len(q))]]

\* Mutant: a file replaces the document.
MergePatch_Replace(d, patch) == patch
\* merge_patch: objects are merged, "null" deletes, anything else replaces.
MergePatch(d, patch) ==
    LET kept  == {p \in DOMAIN d :
                    \A q \in DOMAIN patch : IsPrefix(q, p) => patch[q] = "object"}
        given == {p \in DOMAIN patch : patch[p] # "null"}
    IN  IF patch[<<>>] # "object" THEN patch
        ELSE [p \in kept \cup given |-> IF p \in given THEN patch[p] ELSE d[p]]

-----------------------------------------------------------------------------
(***************************************************************************)
(* The calls of the users.                                                 *)
(***************************************************************************)
Begins(u) == job[u].op = "none" /\ made < MaxCalls /\ made' = made + 1
Goes(u, op, f, d) == job' = [job EXCEPT ![u] = [op |-> op, file |-> f, doc |-> d]]
Returns(u) == job' = [job EXCEPT ![u] = NoCall]

UserSets(u, s) ==
    /\ Begins(u)
    /\ m_json' = WithValue(m_json, s.path, s.value)
    /\ UNCHANGED <<files, job>>

\* A file that cannot be opened, or one to load that does not parse: FALSE.
CallFails(u) == Begins(u) /\ UNCHANGED <<m_json, files, job>>

\* The file is parsed before the mutex is taken.
LoadParses(u, f) ==
    /\ Begins(u)
    /\ files[f].whole
    /\ Goes(u, "merge", f, files[f].doc)
    /\ UNCHANGED <<m_json, files>>

LoadMerges(u) ==
    /\ job[u].op = "merge"
    /\ m_json' = MergePatch(m_json, job[u].doc)
    /\ Returns(u)
    /\ UNCHANGED <<files, made>>

\* Opening the stream empties the file, before the mutex is taken.
SaveOpens(u, f) ==
    /\ Begins(u)
    /\ files' = [files EXCEPT ![f] = Torn]
    /\ Goes(u, "dump", f, Leaf("null"))
    /\ UNCHANGED m_json

SaveDumps(u) ==
    /\ job[u].op = "dump"
    /\ Goes(u, "close", job[u].file, m_json)
    /\ UNCHANGED <<m_json, files, made>>

\* A text that is not UTF-8 cannot be dumped: the empty file stays.
SaveThrows(u) ==
    /\ job[u].op = "dump"
    /\ \E p \in DOMAIN m_json : m_json[p] = "not UTF-8"
    /\ Returns(u)
    /\ UNCHANGED <<m_json, files, made>>

\* The stream is flushed when it is destroyed, after the mutex is released;
\* that it cannot be goes unnoticed.  What two streams write to one file may
\* be neither's text.
SaveCloses(u) ==
    LET f == job[u].file
    IN  /\ job[u].op = "close"
        /\ \/ files' = [files EXCEPT ![f] = [whole |-> TRUE, doc |-> job[u].doc]]
           \/ files[f].whole /\ files' = [files EXCEPT ![f] = Torn]
        /\ Returns(u)
        /\ UNCHANGED <<m_json, made>>

SaveNotFlushed(u) ==
    /\ job[u].op = "close"
    /\ Returns(u)
    /\ UNCHANGED <<m_json, files, made>>

Saving(f) == \E u \in Users : job[u].op \in {"dump", "close"} /\ job[u].file = f
=============================================================================
