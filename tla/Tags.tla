-------------------------------- MODULE Tags --------------------------------
(***************************************************************************)
(* The tag dictionary, the tags the provider suggests for one shared book  *)
(* and the tags readers put on their copies of it: the operations on tags  *)
(* of book.repository.ts step by step, the collection of unused tags, and  *)
(* the tag dialog (TagManagerModal.vue) with what it knows of the server.  *)
(***************************************************************************)
EXTENDS Actors

CONSTANTS
    TagKey,         \* normalized names
    TagCopy,        \* copies of the book
    DialogCopy,     \* the copy the dialog is open for
    MaxTagIds,      \* rows ever created for a name
    MaxTagOps

VARIABLES
    tagRows,        \* the row of tags for a name: None or its id <<name, n>>
    tagIds,         \* how many ids a name has had
    copyTags,       \* user_book_tags, as pairs <<copy, id>>
    bookTags,       \* book_system_tags of the book
    tagCalls,       \* the calls being served
    tagsShown,      \* the page: the tags of the copy, and the book's
    dialog,         \* None, or the tags and new names chosen in the dialog
    tagLost,        \* a tag was collected
    nameRefused,    \* a call that adds a name failed
    tagOps          \* calls begun, at most MaxTagOps

tagVars == <<tagRows, tagIds, copyTags, bookTags, tagCalls, tagsShown, dialog, tagLost, nameRefused, tagOps>>
tagTables == <<tagRows, tagIds, copyTags, bookTags>>
tagPage == <<tagsShown, dialog>>

\* the row of a name, and what a call remembers
TagId == TagKey \X (1..MaxTagIds)
TagStep == {"find", "create", "resolve", "link", "suggested", "read", "write", "unlink", "collect"}
TagRequest ==
    [op : {"add", "system", "promote", "delete", "batch"}, at : TagStep, copy : TagCopy \cup {None},
     id : TagId \cup {None}, names : Seq(TagKey), deletes : SUBSET TagId, promotes : SUBSET TagId,
     known : (UNION {[keys -> TagId \cup {None}] : keys \in SUBSET TagKey}) \cup {None}]

ASSUME TagAssumption ==
    /\ None \notin (TagKey \X Nat) \cup TagRequest
    /\ IsFiniteSet(TagKey) /\ TagKey # {} /\ DialogCopy \in TagCopy
    /\ MaxTagIds \in Nat \ {0} /\ MaxTagOps \in Nat

TagOf(copy) == {l[2] : l \in {m \in copyTags : m[1] = copy}}
TagExists(id) == tagRows[id[1]] = id
FreshTag(k) == <<k, tagIds[k] + 1>>

-----------------------------------------------------------------------------
(* Calls                                                                   *)

TagCall(c, call) ==
    /\ tagCalls[c] = None
    /\ Room(tagOps, MaxTagOps)
    /\ tagOps' = tagOps + 1
    /\ tagCalls' = [tagCalls EXCEPT ![c] = call]
    /\ UNCHANGED <<tagTables, tagLost, nameRefused>>

OnTag(op, at, copy, id) ==
    [op |-> op, at |-> at, copy |-> copy, id |-> id, names |-> <<>>,
     deletes |-> {}, promotes |-> {}, known |-> None]

TagCallIs(c, at) == tagCalls[c] # None /\ tagCalls[c].at = at
TagGoes(c, call) == tagCalls' = [tagCalls EXCEPT ![c] = call] /\ UNCHANGED <<tagOps, tagPage>>

\* the dialog closes when its save is answered; the page refetches, as ever, by ReloadTags
TagDone(c) ==
    /\ tagCalls' = [tagCalls EXCEPT ![c] = None]
    /\ UNCHANGED tagOps
    /\ dialog' = IF tagCalls[c].op = "batch" THEN None ELSE dialog
    /\ UNCHANGED tagsShown
TagFails(c) ==
    /\ tagCalls' = [tagCalls EXCEPT ![c] = None]
    /\ UNCHANGED <<tagOps, tagPage, tagTables, tagLost>>

addUserTag(c) == \E copy \in TagCopy, k \in TagKey :
    /\ TagCall(c, [OnTag("add", "find", copy, None) EXCEPT !.names = <<k>>])
    /\ UNCHANGED tagPage
hydrateSystemTagsForBook(c) == \E names \in SetToSeqs(TagKey) :
    /\ TagCall(c, [OnTag("system", "find", None, None) EXCEPT !.names = names])
    /\ UNCHANGED tagPage
promoteSuggestedTag(c) == \E copy \in TagCopy, id \in bookTags :
    /\ TagCall(c, OnTag("promote", "suggested", copy, id))
    /\ UNCHANGED tagPage
deleteTag(c) == \E link \in copyTags :
    /\ TagCall(c, OnTag("delete", "unlink", link[1], link[2]))
    /\ UNCHANGED tagPage

-----------------------------------------------------------------------------
(* resolveOrCreateTagId, and the link to the tag it found                  *)

FindTag(c) ==
    /\ TagCallIs(c, "find")
    /\ LET row == tagRows[Head(tagCalls[c].names)] IN
       TagGoes(c, [tagCalls[c] EXCEPT !.at = IF row = None THEN "create" ELSE "link", !.id = row])
    /\ UNCHANGED <<tagTables, tagLost, nameRefused>>

\* on conflict do nothing
CreateTag(c) ==
    /\ TagCallIs(c, "create")
    /\ LET k == Head(tagCalls[c].names) IN
       IF tagRows[k] = None
       THEN /\ Room(tagIds[k], MaxTagIds)
            /\ tagRows' = [tagRows EXCEPT ![k] = FreshTag(k)]
            /\ tagIds' = [tagIds EXCEPT ![k] = @ + 1]
       ELSE UNCHANGED <<tagRows, tagIds>>
    /\ TagGoes(c, [tagCalls[c] EXCEPT !.at = "resolve"])
    /\ UNCHANGED <<copyTags, bookTags, tagLost, nameRefused>>

ResolveTag(c) ==
    /\ TagCallIs(c, "resolve")
    /\ LET row == tagRows[Head(tagCalls[c].names)] IN
       IF row = None
       THEN TagFails(c) /\ nameRefused' = TRUE
       ELSE /\ TagGoes(c, [tagCalls[c] EXCEPT !.at = "link", !.id = row])
            /\ UNCHANGED <<tagTables, tagLost, nameRefused>>

CheckSuggested(c) ==
    /\ TagCallIs(c, "suggested")
    /\ IF tagCalls[c].id \in bookTags
       THEN TagGoes(c, [tagCalls[c] EXCEPT !.at = "link"]) /\ UNCHANGED <<tagTables, tagLost>>
       ELSE TagFails(c)
    /\ UNCHANGED nameRefused

\* linkUserTag, linkSystemTag: the foreign key refuses a tag that is gone
LinkTag(c) ==
    /\ TagCallIs(c, "link")
    /\ LET call == tagCalls[c] IN
       IF ~TagExists(call.id)
       THEN TagFails(c) /\ nameRefused' = (nameRefused \/ call.op # "promote")
       ELSE /\ IF call.op = "system"
               THEN bookTags' = bookTags \cup {call.id} /\ UNCHANGED copyTags
               ELSE copyTags' = copyTags \cup {<<call.copy, call.id>>} /\ UNCHANGED bookTags
            /\ IF Len(call.names) > 1
               THEN TagGoes(c, [call EXCEPT !.at = "find", !.names = Tail(@)])
               ELSE TagDone(c)
            /\ UNCHANGED <<tagRows, tagIds, tagLost, nameRefused>>

-----------------------------------------------------------------------------
(* batchUpdateTags reads, and writes everything in one transaction         *)

ReadTags(c) ==
    /\ TagCallIs(c, "read")
    /\ LET call == tagCalls[c] IN
       IF call.promotes \subseteq bookTags
       THEN /\ TagGoes(c, [call EXCEPT !.at = "write", !.known = [k \in Range(call.names) |-> tagRows[k]]])
            /\ UNCHANGED <<tagTables, tagLost>>
       ELSE TagFails(c)
    /\ UNCHANGED nameRefused

\* the rows once the missing names are inserted, unless someone has by now
RowsAfter(call) ==
    [k \in TagKey |-> IF k \in Range(call.names) /\ call.known[k] = None /\ tagRows[k] = None
                      THEN FreshTag(k) ELSE tagRows[k]]

\* a new name is linked to the row that has it now
LinkedTo_OwnId(call, rows, k) == IF call.known[k] = None THEN FreshTag(k) ELSE call.known[k]
LinkedTo(call, rows, k) == rows[k]

batchUpdateTags(c) ==
    /\ TagCallIs(c, "write")
    /\ LET call == tagCalls[c]
           rows == RowsAfter(call)
           linked == {LinkedTo(call, rows, k) : k \in Range(call.names)}
           ok == \A id \in call.promotes \cup linked : id # None /\ rows[id[1]] = id
       IN IF ok
          THEN /\ \A k \in TagKey : rows[k] # tagRows[k] => Room(tagIds[k], MaxTagIds)
               /\ tagRows' = rows
               /\ tagIds' = [k \in TagKey |-> tagIds[k] + (IF rows[k] # tagRows[k] THEN 1 ELSE 0)]
               /\ copyTags' = (copyTags \ {<<call.copy, id>> : id \in call.deletes})
                                \cup {<<call.copy, id>> : id \in call.promotes \cup linked}
               /\ TagDone(c)
               /\ UNCHANGED <<bookTags, tagLost, nameRefused>>
          ELSE TagFails(c) /\ nameRefused' = (nameRefused \/ call.names # <<>>)

-----------------------------------------------------------------------------
(* deleteTag removes the link, then the tag if nothing uses it             *)

Unlink(c) ==
    /\ TagCallIs(c, "unlink")
    /\ LET link == <<tagCalls[c].copy, tagCalls[c].id>> IN
       IF link \in copyTags
       THEN copyTags' = copyTags \ {link} /\ TagGoes(c, [tagCalls[c] EXCEPT !.at = "collect"])
       ELSE UNCHANGED copyTags /\ TagDone(c)
    /\ UNCHANGED <<tagRows, tagIds, bookTags, tagLost, nameRefused>>

Unused_NotSuggested(id) == id \notin bookTags
Unused(id) == id \notin bookTags /\ \A l \in copyTags : l[2] # id

\* the row takes its links with it
CollectTag(c) ==
    /\ TagCallIs(c, "collect")
    /\ LET id == tagCalls[c].id IN
       IF TagExists(id) /\ Unused(id)
       THEN /\ tagRows' = [tagRows EXCEPT ![id[1]] = None]
            /\ copyTags' = {l \in copyTags : l[2] # id}
            /\ bookTags' = bookTags \ {id}
            /\ tagLost' = TRUE
       ELSE UNCHANGED <<tagRows, copyTags, bookTags, tagLost>>
    /\ TagDone(c)
    /\ UNCHANGED <<tagIds, nameRefused>>

-----------------------------------------------------------------------------
(* The dialog                                                              *)

\* after a save, by the enrichment poll, or in an answer: the page's tags anew
ReloadTags ==
    /\ tagsShown # [tags |-> TagOf(DialogCopy), suggested |-> bookTags]
    /\ tagsShown' = [tags |-> TagOf(DialogCopy), suggested |-> bookTags]
    /\ UNCHANGED <<tagTables, tagCalls, dialog, tagLost, nameRefused, tagOps>>

Chosen(choice) == dialog' = choice /\ UNCHANGED <<tagTables, tagCalls, tagsShown, tagLost, nameRefused, tagOps>>
Saving == \E c \in Call : tagCalls[c] # None /\ tagCalls[c].op = "batch"

OpenTags ==
    /\ dialog = None
    /\ Chosen([tags |-> tagsShown.tags, names |-> {}, suggested |-> tagsShown.suggested])

ChooseTags ==
    /\ dialog # None
    /\ ~Saving
    /\ \/ \E id \in dialog.suggested \ dialog.tags : Chosen([dialog EXCEPT !.tags = @ \cup {id}])
       \/ \E id \in dialog.tags : Chosen([dialog EXCEPT !.tags = @ \ {id}, !.suggested = @ \cup {id}])
       \/ \E k \in TagKey \ ({id[1] : id \in dialog.tags \cup dialog.suggested} \cup dialog.names) :
            Chosen([dialog EXCEPT !.names = @ \cup {k}])

\* what is deleted and promoted is told from the page's tags as they are now
saveChanges(c) ==
    /\ dialog # None
    /\ ~Saving
    /\ dialog.tags # tagsShown.tags \/ dialog.names # {}
    /\ TagCall(c, [OnTag("batch", "read", DialogCopy, None) EXCEPT
                     !.deletes = tagsShown.tags \ dialog.tags,
                     !.promotes = dialog.tags \ tagsShown.tags,
                     !.names = SetToSeq(dialog.names)])
    /\ UNCHANGED tagPage

-----------------------------------------------------------------------------

\* a tag may have been put on the copy, or suggested for the book, before
TagsInit == LET k == CHOOSE name \in TagKey : TRUE IN
    /\ copyTags \in {{}, {<<DialogCopy, <<k, 1>>>>}}
    /\ bookTags \in {{}, {<<k, 1>>}}
    /\ tagIds = [name \in TagKey |-> IF name = k /\ (copyTags # {} \/ bookTags # {}) THEN 1 ELSE 0]
    /\ tagRows = [name \in TagKey |-> IF tagIds[name] = 1 THEN <<name, 1>> ELSE None]
    /\ tagCalls = [c \in Call |-> None]
    /\ tagsShown = [tags |-> TagOf(DialogCopy), suggested |-> bookTags]
    /\ dialog = None
    /\ tagLost = FALSE
    /\ nameRefused = FALSE
    /\ tagOps = 0

TagsNext ==
    \/ ReloadTags \/ OpenTags \/ ChooseTags
    \/ \E c \in Call :
         \/ addUserTag(c) \/ hydrateSystemTagsForBook(c) \/ promoteSuggestedTag(c) \/ deleteTag(c) \/ saveChanges(c)
         \/ FindTag(c) \/ CreateTag(c) \/ ResolveTag(c) \/ CheckSuggested(c) \/ LinkTag(c)
         \/ ReadTags(c) \/ batchUpdateTags(c) \/ Unlink(c) \/ CollectTag(c)

TagsSpec == TagsInit /\ [][TagsNext]_tagVars

-----------------------------------------------------------------------------

TagsTypeOK ==
    /\ \A k \in TagKey : tagRows[k] = None \/ tagRows[k] \in {k} \X (1..tagIds[k])
    /\ \A l \in copyTags : l[1] \in TagCopy /\ TagExists(l[2])
    /\ \A id \in bookTags : TagExists(id)

(* A tag leaves a copy only by a deletion of that tag from that copy: the  *)
(* collection of unused tags, which takes the links of a tag with it,      *)
(* never takes one that another call has added in between.                 *)
TagsStay == [][\A l \in copyTags \ copyTags' : \E c \in Call :
    /\ tagCalls[c] # None
    /\ tagCalls'[c] # tagCalls[c]
    /\ tagCalls[c].copy = l[1]
    /\ (tagCalls[c].op = "delete" /\ tagCalls[c].id = l[2]) \/ l[2] \in tagCalls[c].deletes]_tagVars

(* Calls that add the same new name at the same time all succeed: each     *)
(* ends with the row of whoever created it first, and one fails only when  *)
(* a tag was collected meanwhile.                                          *)
CreatorsAllSave == nameRefused => tagLost
=============================================================================
