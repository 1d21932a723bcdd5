------------------------ MODULE WhiteboardDocument ------------------------
(* The whiteboard document of whiteboard_document.cpp: the deterministic   *)
(* model that the authority and every replica keep, Apply, and the content *)
(* snapshot (toJson, fromJson).  A document is a value; nothing here has   *)
(* state.                                                                  *)
(*                                                                         *)
(* An object keeps its identity, its author and whether its text holds     *)
(* multi-byte characters; geometry, colour and the validity checks on them *)
(* are left out, so a command that names existing things is valid.  The    *)
(* identifier of a fresh object or page is the identifier of the command   *)
(* that creates it, unique as the panel's generated identifiers are.       *)
(***************************************************************************)
EXTENDS Naturals, SequencesExt

CONSTANTS MaxPages,        \* pages of a document (8)
          MaxPageObjects,  \* objects of a page (2000)
          MaxHistory,      \* undo and redo entries (100)
          kMaxCommands,    \* accepted commands of an interaction (20000)
          ChunkUnits       \* size of a snapshot chunk (6000 bytes)

ASSUME DocumentBounds ==
  /\ MaxPages \in Nat \ {0} /\ MaxPageObjects \in Nat \ {0}
  /\ MaxHistory \in Nat \ {0} /\ kMaxCommands \in Nat \ {0}
  /\ ChunkUnits \in Nat \ {0}

NoAsset == "no asset"
FirstPage == [id |-> <<"page", 1>>, epoch |-> 1, background |-> NoAsset, objects |-> <<>>]

NewDocument(owner) ==
  [owner |-> owner, pages |-> <<FirstPage>>, active |-> 1,
   interactionEpoch |-> 1, undo |-> <<>>, redo |-> <<>>,
   accepted |-> {}, used |-> {}]

Page(d) == d.pages[d.active]
Objects(d) == Page(d).objects
PageIds(d) == {d.pages[i].id : i \in DOMAIN d.pages}

Context(d) == [page |-> Page(d).id, pageEpoch |-> Page(d).epoch,
               interactionEpoch |-> d.interactionEpoch]

Position(d, id) == SelectInSeq(Objects(d), LAMBDA o : o.id = id)
Present(d, id) == Position(d, id) # 0

CanAdd(d) == Len(Objects(d)) < MaxPageObjects /\ Cardinality(d.used) < kMaxCommands

\* A history list keeps its last MaxHistory entries.
Push(history, h) ==
  Append(IF Len(history) = MaxHistory THEN Tail(history) ELSE history, h)

HistoryOf(d, object) ==
  [page |-> Page(d).id, epoch |-> Page(d).epoch, object |-> object]

\* The entry is of this actor, on the active page, in its present epoch.
Recalls(d, h, actor) ==
  h.page = Page(d).id /\ h.epoch = Page(d).epoch /\ h.object.author = actor

-----------------------------------------------------------------------------
(* Apply: one operator per command.                                        *)

CommandKinds == {"Add", "Erase", "Undo", "Redo", "Clear", "SetBackground",
                 "AddPage", "AddImagePage", "SelectPage"}

\* The entries of s that are wanted, in their order.
Keep(s, wanted) ==
  FoldLeft(LAMBDA kept, x : IF x \in wanted THEN Append(kept, x) ELSE kept, <<>>, s)

Refused(d, status) == [status |-> status, doc |-> d]
Accept(d, c) ==
  [status |-> "Applied", doc |-> [d EXCEPT !.accepted = @ \cup {c.id}]]

\* The bound on accepted, the redo list and the epoch go together.
AdvanceInteraction(d) ==
  [d EXCEPT !.interactionEpoch = @ + 1, !.accepted = {}, !.redo = <<>>]

PutObject(d, object) ==
  [d EXCEPT !.pages[d.active].objects = Append(@, object),
            !.used = @ \cup {object.id},
            !.undo = Push(@, HistoryOf(d, object))]

AddObject(d, c) ==
  LET object == [id |-> c.id, author |-> c.actor, wide |-> c.wide]
      added == PutObject(d, object)
  IN  CASE c.id \in d.used -> Refused(d, "Invalid")
        [] c.id \notin d.used /\ ~CanAdd(d) -> Refused(d, "LimitReached")
        [] OTHER -> Accept([added EXCEPT !.redo =
                      Keep(@, {h \in Range(@) : h.object.author # c.actor})], c)

EraseObject(d, c) ==
  LET i == Position(d, c.target)
  IN  CASE i = 0 -> Refused(d, "NoChange")
        [] i # 0 /\ c.actor \notin {d.owner, Objects(d)[i].author} ->
             Refused(d, "Forbidden")
        [] OTHER -> Accept([d EXCEPT !.pages[d.active].objects = RemoveAt(@, i)], c)

UndoEntry(d, actor) ==
  SelectLastInSeq(d.undo, LAMBDA h : Recalls(d, h, actor) /\ Present(d, h.object.id))

UndoAdd(d, c) ==
  LET i == UndoEntry(d, c.actor)
      h == d.undo[i]
  IN  IF i = 0
      THEN Refused(d, "NoChange")
      ELSE Accept([d EXCEPT
             !.redo = Push(@, h),
             !.undo = RemoveAt(@, i),
             !.pages[d.active].objects = RemoveAt(@, Position(d, h.object.id))], c)

RedoEntry(d, actor) == SelectLastInSeq(d.redo, LAMBDA h : Recalls(d, h, actor))

RedoAdd(d, c) ==
  LET i == RedoEntry(d, c.actor)
      object == [d.redo[i].object EXCEPT !.id = c.id]
  IN  CASE c.id \in d.used -> Refused(d, "Invalid")
        [] c.id \notin d.used /\ i = 0 -> Refused(d, "NoChange")
        [] c.id \notin d.used /\ i # 0 /\ ~CanAdd(d) -> Refused(d, "LimitReached")
        [] OTHER -> Accept([PutObject(d, object) EXCEPT !.redo = RemoveAt(@, i)], c)

CleanPage(p, background) ==
  [p EXCEPT !.objects = <<>>, !.background = background, !.epoch = @ + 1]

\* Clear, and SetBackground, which also gives the page its image.
ResetPage(d, c, background) ==
  LET id == Page(d).id
  IN  IF c.actor # d.owner
      THEN Refused(d, "Forbidden")
      ELSE Accept(AdvanceInteraction([d EXCEPT
             !.pages[d.active] = CleanPage(@, background),
             !.undo = Keep(@, {h \in Range(@) : h.page # id})]), c)

\* AddPage, and AddImagePage, whose page has an image.
AppendPage(d, c, background) ==
  CASE c.actor # d.owner -> Refused(d, "Forbidden")
    [] c.actor = d.owner /\ Len(d.pages) >= MaxPages -> Refused(d, "LimitReached")
    [] c.actor = d.owner /\ Len(d.pages) < MaxPages /\ c.id \in PageIds(d) ->
         Refused(d, "Invalid")
    [] OTHER -> Accept(AdvanceInteraction([d EXCEPT
         !.pages = Append(@, [FirstPage EXCEPT !.id = c.id, !.background = background]),
         !.active = Len(d.pages) + 1]), c)

SelectPage(d, c) ==
  LET i == SelectInSeq(d.pages, LAMBDA p : p.id = c.target)
  IN  CASE c.actor # d.owner -> Refused(d, "Forbidden")
        [] c.actor = d.owner /\ i = 0 -> Refused(d, "Invalid")
        [] c.actor = d.owner /\ i = d.active -> Refused(d, "NoChange")
        [] OTHER -> Accept(AdvanceInteraction([d EXCEPT !.active = i]), c)

\* Faulty variant: any context will do.
AnyContext(d, c) == TRUE

SameContext(d, c) == c.context = Context(d)

\* Faulty variant: accepted commands are not remembered.
NeverKnown(d, c) == FALSE

Known(d, c) == c.id \in d.accepted

Apply(d, c) ==
  CASE ~SameContext(d, c) -> Refused(d, "Stale")
    [] SameContext(d, c) /\ Known(d, c) -> Refused(d, "Duplicate")
    [] SameContext(d, c) /\ ~Known(d, c)
         /\ Cardinality(d.accepted) >= kMaxCommands -> Refused(d, "LimitReached")
    [] OTHER ->
         CASE c.kind = "Add" -> AddObject(d, c)
           [] c.kind = "Erase" -> EraseObject(d, c)
           [] c.kind = "Undo" -> UndoAdd(d, c)
           [] c.kind = "Redo" -> RedoAdd(d, c)
           [] c.kind = "Clear" -> ResetPage(d, c, Page(d).background)
           [] c.kind = "SetBackground" -> ResetPage(d, c, c.asset)
           [] c.kind = "AddPage" -> AppendPage(d, c, NoAsset)
           [] c.kind = "AddImagePage" -> AppendPage(d, c, c.asset)
           [] c.kind = "SelectPage" -> SelectPage(d, c)

-----------------------------------------------------------------------------
(* The content snapshot.                                                   *)

\* What toJson writes: neither the history nor the accepted commands.
Content(d) == [owner |-> d.owner, pages |-> d.pages, active |-> d.active,
               interactionEpoch |-> d.interactionEpoch]

ObjectIds(content) ==
  UNION {{content.pages[i].objects[j].id : j \in DOMAIN content.pages[i].objects} :
           i \in DOMAIN content.pages}

\* fromJson: an empty history, and only the objects it shows are used.
Restore(content) ==
  [owner |-> content.owner, pages |-> content.pages, active |-> content.active,
   interactionEpoch |-> content.interactionEpoch, undo |-> <<>>, redo |-> <<>>,
   accepted |-> {}, used |-> ObjectIds(content)]

\* The bytes of the snapshot, coarsely: one unit for the frame of a page or
\* an object, two for a multi-byte character, its first byte and the rest.
Units(content) ==
  FlattenSeq([i \in DOMAIN content.pages |->
    <<"byte">> \o FlattenSeq([j \in DOMAIN content.pages[i].objects |->
      IF content.pages[i].objects[j].wide THEN <<"lead", "tail">> ELSE <<"byte">>])])

ChunkCount(content) == (Len(Units(content)) + ChunkUnits - 1) \div ChunkUnits

\* A chunk that ends inside a character is not UTF-8 and dump() throws.
Encodable(content, i) ==
  LET end == i * ChunkUnits
  IN  end <= Len(Units(content)) => Units(content)[end] # "lead"

=============================================================================
