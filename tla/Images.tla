------------------------------- MODULE Images -------------------------------
(***************************************************************************)
(* The pictures of one product or of one category.  A mapping document     *)
(* lists them and names a cover; the product or category itself carries a  *)
(* copy of the picture it shows.  The administrator's page keeps a single  *)
(* picture: it deletes the listed ones, all at once, and adds the new one. *)
(*                                                                         *)
(* The list is of Mixed values: Mongoose does not see a change inside one, *)
(* so save() writes what was pushed or a whole list that was assigned, and *)
(* only the latter is refused when the document's version has moved on.    *)
(***************************************************************************)
EXTENDS Naturals, FiniteSets, Sequences

CONSTANTS
  Admins,       \* the administrators, each with the page open
  MaxPictures,  \* bound: the pictures that may ever be added
  MaxActs       \* bound: uploads, deletions and choices of a cover

ASSUME ImagesAssumption == MaxPictures \in Nat \ {0} /\ MaxActs \in Nat

(* Pictures are numbered in the order of their upload. *)
Pictures  == 1 .. MaxPictures
NoPicture == 0
First     == 1

VARIABLES
  kind,      \* whose pictures these are; never changes
  gallery,   \* the mapping document
  displayed, \* imageUrl of the product or category
  used,      \* how many pictures there have been
  acts,      \* how often an administrator acted
  screen,    \* the administrators' pages
  request,   \* the open requests, by administrator and picture
  imgCauses  \* history: what happened that can harm the pictures

imgVars == <<kind, gallery, displayed, used, acts, screen, request, imgCauses>>

Image == [id : Pictures, isCover : BOOLEAN]
ImageLists == {s \in UNION {[1 .. n -> Image] : n \in 0 .. MaxPictures} :
                 \A i, j \in DOMAIN s : s[i].id = s[j].id => i = j}
Gallery == [there : BOOLEAN, images : ImageLists, coverImageId : Pictures \cup {NoPicture},
            version : 0 .. 2 * Cardinality(Pictures)]
NoGallery == [there |-> FALSE, images |-> <<>>, coverImageId |-> NoPicture, version |-> 0]

Requests == Admins \X Pictures

(* copy: the mapping as it was read; picture: what will be displayed.      *)
ImageRequest == [at : {"find", "showFirst", "save", "show"},
                 op : {"add", "cover", "delete"}, isCover : BOOLEAN,
                 copy : Gallery, picture : Pictures \cup {NoPicture}]
Opened(op, isCover) == [at |-> "find", op |-> op, isCover |-> isCover,
                        copy |-> NoGallery, picture |-> NoPicture]

(* seen: the list of pictures the page has loaded; uploading: the new one. *)
Screen == [seen : SUBSET Pictures, uploading : Pictures \cup {NoPicture}]

IdsOf(images) == {images[i].id : i \in DOMAIN images}
Pictured      == IdsOf(gallery.images)

ImgInit ==
  /\ kind \in {"product", "category"}
  /\ \/ gallery = NoGallery /\ displayed = NoPicture /\ used = 0
     \/ /\ gallery = [there |-> TRUE, images |-> <<[id |-> First, isCover |-> TRUE]>>,
                      coverImageId |-> First, version |-> 0]
        /\ displayed = First /\ used = 1
  /\ screen = [a \in Admins |-> [seen |-> {}, uploading |-> NoPicture]]
  /\ request = <<>>
  /\ acts = 0
  /\ imgCauses = {}

-----------------------------------------------------------------------------
(* The administrator's page *)

Asking(a) == \E p \in DOMAIN request : p[1] = a
Busy(a)   == screen[a].uploading # NoPicture \/ Asking(a)
ImgQuiet  == \A a \in Admins : ~Busy(a)

(* A button is pressed. *)
Act(a) == ~Busy(a) /\ acts < MaxActs /\ acts' = acts + 1

(* The query of the page answers. *)
LoadList(a) ==
  /\ ~Busy(a)
  /\ screen' = [screen EXCEPT ![a].seen = Pictured]
  /\ UNCHANGED <<kind, gallery, displayed, used, acts, request, imgCauses>>

Send(ps, op, isCover) ==
  request' = [p \in ps \cup DOMAIN request |->
                IF p \in ps THEN Opened(op, isCover) ELSE request[p]]

(* Mutant: the old pictures stay. *)
UploadKeepsOld(a) ==
  /\ Act(a)
  /\ used < MaxPictures
  /\ used' = used + 1
  /\ screen' = [screen EXCEPT ![a].uploading = used']
  /\ imgCauses' = imgCauses \cup {c \in {"unlisted", "overlap"} :
       \/ c = "unlisted" /\ screen[a].seen # Pictured
       \/ c = "overlap" /\ \E b \in Admins \ {a} : Busy(b)}
  /\ UNCHANGED <<kind, gallery, displayed, request>>

(* uploadMutation: every picture of the list in hand is deleted, together. *)
Upload(a) ==
  /\ Act(a)
  /\ used < MaxPictures
  /\ used' = used + 1
  /\ screen' = [screen EXCEPT ![a].uploading = used']
  /\ Send({a} \X screen[a].seen, "delete", FALSE)
  /\ imgCauses' = imgCauses \cup {c \in {"unlisted", "overlap"} :
       \/ c = "unlisted" /\ screen[a].seen # Pictured
       \/ c = "overlap" /\ \E b \in Admins \ {a} : Busy(b)}
  /\ UNCHANGED <<kind, gallery, displayed>>

(* The deletions have ended, well or not; the file is stored, and added as *)
(* the cover (by the page always, by another client perhaps not).          *)
AddUploaded(a) ==
  /\ screen[a].uploading # NoPicture
  /\ ~Asking(a)
  /\ screen' = [screen EXCEPT ![a].uploading = NoPicture]
  /\ \E isCover \in BOOLEAN : Send({<<a, screen[a].uploading>>}, "add", isCover)
  /\ UNCHANGED <<kind, gallery, displayed, used, acts, imgCauses>>

(* The object store refuses the file: the old pictures are gone. *)
UploadFails(a) ==
  /\ screen[a].uploading # NoPicture
  /\ ~Asking(a)
  /\ screen' = [screen EXCEPT ![a].uploading = NoPicture]
  /\ UNCHANGED <<kind, gallery, displayed, used, acts, request, imgCauses>>

(* deleteMutation *)
Delete(a, i) ==
  /\ Act(a)
  /\ i \in screen[a].seen
  /\ Send({<<a, i>>}, "delete", FALSE)
  /\ UNCHANGED <<kind, gallery, displayed, used, screen, imgCauses>>

(* PUT product/:id/cover/:imageId has no button in the web client. *)
ChooseCover(a, i) ==
  /\ Act(a)
  /\ kind = "product" /\ i <= used
  /\ Send({<<a, i>>}, "cover", TRUE)
  /\ UNCHANGED <<kind, gallery, displayed, used, screen, imgCauses>>

-----------------------------------------------------------------------------
(* addImageByUrl, setCoverImage, deleteImage and their category twins *)

ToStage(p, stage) == request' = [request EXCEPT ![p].at = stage]
Finish(p) == request' = [q \in DOMAIN request \ {p} |-> request[q]]

(* The first picture of a category is its cover, asked or not. *)
AsCover(p) ==
  \/ request[p].isCover
  \/ request[p].op = "add" /\ kind = "category" /\ gallery.images = <<>>

FindMapping(p) ==
  /\ request[p].at = "find"
  /\ IF request[p].op # "add" /\ p[2] \notin Pictured
       THEN Finish(p)
       ELSE request' = [request EXCEPT
              ![p].at = IF request[p].op = "add" /\ kind = "product" /\ request[p].isCover
                          THEN "showFirst" ELSE "save",
              ![p].isCover = AsCover(p), ![p].copy = gallery, ![p].picture = p[2]]
  /\ UNCHANGED <<kind, gallery, displayed, used, acts, screen, imgCauses>>

(* A product shows its new cover before the mapping lists it. *)
ShowFirst(p) ==
  /\ request[p].at = "showFirst"
  /\ displayed' = request[p].picture
  /\ ToStage(p, "save")
  /\ UNCHANGED <<kind, gallery, used, acts, screen, imgCauses>>

(* A product that shows a picture whose save fails shows one it has not.   *)
Refused(p) ==
  /\ imgCauses' = imgCauses \cup
       (IF request[p].op = "delete" THEN {"undeleted"}
        ELSE IF request[p].op = "add" /\ kind = "product" /\ request[p].isCover
        THEN {"unsaved"} ELSE {})
  /\ Finish(p)
  /\ UNCHANGED gallery

(* push of the new picture; the others' isCover = false is not written. A  *)
(* first mapping is inserted, and the unique index admits only one.        *)
SaveAdd(p) ==
  LET new == [id |-> p[2], isCover |-> request[p].isCover] IN
  /\ request[p].at = "save" /\ request[p].op = "add"
  /\ IF gallery.there /\ ~request[p].copy.there
       THEN Refused(p)
       ELSE /\ gallery' = [there |-> TRUE, images |-> Append(gallery.images, new),
                           coverImageId |-> IF new.isCover THEN p[2]
                                            ELSE gallery.coverImageId,
                           version |-> gallery.version
                                         + (IF gallery.there THEN 1 ELSE 0)]
            /\ IF kind = "category" THEN ToStage(p, "show") ELSE Finish(p)
            /\ UNCHANGED imgCauses
  /\ UNCHANGED <<kind, displayed, used, acts, screen>>

(* Another request is about to delete p's picture. *)
Doomed(p) ==
  \E q \in DOMAIN request : request[q].at = "save" /\ request[q].op = "delete" /\ q[2] = p[2]

(* Only coverImageId is written, when it differs from the one read. *)
SaveCover(p) ==
  /\ request[p].at = "save" /\ request[p].op = "cover"
  /\ gallery' = [gallery EXCEPT !.coverImageId =
                   IF request[p].copy.coverImageId = p[2] THEN @ ELSE p[2]]
  /\ imgCauses' = IF Doomed(p) THEN imgCauses \cup {"crossed"} ELSE imgCauses
  /\ ToStage(p, "show")
  /\ UNCHANGED <<kind, displayed, used, acts, screen>>

(* The filter takes out one image, since no two have the same id. *)
Others(p) ==
  LET images == request[p].copy.images
      gone   == CHOOSE i \in DOMAIN images : images[i].id = p[2]
  IN  [i \in 1 .. Len(images) - 1 |-> IF i < gone THEN images[i] ELSE images[i + 1]]

(* The list without p's picture; a deleted cover passes to the first.      *)
Remaining(p) ==
  [i \in DOMAIN Others(p) |->
     [id |-> Others(p)[i].id,
      isCover |-> \/ Others(p)[i].isCover
                  \/ i = 1 /\ request[p].copy.coverImageId = p[2]]]

(* Mutant: the mapping goes on naming the deleted cover. *)
NextCoverKept(p) == gallery.coverImageId

NextCover(p) ==
  IF request[p].copy.coverImageId # p[2] THEN gallery.coverImageId
  ELSE IF Remaining(p) = <<>> THEN NoPicture
  ELSE Remaining(p)[1].id

CoverOf(images) ==
  LET covers == {i \in DOMAIN images : images[i].isCover} IN
  IF covers = {} THEN NoPicture
  ELSE images[CHOOSE i \in covers : \A j \in covers : i <= j].id

(* Another request is about to show i, or to name it the cover. *)
Awaited(p, i) ==
  \E q \in DOMAIN request \ {p} :
    \/ request[q].at = "show" /\ request[q].picture = i
    \/ request[q].at = "save" /\ request[q].op = "cover" /\ q[2] = i

(* The whole list is written, unless the version has moved on. *)
SaveDelete(p) ==
  /\ request[p].at = "save" /\ request[p].op = "delete"
  /\ IF gallery.version # request[p].copy.version
       THEN Refused(p)
       ELSE /\ gallery' = [gallery EXCEPT
                 !.images = Remaining(p), !.coverImageId = NextCover(p),
                 !.version = @ + 1]
            /\ request' = [request EXCEPT ![p].at = "show", ![p].picture = CoverOf(Remaining(p))]
            /\ imgCauses' = IF Awaited(p, p[2]) THEN imgCauses \cup {"crossed"}
                                                ELSE imgCauses
  /\ UNCHANGED <<kind, displayed, used, acts, screen>>

ShowAfter(p) ==
  /\ request[p].at = "show"
  /\ displayed' = request[p].picture
  /\ Finish(p)
  /\ UNCHANGED <<kind, gallery, used, acts, screen, imgCauses>>

-----------------------------------------------------------------------------
(* Faults: a call is lost, a write fails, the API restarts *)

RequestFails(p) ==
  /\ request[p].at \in {"find", "save"}
  /\ Refused(p)
  /\ UNCHANGED <<kind, displayed, used, acts, screen>>

(* An imageUrl that cannot be written is only logged. *)
ShowFails(p) ==
  /\ request[p].at \in {"showFirst", "show"}
  /\ IF request[p].at = "show" THEN Finish(p) ELSE ToStage(p, "save")
  /\ imgCauses' = imgCauses \cup {"unshown"}
  /\ UNCHANGED <<kind, gallery, displayed, used, acts, screen>>

-----------------------------------------------------------------------------

OnPage(a) ==
  \/ LoadList(a) \/ Upload(a) \/ AddUploaded(a) \/ UploadFails(a)
  \/ \E i \in Pictures : Delete(a, i) \/ ChooseCover(a, i)

Serve(p) ==
  \/ FindMapping(p) \/ ShowFirst(p) \/ SaveAdd(p) \/ SaveCover(p) \/ SaveDelete(p) \/ ShowAfter(p)
  \/ RequestFails(p) \/ ShowFails(p)

ImgNext == (\E a \in Admins : OnPage(a)) \/ (\E p \in DOMAIN request : Serve(p))

ImgSpec == ImgInit /\ [][ImgNext]_imgVars

-----------------------------------------------------------------------------
(* Properties *)

(* The shape of the state. *)
ImgTypeOK ==
  /\ kind \in {"product", "category"}
  /\ gallery \in Gallery
  /\ displayed \in Pictures \cup {NoPicture}
  /\ used \in 0 .. MaxPictures
  /\ acts \in 0 .. MaxActs
  /\ screen \in [Admins -> Screen]
  /\ DOMAIN request \subseteq Requests /\ \A p \in DOMAIN request : request[p] \in ImageRequest
  /\ imgCauses \subseteq {"unlisted", "overlap", "undeleted", "unsaved", "unshown", "crossed"}

(* When no request is under way, what the product or category shows and    *)
(* what the mapping names as the cover are pictures of its list, whoever   *)
(* added, chose and deleted meanwhile, unless a new cover was displayed    *)
(* and not saved, a change was not displayed, or a deletion crossed another*)
(* request about its picture.                                              *)
PictureIsListed ==
  ImgQuiet /\ imgCauses \cap {"unsaved", "unshown", "crossed"} = {}
    => {displayed, gallery.coverImageId} \subseteq Pictured \cup {NoPicture}

(* The page's promise of a single picture holds when no deletion failed,   *)
(* no two administrators changed the pictures at once and every upload     *)
(* began with the list as it was.                                          *)
SinglePicture ==
  ImgQuiet /\ imgCauses \cap {"unlisted", "overlap", "undeleted"} = {}
    => Cardinality(Pictured) <= 1

(* images.service.ts says of a new cover "unset others": when no call      *)
(* failed, no two pictures of a list are covers.  It does not hold.        *)
OneCover ==
  ImgQuiet /\ imgCauses \cap {"undeleted", "unsaved", "unshown"} = {}
    => Cardinality({i \in DOMAIN gallery.images : gallery.images[i].isCover}) <= 1

=============================================================================
