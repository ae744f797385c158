--------------------------- MODULE DocumentViewer ---------------------------
(***************************************************************************)
(* The source document on the verification screen                          *)
(* (apps/web/components/verify/document-viewer.tsx, pdf-page.tsx): the     *)
(* fileUrl prop changes whenever the screen loads the invoice again (it is *)
(* signed per request, for the one file of the invoice); the file is       *)
(* fetched and each of its pages drawn into a canvas asynchronously; the   *)
(* boxes of the fields are laid over a page once it is drawn.              *)
(*                                                                         *)
(* Scrolling, zoom, hover and the animations of a box are left out.        *)
(***************************************************************************)
EXTENDS Naturals

CONSTANTS
  Urls,    \* 1..n, the successive values of fileUrl
  Files    \* what the file may be: the number of pages of a PDF, or 0 for an image

VARIABLES
  numPages,       \* what the file is
  fileUrl,        \* the prop
  documents,      \* loadPdfDocument(url): "none", "loading", "loaded", "failed"
  pdfDoc,         \* pdfDoc: the url of the document that is shown, or 0
  renderedPages,  \* renderedPages
  imageLoaded,    \* imageLoaded
  task,           \* the effect of each PdfPage: "none", "getPage", "rendering", "done", "failed"
  canvas          \* the document each page's canvas has the size of, or 0

vars == <<numPages, fileUrl, documents, pdfDoc, renderedPages, imageLoaded, task, canvas>>

\* The page numbers; the container of an image is registered as page 1.
PageNumbers == 1..(IF numPages = 0 THEN 1 ELSE numPages)

\* isPdfPath: the query of the url does not matter.
isPdf == numPages > 0

\* The PdfPage elements there are.
MountedPages == IF isPdf /\ pdfDoc # 0 THEN PageNumbers ELSE {}

\* The pages with the boxes of their fields on them.
Overlaid ==
  IF isPdf THEN renderedPages \cap MountedPages ELSE IF imageLoaded THEN PageNumbers ELSE {}

TypeOK ==
  /\ numPages \in Files
  /\ fileUrl \in Urls
  /\ documents \in [Urls -> {"none", "loading", "loaded", "failed"}]
  /\ pdfDoc \in Urls \cup {0}
  /\ renderedPages \subseteq PageNumbers
  /\ imageLoaded \in BOOLEAN
  /\ task \in [PageNumbers -> {"none", "getPage", "rendering", "done", "failed"}]
  /\ canvas \in [PageNumbers -> Urls \cup {0}]

\* Before the viewer is mounted, and mounted with the first url and its effect run.
Start(mounted) ==
  /\ numPages \in IF mounted THEN Files ELSE {CHOOSE n \in Files : TRUE}
  /\ fileUrl = 1
  /\ documents = [u \in Urls |-> IF mounted /\ u = 1 /\ isPdf THEN "loading" ELSE "none"]
  /\ pdfDoc = 0 /\ renderedPages = {} /\ imageLoaded = FALSE
  /\ task = [p \in PageNumbers |-> "none"]
  /\ canvas = [p \in PageNumbers |-> 0]

Init == Start(TRUE)

-----------------------------------------------------------------------------

\* A new fileUrl and the effect on it.  The pages of the old document stay, and go on
\* being drawn, until the new one is there; an image is its img with another src.
SetFileUrl ==
  /\ fileUrl + 1 \in Urls
  /\ fileUrl' = fileUrl + 1
  /\ renderedPages' = {}
  /\ imageLoaded' = FALSE
  /\ documents' = IF isPdf THEN [documents EXCEPT ![fileUrl + 1] = "loading"] ELSE documents
  /\ UNCHANGED <<numPages, pdfDoc, task, canvas>>

\* Mutant: the effect does not mark its promise as cancelled.
Mutant_Wanted(url) == TRUE

\* The promise of loadPdfDocument has not been cancelled by a later effect.
Wanted(url) == url = fileUrl

\* setPdfDoc: every PdfPage runs its effect anew; its canvas is the same element and
\* keeps its size.
DocumentLoads(url) ==
  /\ documents[url] = "loading"
  /\ documents' = [documents EXCEPT ![url] = "loaded"]
  /\ IF Wanted(url)
       THEN pdfDoc' = url /\ task' = [p \in PageNumbers |-> "getPage"]
       ELSE UNCHANGED <<pdfDoc, task>>
  /\ UNCHANGED <<numPages, fileUrl, renderedPages, imageLoaded, canvas>>

\* Nothing catches the rejection.
DocumentFails(url) ==
  /\ documents[url] = "loading"
  /\ documents' = [documents EXCEPT ![url] = "failed"]
  /\ UNCHANGED <<numPages, fileUrl, pdfDoc, renderedPages, imageLoaded, task, canvas>>

\* doc.getPage answers: the canvas gets its size and page.render starts.
SizeCanvas(p) ==
  /\ task[p] = "getPage"
  /\ task' = [task EXCEPT ![p] = "rendering"]
  /\ canvas' = [canvas EXCEPT ![p] = pdfDoc]
  /\ UNCHANGED <<numPages, fileUrl, documents, pdfDoc, renderedPages, imageLoaded>>

\* The drawing is done: onRendered, that is markPageRendered, whatever the url is now.
PageRendered(p) ==
  /\ task[p] = "rendering"
  /\ task' = [task EXCEPT ![p] = "done"]
  /\ renderedPages' = renderedPages \cup {p}
  /\ UNCHANGED <<numPages, fileUrl, documents, pdfDoc, imageLoaded, canvas>>

\* getPage or page.render rejects, and nothing catches it: the canvas keeps what it has,
\* and onRendered is not called.
DrawingFails(p) ==
  /\ task[p] \in {"getPage", "rendering"}
  /\ task' = [task EXCEPT ![p] = "failed"]
  /\ UNCHANGED <<numPages, fileUrl, documents, pdfDoc, renderedPages, imageLoaded, canvas>>

\* onLoad of the img.
ImageLoads ==
  /\ ~isPdf /\ ~imageLoaded
  /\ imageLoaded' = TRUE
  /\ UNCHANGED <<numPages, fileUrl, documents, pdfDoc, renderedPages, task, canvas>>

Next ==
  \/ SetFileUrl \/ ImageLoads
  \/ \E u \in Urls : DocumentLoads(u) \/ DocumentFails(u)
  \/ \E p \in PageNumbers : SizeCanvas(p) \/ PageRendered(p) \/ DrawingFails(p)

\* Fetches and drawings end, well or badly.  An image may never load; no url need come.
Proceed ==
  \/ \E u \in Urls : DocumentLoads(u) \/ DocumentFails(u)
  \/ \E p \in PageNumbers : SizeCanvas(p) \/ PageRendered(p) \/ DrawingFails(p)

Fairness == WF_vars(Proceed)

\* What the viewer waits for: every page of a loaded document drawn with its boxes, or
\* given up.
Waiting ==
  IF /\ documents[fileUrl] = "loaded"
     /\ \E p \in PageNumbers : p \notin Overlaid /\ task[p] # "failed"
    THEN {"document"} ELSE {}

-----------------------------------------------------------------------------
(***************************************************************************)
(* Properties                                                              *)
(***************************************************************************)

\* The document of the current url, once loaded, is the one shown: a slower fetch of an
\* earlier, perhaps expired url never comes back over it.  Every page whose canvas is of
\* an earlier one is being drawn anew.  And boxes are laid only on a canvas that has been
\* given a size (pdf-page.tsx:11-17), though pages of two documents share their elements.
ShowsTheDocument ==
  /\ documents[fileUrl] = "loaded" => pdfDoc = fileUrl
  /\ \A p \in PageNumbers : task[p] = "done" => canvas[p] = pdfDoc
  /\ isPdf => \A p \in Overlaid : canvas[p] # 0
=============================================================================
