---------------------------- MODULE StudentLinks ----------------------------
(***************************************************************************)
(* The links of the rows of "Mes mémoires": the page of StudentPage with   *)
(* the keys of FileKey.                                                    *)
(***************************************************************************)
EXTENDS StudentPage, FileKey

CONSTANTS
  Names,      \* names that files may have been uploaded under
  PairedNames \* those of them that are compared with each other

ASSUME NamesAssumption == Names \subseteq Texts /\ PairedNames \subseteq Texts

Finds     == \A g \in Guids, s \in Names : LinkFinds(g, s)
FindsOnly == \A g, h \in Guids : \A s, t \in PairedNames : LinkFindsNoOther(g, s, h, t)
Kept      == \A g \in Guids, s \in Names : NameKept(g, s)

\* The link of a row opens the file that was uploaded with it, if the file's
\* name holds no escape (UploadPdfAsync, getFileUrl, GetFile: the key is escaped
\* twice and unescaped three times).
LinksFind == \A row \in rows : Finds

\* Whatever the names, the link of a row does not open the file of another
\* upload.
LinksFindNoOther == \A row \in rows : FindsOnly

\* For a row's download the object's name is proposed (getFileName), unless it
\* has a percent sign.
NamesKept == \A row \in rows : Kept
=============================================================================
