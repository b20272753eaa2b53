------------------------------ MODULE FileKey -------------------------------
(***************************************************************************)
(* The name of an uploaded file on its way to the object's key, the URL in *)
(* the row (StorageService.UploadPdfAsync), the link of the pages          *)
(* (getFileUrl), and back to a key (MemoiresController.GetFile): a chain   *)
(* of escapings and unescapings that ought to be the identity.             *)
(*                                                                         *)
(* A text is a sequence of tokens.  A token is a character and the number  *)
(* of times it is escaped: [char |-> "/", depth |-> 1] is the text "%2F",  *)
(* with depth 2 "%252F", and a letter of depth 1 is a letter that somebody *)
(* has written as an escape.  "%" is the character that begins no escape.  *)
(***************************************************************************)
EXTENDS Integers, Sequences

CONSTANTS
  Letters,  \* characters that are never escaped
  Guids     \* what Guid.NewGuid() gives, a character each

ASSUME LettersAssumption ==
  /\ Guids \subseteq Letters /\ "_" \in Letters /\ "d" \in Letters
  /\ Letters \cap {"/", " ", "%", "&", "+"} = {}

\* "&" stands for all that ends a parameter of a query.
Reserved == {"/", " ", "%", "&", "+"}
Token    == [char : Letters \cup Reserved, depth : Nat]
Texts    == Seq(Token)
Bare(c)  == [char |-> c, depth |-> 0]

EscapeToken(t) == IF t.depth > 0 \/ t.char \in Reserved
                  THEN [t EXCEPT !.depth = @ + 1] ELSE t

UnescapeToken(t) == IF t.depth > 0 THEN [t EXCEPT !.depth = @ - 1] ELSE t

\* Uri.EscapeDataString; URLSearchParams, written out, differs in the characters
\* that it escapes, which are read back as what they were.
EscapeDataString(s) == [i \in 1 .. Len(s) |-> EscapeToken(s[i])]

\* Uri.UnescapeDataString and decodeURIComponent.
UnescapeDataString(s) == [i \in 1 .. Len(s) |-> UnescapeToken(s[i])]

\* The value of a parameter, as ASP.NET and URLSearchParams read it: up to the
\* next separator, "+" being a space.
Parameter(s) ==
  LET end == CHOOSE n \in 0 .. Len(s) :
               /\ \A i \in 1 .. n : s[i] # Bare("&")
               /\ n < Len(s) => s[n + 1] = Bare("&")
  IN  [i \in 1 .. end |-> IF s[i] = Bare("+") THEN Bare(" ")
                                              ELSE UnescapeToken(s[i])]

-----------------------------------------------------------------------------
(* The storage service and the links.                                      *)

\* Path.GetFileName: what follows the last separator.
GetFileName(s) ==
  LET cut == CHOOSE n \in 0 .. Len(s) :
               /\ n > 0 => s[n] = Bare("/")
               /\ \A i \in n + 1 .. Len(s) : s[i] # Bare("/")
  IN  SubSeq(s, cut + 1, Len(s))

DefaultName == <<Bare("d")>>  \* "document.pdf"

SanitizeFileName(s) ==
  LET name == GetFileName(s) IN
  IF \A i \in 1 .. Len(name) : name[i] = Bare(" ")
  THEN DefaultName
  ELSE [i \in 1 .. Len(name) |-> IF name[i] = Bare(" ") THEN Bare("_") ELSE name[i]]

\* Variant: the object is named after the file alone.
ObjectNameAlone(guid, fileName) == SanitizeFileName(fileName)

\* "documents/{guid}/{name}", whose first part is left out.
ObjectName(guid, fileName) ==
  <<Bare(guid), Bare("/")>> \o SanitizeFileName(fileName)

\* Variant: the key is put into the URL as it is.
FileUrlRaw(key) == key

\* The parameter "key" of the URL that UploadPdfAsync returns.
FileUrl(key) == EscapeDataString(key)

\* Setting the parameter "inline" reads the query and writes it out again.
GetFileUrl(url) == EscapeDataString(Parameter(url))

\* The key that GetFile asks the bucket for: the framework reads the parameter,
\* and the handler unescapes it once more.
GetFile(url) == UnescapeDataString(Parameter(url))

\* Variant: the proposed name is the whole key.
WholeKey(url) == UnescapeDataString(Parameter(url))

\* getFileName, the name that the pages propose for the download, read in the
\* same way; decodeURIComponent throws on a "%" that begins no escape.
FileName(url) ==
  LET key  == Parameter(url)
      name == GetFileName(UnescapeDataString(key)) IN
  IF name = <<>> \/ \E i \in 1 .. Len(key) : key[i] = Bare("%")
  THEN DefaultName ELSE name

Link(guid, fileName) == GetFileUrl(FileUrl(ObjectName(guid, fileName)))

-----------------------------------------------------------------------------
(* Properties.                                                             *)

\* A file that was uploaded under a name without escapes is found under the link
\* of its mémoire, whatever reserved characters, spaces, separators or lone
\* percent signs the name has; a name with an escape is looked for elsewhere.
Unescaped(s) == \A i \in 1 .. Len(s) : s[i].depth = 0

LinkFinds(guid, s) ==
  Unescaped(s) => GetFile(Link(guid, s)) = ObjectName(guid, s)

\* No link leads to the file of another upload, escapes or not.
LinkFindsNoOther(g, s, h, t) ==
  g # h => GetFile(Link(g, s)) # ObjectName(h, t)

\* The name proposed for a download is that of the object, unless it has a
\* percent sign.
NameKept(guid, s) ==
  Unescaped(s) /\ (\A i \in 1 .. Len(s) : s[i].char # "%")
    => FileName(FileUrl(ObjectName(guid, s))) = SanitizeFileName(s)
=============================================================================
