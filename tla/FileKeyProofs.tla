--------------------------- MODULE FileKeyProofs ----------------------------
(***************************************************************************)
(* Proofs about FileKey and StudentLinks, for names of any length and any  *)
(* characters, escapes of any depth included.                              *)
(***************************************************************************)
EXTENDS StudentLinks, SequenceTheorems, WellFoundedInduction, TLAPS

-----------------------------------------------------------------------------
(* Escaping and unescaping.                                                *)

LEMMA Listed ==
  ASSUME NEW S, NEW n \in Nat, NEW f \in [1 .. n -> S]
  PROVE  f \in Seq(S) /\ Len(f) = n
  OBVIOUS

LEMMA TokenRoundTrip ==
  ASSUME NEW t \in Token
  PROVE  /\ EscapeToken(t) \in Token
         /\ UnescapeToken(t) \in Token
         /\ UnescapeToken(EscapeToken(t)) = t
         /\ EscapeToken(t) \notin {Bare("&"), Bare("+")}
  <1> DEFINE c == t.char
             n == t.depth
             T(d) == [char |-> c, depth |-> d]
  <1>1. /\ c \in Letters \cup Reserved /\ n \in Nat /\ t = T(n)
        /\ \A d \in Nat : T(d) \in Token /\ T(d).char = c /\ T(d).depth = d
    BY DEF Token
  <1>2. \A d, k : [T(d) EXCEPT !.depth = k] = T(k)
    OBVIOUS
  <1>3. \A d \in Nat \ {0} : UnescapeToken(T(d)) = T(d - 1)
    BY <1>1, <1>2 DEF UnescapeToken
  <1>4. /\ \A x : T(n + 1) # Bare(x)
        /\ c \notin Reserved => t # Bare("&") /\ t # Bare("+")
    <2>1. \A x : Bare(x).depth = 0 /\ Bare(x).char = x
      BY DEF Bare
    <2>2. T(n + 1).depth = n + 1 /\ n + 1 # 0
      BY <1>1
    <2>3. "&" \in Reserved /\ "+" \in Reserved
      BY DEF Reserved
    <2> HIDE DEF T
    <2> QED BY <2>1, <2>2, <2>3
  <1> HIDE DEF T
  <1>5. CASE n > 0 \/ c \in Reserved
    <2>1. EscapeToken(t) = T(n + 1)
      BY <1>1, <1>2, <1>5 DEF EscapeToken
    <2>2. UnescapeToken(T(n + 1)) = T(n) /\ n + 1 \in Nat
      BY <1>1, <1>3
    <2>3. UnescapeToken(t) \in Token
      <3>1. n > 0 => n - 1 \in Nat /\ UnescapeToken(t) = T(n - 1)
        BY <1>1, <1>3
      <3>2. n = 0 => UnescapeToken(t) = t
        BY <1>1 DEF UnescapeToken
      <3> QED BY <1>1, <3>1, <3>2
    <2> QED BY <1>1, <1>4, <2>1, <2>2, <2>3
  <1>6. CASE ~(n > 0 \/ c \in Reserved)
    BY <1>1, <1>4, <1>6 DEF EscapeToken, UnescapeToken
  <1> QED BY <1>5, <1>6

LEMMA BareIsToken ==
  ASSUME NEW c \in Letters \cup Reserved
  PROVE  /\ Bare(c) \in Token /\ UnescapeToken(Bare(c)) = Bare(c)
         /\ \A d : Bare(c) = Bare(d) => c = d
  BY DEF Bare, Token, UnescapeToken

LEMMA Escaped ==
  ASSUME NEW s \in Texts
  PROVE  /\ EscapeDataString(s) \in Texts
         /\ Len(EscapeDataString(s)) = Len(s)
         /\ \A i \in 1 .. Len(s) :
              EscapeDataString(s)[i] \notin {Bare("&"), Bare("+")}
         /\ \A i \in 1 .. Len(s) : UnescapeToken(EscapeDataString(s)[i]) = s[i]
  <1>1. Len(s) \in Nat /\ s \in [1 .. Len(s) -> Token]
    BY LenProperties DEF Texts
  <1>2. EscapeDataString(s) \in [1 .. Len(s) -> Token]
    BY <1>1, TokenRoundTrip DEF EscapeDataString
  <1>3. EscapeDataString(s) \in Texts /\ Len(EscapeDataString(s)) = Len(s)
    BY <1>1, <1>2, Listed DEF Texts
  <1> QED BY <1>1, <1>3, TokenRoundTrip DEF EscapeDataString

\* A parameter that was escaped is read back.
LEMMA ParameterRead ==
  ASSUME NEW s \in Texts PROVE Parameter(EscapeDataString(s)) = s
  <1> DEFINE e == EscapeDataString(s)
             End(n) == /\ \A i \in 1 .. n : e[i] # Bare("&")
                       /\ n < Len(e) => e[n + 1] = Bare("&")
  <1>1. Len(s) \in Nat /\ s \in [1 .. Len(s) -> Token] /\ Len(e) = Len(s)
    BY LenProperties, Escaped DEF Texts
  <1>2. \A i \in 1 .. Len(s) : /\ e[i] # Bare("&") /\ e[i] # Bare("+")
                               /\ UnescapeToken(e[i]) = s[i]
    BY Escaped
  <1> HIDE DEF e
  <1>3. \A n \in 0 .. Len(e) : End(n) => n = Len(s)
    <2>1. Len(s) \in Nat /\ Len(e) = Len(s)
      BY <1>1
    <2>2. ASSUME NEW n \in 0 .. Len(s), n # Len(s) PROVE ~End(n)
      <3>1. n < Len(s) /\ n + 1 \in 1 .. Len(s)
        BY <2>1, <2>2
      <3> QED BY <1>2, <2>1, <3>1
    <2> QED BY <2>1, <2>2
  <1>4. (CHOOSE n \in 0 .. Len(e) : End(n)) = Len(s)
    <2>1. End(Len(s)) /\ Len(s) \in 0 .. Len(e)
      BY <1>1, <1>2
    <2> HIDE DEF End
    <2> QED BY <1>3, <2>1
  <1>5. Parameter(e) = [i \in 1 .. Len(s) |-> IF e[i] = Bare("+") THEN Bare(" ")
                                              ELSE UnescapeToken(e[i])]
    BY <1>4 DEF Parameter
  <1>6. Parameter(e) = [i \in 1 .. Len(s) |-> s[i]]
    BY <1>2, <1>5
  <1> QED BY <1>1, <1>6 DEF e

-----------------------------------------------------------------------------
(* The names of objects.                                                   *)

Less == {p \in Nat \X Nat : p[1] < p[2]}

LEMMA Least ==
  ASSUME NEW T \in SUBSET Nat, T # {}
  PROVE  \E x \in T : \A y \in T : x <= y
  <1>1. IsWellFoundedOn(Less, Nat)
    BY NatLessThanWellFounded DEF OpToRel, Less
  <1>2. PICK x \in T : \A y \in T : ~ (<<y, x>> \in Less)
    BY <1>1, WFMin
  <1>3. \A y \in Nat : <<y, x>> \in Nat \X Nat /\ <<y, x>>[1] = y /\ <<y, x>>[2] = x
    BY <1>2
  <1>4. \A y \in T : ~ (y < x)
    BY <1>2, <1>3 DEF Less
  <1> QED BY <1>2, <1>4

\* Every text has a last part.
LEMMA GetFileNameIs ==
  ASSUME NEW s \in Texts
  PROVE  \E cut \in 0 .. Len(s) : /\ cut > 0 => s[cut] = Bare("/")
                                  /\ \A i \in cut + 1 .. Len(s) : s[i] # Bare("/")
                                  /\ GetFileName(s) = SubSeq(s, cut + 1, Len(s))
  <1> DEFINE Cut(n) == /\ n > 0 => s[n] = Bare("/")
                       /\ \A i \in n + 1 .. Len(s) : s[i] # Bare("/")
             T == {n \in 0 .. Len(s) : \A i \in n + 1 .. Len(s) : s[i] # Bare("/")}
  <1>1. Len(s) \in Nat
    BY LenProperties DEF Texts
  <1>2. T \in SUBSET Nat /\ Len(s) \in T
    BY <1>1
  <1>3. PICK x \in T : \A y \in T : x <= y
    BY <1>2, Least
  <1>4. x \in 0 .. Len(s) /\ \A i \in x + 1 .. Len(s) : s[i] # Bare("/")
    BY <1>3
  <1>5. ASSUME x > 0, s[x] # Bare("/") PROVE FALSE
    <2>1. x - 1 \in 0 .. Len(s) /\ \A i \in x .. Len(s) : s[i] # Bare("/")
      BY <1>1, <1>4, <1>5
    <2>2. x - 1 \in T
      BY <1>1, <1>4, <2>1
    <2>3. x <= x - 1
      BY <1>3, <2>2
    <2> QED BY <1>1, <1>4, <2>3
  <1>6. Cut(x)
    BY <1>4, <1>5
  <1>7. Cut(CHOOSE n \in 0 .. Len(s) : Cut(n)) /\ (CHOOSE n \in 0 .. Len(s) : Cut(n)) \in 0 .. Len(s)
    BY <1>4, <1>6
  <1> QED BY <1>7 DEF GetFileName

\* The name of an object is not empty and has neither spaces nor separators, nor
\* escapes or percent signs that the file's name had not.
LEMMA Sanitized ==
  ASSUME NEW s \in Texts
  PROVE  /\ SanitizeFileName(s) \in Texts
         /\ \A i \in 1 .. Len(SanitizeFileName(s)) :
              SanitizeFileName(s)[i] \notin {Bare(" "), Bare("/")}
         /\ Unescaped(s) => Unescaped(SanitizeFileName(s))
         /\ (\A i \in 1 .. Len(s) : s[i].char # "%") =>
              \A i \in 1 .. Len(SanitizeFileName(s)) :
                SanitizeFileName(s)[i] # Bare("%")
         /\ Len(SanitizeFileName(s)) \in Nat \ {0}
  <1> DEFINE name == GetFileName(s)
             new  == [i \in 1 .. Len(name) |->
                        IF name[i] = Bare(" ") THEN Bare("_") ELSE name[i]]
  <1>1. Len(s) \in Nat /\ \A i \in 1 .. Len(s) : s[i] \in Token
    BY LenProperties, ElementOfSeq DEF Texts
  <1>2. PICK cut \in 0 .. Len(s) : /\ \A i \in cut + 1 .. Len(s) : s[i] # Bare("/")
                                   /\ name = SubSeq(s, cut + 1, Len(s))
    BY GetFileNameIs
  <1>3. /\ Len(name) = Len(s) - cut /\ Len(name) \in Nat
        /\ \A i \in 1 .. Len(name) : name[i] = s[cut + i]
    BY <1>1, <1>2, SubSeqProperties
  <1>4. \A i \in 1 .. Len(name) : name[i] \in Token /\ name[i] # Bare("/")
    BY <1>1, <1>2, <1>3
  <1>5. Unescaped(s) => \A i \in 1 .. Len(name) : name[i].depth = 0
    BY <1>1, <1>2, <1>3 DEF Unescaped
  <1>6. /\ Bare("_") \in Token /\ Bare("d") \in Token
        /\ Bare("_") \notin {Bare(" "), Bare("/")}
        /\ Bare("d") \notin {Bare(" "), Bare("/")}
        /\ Bare("_").depth = 0 /\ Bare("d").depth = 0
        /\ Bare("%") \notin {Bare("_"), Bare("d")} /\ Bare("%").char = "%"
    BY LettersAssumption, BareIsToken DEF LettersAssumption, Bare
  <1>9. (\A i \in 1 .. Len(s) : s[i].char # "%") =>
          \A i \in 1 .. Len(name) : name[i] # Bare("%")
    <2> SUFFICES ASSUME \A i \in 1 .. Len(s) : s[i].char # "%",
                        NEW i \in 1 .. Len(name), name[i] = Bare("%")
                 PROVE  FALSE
      OBVIOUS
    <2>1. cut + i \in 1 .. Len(s)
      BY <1>1, <1>3
    <2>2. s[cut + i] = Bare("%")
      BY <1>3
    <2> QED BY <1>6, <2>1, <2>2
  <1> HIDE DEF name
  <1>7. CASE SanitizeFileName(s) = DefaultName
    <2>1. DefaultName \in Texts /\ Len(DefaultName) = 1 /\ DefaultName[1] = Bare("d")
      <3>1. \A t \in Token : <<t>> \in Seq(Token) /\ Len(<<t>>) = 1 /\ <<t>>[1] = t
        OBVIOUS
      <3> QED BY <1>6, <3>1 DEF DefaultName, Texts
    <2>2. \A i \in 1 .. Len(DefaultName) : DefaultName[i] = Bare("d")
      BY <2>1
    <2>3. Bare("d") \notin {Bare(" "), Bare("/"), Bare("%")} /\ Bare("d").depth = 0
      BY <1>6
    <2>4. Len(DefaultName) \in Nat \ {0}
      BY <2>1
    <2> HIDE DEF new
    <2> QED BY <1>7, <2>1, <2>2, <2>3, <2>4 DEF Unescaped
  <1>8. CASE /\ SanitizeFileName(s) = new
             /\ ~ \A i \in 1 .. Len(name) : name[i] = Bare(" ")
    <2>1. new \in [1 .. Len(name) -> Token]
      BY <1>3, <1>4, <1>6
    <2>2. new \in Texts /\ Len(new) = Len(name)
      <3> HIDE DEF new
      <3> QED BY <1>3, <2>1, Listed DEF Texts
    <2>3. \A i \in 1 .. Len(name) : new[i] \in {Bare("_"), name[i]} /\ new[i] # Bare(" ")
      BY <1>6
    <2> HIDE DEF new
    <2>4. Len(name) # 0
      <3>1. PICK i \in 1 .. Len(name) : name[i] # Bare(" ")
        BY <1>8
      <3>2. Len(name) \in Nat
        BY <1>3
      <3>3. 1 <= i /\ i <= Len(name)
        BY <3>2
      <3> QED BY <3>2, <3>3
    <2> QED BY <1>3, <1>4, <1>5, <1>6, <1>8, <1>9, <2>2, <2>3, <2>4 DEF Unescaped
  <1> QED BY <1>7, <1>8 DEF SanitizeFileName, name

LEMMA ObjectNamed ==
  ASSUME NEW g \in Guids, NEW s \in Texts
  PROVE  /\ ObjectName(g, s) \in Texts
         /\ Len(ObjectName(g, s)) = Len(SanitizeFileName(s)) + 2
         /\ ObjectName(g, s)[1] = Bare(g) /\ ObjectName(g, s)[2] = Bare("/")
         /\ \A i \in 1 .. Len(SanitizeFileName(s)) :
              ObjectName(g, s)[i + 2] = SanitizeFileName(s)[i]
         /\ Unescaped(s) => Unescaped(ObjectName(g, s))
  <1> DEFINE name   == SanitizeFileName(s)
             folder == <<Bare(g), Bare("/")>>
  <1>1. Bare(g) \in Token /\ Bare("/") \in Token /\ Bare(g).depth = 0 /\ Bare("/").depth = 0
    BY LettersAssumption, BareIsToken DEF LettersAssumption, Reserved, Bare
  <1>2. folder \in Seq(Token) /\ Len(folder) = 2 /\ folder[1] = Bare(g) /\ folder[2] = Bare("/")
    BY <1>1
  <1>3. name \in Seq(Token) /\ Len(name) \in Nat
    BY Sanitized, LenProperties DEF Texts
  <1>4. Unescaped(s) => Unescaped(name)
    BY Sanitized
  <1>5. ObjectName(g, s) = folder \o name
    BY DEF ObjectName
  <1> HIDE DEF folder, name
  <1>6. /\ folder \o name \in Seq(Token)
        /\ Len(folder \o name) = Len(folder) + Len(name)
        /\ \A i \in 1 .. Len(folder) + Len(name) :
             (folder \o name)[i] = IF i <= Len(folder) THEN folder[i]
                                                       ELSE name[i - Len(folder)]
    BY <1>2, <1>3, ConcatProperties
  <1>7. (folder \o name)[1] = Bare(g) /\ (folder \o name)[2] = Bare("/")
    BY <1>2, <1>3, <1>6
  <1>9. \A i \in 1 .. Len(name) : (folder \o name)[i + 2] = name[i]
    BY <1>2, <1>3, <1>6
  <1>8. ASSUME Unescaped(s) PROVE Unescaped(folder \o name)
    <2>1. \A i \in 1 .. Len(name) : name[i].depth = 0
      BY <1>4, <1>8 DEF Unescaped
    <2>2. ASSUME NEW i \in 1 .. Len(folder \o name) PROVE (folder \o name)[i].depth = 0
      <3>1. CASE i <= 2
        BY <1>1, <1>2, <1>3, <1>6, <3>1
      <3>2. CASE i > 2
        BY <1>2, <1>3, <1>6, <2>1, <3>2
      <3> QED BY <1>2, <1>3, <1>6, <3>1, <3>2
    <2> QED BY <2>2 DEF Unescaped
  <1> QED BY <1>2, <1>5, <1>6, <1>7, <1>8, <1>9 DEF Texts, name

-----------------------------------------------------------------------------
(* The links.                                                              *)

\* What GetFile looks for is the key, unescaped once more than it was escaped.
LEMMA Fetched ==
  ASSUME NEW g \in Guids, NEW s \in Texts
  PROVE  GetFile(Link(g, s)) = UnescapeDataString(ObjectName(g, s))
  <1>1. GetFileUrl(FileUrl(ObjectName(g, s))) = EscapeDataString(ObjectName(g, s))
    BY ObjectNamed, ParameterRead DEF FileUrl, GetFileUrl
  <1> QED BY <1>1, ObjectNamed, ParameterRead DEF Link, GetFile

\* Without escapes there is nothing to unescape.
LEMMA KeyUnescaped ==
  ASSUME NEW g \in Guids, NEW s \in Texts, Unescaped(s)
  PROVE  UnescapeDataString(ObjectName(g, s)) = ObjectName(g, s)
  <1> DEFINE key == ObjectName(g, s)
  <1>1. key \in [1 .. Len(key) -> Token] /\ Len(key) \in Nat
    BY ObjectNamed, LenProperties DEF Texts
  <1>2. \A i \in 1 .. Len(key) : key[i].depth = 0
    BY ObjectNamed DEF Unescaped
  <1> HIDE DEF key
  <1>3. UnescapeDataString(key) = [i \in 1 .. Len(key) |-> key[i]]
    BY <1>1, <1>2 DEF UnescapeDataString, UnescapeToken
  <1> QED BY <1>1, <1>3 DEF key

\* The name of an object is what follows the folder in its key.
LEMMA NameOfKey ==
  ASSUME NEW g \in Guids, NEW s \in Texts
  PROVE  GetFileName(ObjectName(g, s)) = SanitizeFileName(s)
  <1> DEFINE key  == ObjectName(g, s)
             name == SanitizeFileName(s)
  <1>1. /\ key \in Texts /\ Len(key) = Len(name) + 2 /\ Len(name) \in Nat
        /\ name \in Seq(Token) /\ key[2] = Bare("/")
        /\ \A i \in 1 .. Len(name) : key[i + 2] = name[i] /\ name[i] # Bare("/")
        /\ \A i \in 1 .. Len(key) : key[i] \in Token
    <2>1. /\ key \in Texts /\ Len(key) = Len(name) + 2 /\ key[2] = Bare("/")
          /\ \A i \in 1 .. Len(name) : key[i + 2] = name[i]
      BY ObjectNamed
    <2>2. /\ name \in Seq(Token) /\ Len(name) \in Nat
          /\ \A i \in 1 .. Len(name) : name[i] # Bare("/")
      BY Sanitized DEF Texts
    <2> HIDE DEF key, name
    <2>3. \A i \in 1 .. Len(key) : key[i] \in Token
      BY <2>1, ElementOfSeq DEF Texts
    <2> QED BY <2>1, <2>2, <2>3
  <1> HIDE DEF key, name
  <1>2. PICK cut \in 0 .. Len(key) : /\ cut > 0 => key[cut] = Bare("/")
                                     /\ \A i \in cut + 1 .. Len(key) : key[i] # Bare("/")
                                     /\ GetFileName(key) = SubSeq(key, cut + 1, Len(key))
    BY <1>1, GetFileNameIs
  <1>3. cut = 2
    <2>1. ASSUME cut < 2 PROVE FALSE
      <3>1. 2 \in cut + 1 .. Len(key)
        BY <1>1, <2>1
      <3> QED BY <1>1, <1>2, <3>1
    <2>2. ASSUME cut > 2 PROVE FALSE
      <3>1. cut - 2 \in 1 .. Len(name) /\ (cut - 2) + 2 = cut
        BY <1>1, <2>2
      <3>2. key[cut] # Bare("/")
        BY <1>1, <3>1
      <3> QED BY <1>2, <2>2, <3>2
    <2> QED BY <1>1, <2>1, <2>2
  <1>4. \A i \in 3 .. Len(key) : key[i] \in Token
    BY <1>1
  <1>5. /\ SubSeq(key, 3, Len(key)) \in Seq(Token)
        /\ Len(SubSeq(key, 3, Len(key))) = Len(name)
        /\ \A i \in 1 .. Len(name) : SubSeq(key, 3, Len(key))[i] = key[i + 2]
    BY <1>1, <1>4, SubSeqProperties
  <1>6. SubSeq(key, 3, Len(key)) = name
    BY <1>1, <1>5, SeqEqual
  <1> QED BY <1>2, <1>3, <1>6 DEF key, name

\* A file whose name holds no escape is found under its link.
THEOREM LinksFindHolds ==
  ASSUME NEW g \in Guids, NEW s \in Texts PROVE LinkFinds(g, s)
  BY Fetched, KeyUnescaped DEF LinkFinds

\* The name proposed for a download is the object's.
THEOREM NamesKeptHolds ==
  ASSUME NEW g \in Guids, NEW s \in Texts PROVE NameKept(g, s)
  <1> SUFFICES ASSUME Unescaped(s), \A i \in 1 .. Len(s) : s[i].char # "%"
               PROVE  FileName(FileUrl(ObjectName(g, s))) = SanitizeFileName(s)
    BY DEF NameKept
  <1> DEFINE key  == ObjectName(g, s)
             name == SanitizeFileName(s)
  <1>1. Parameter(FileUrl(key)) = key
    BY ObjectNamed, ParameterRead DEF FileUrl
  <1>2. GetFileName(UnescapeDataString(key)) = name
    BY KeyUnescaped, NameOfKey
  <1>3. name # <<>>
    BY Sanitized
  <1>4. \A i \in 1 .. Len(key) : key[i] # Bare("%")
    <2>1. Len(key) = Len(name) + 2 /\ Len(name) \in Nat
      BY ObjectNamed, Sanitized
    <2>2. key[1] # Bare("%") /\ key[2] # Bare("%")
      <3>1. g # "%" /\ g \in Letters
        BY LettersAssumption DEF LettersAssumption
      <3>2. Bare(g) # Bare("%") /\ Bare("/") # Bare("%")
        BY <3>1 DEF Bare
      <3> QED BY <3>2, ObjectNamed
    <2>3. \A i \in 1 .. Len(name) : key[i + 2] = name[i] /\ name[i] # Bare("%")
      BY ObjectNamed, Sanitized
    <2> HIDE DEF key, name
    <2>4. ASSUME NEW i \in 1 .. Len(key), i > 2 PROVE key[i] # Bare("%")
      <3>1. i - 2 \in 1 .. Len(name) /\ (i - 2) + 2 = i
        BY <2>1, <2>4
      <3> QED BY <2>3, <3>1
    <2>5. \A i \in 1 .. Len(key) : i = 1 \/ i = 2 \/ i > 2
      BY <2>1
    <2> QED BY <2>2, <2>4, <2>5
  <1> HIDE DEF key, name
  <1>5. FileName(FileUrl(key)) = name
    BY <1>1, <1>2, <1>3, <1>4 DEF FileName
  <1> QED BY <1>5 DEF key, name

\* No link leads to the file of another upload, whatever the two names.
THEOREM LinksFindNoOtherHolds ==
  ASSUME NEW g \in Guids, NEW s \in Texts, NEW h \in Guids, NEW t \in Texts
  PROVE  LinkFindsNoOther(g, s, h, t)
  <1>1. Len(ObjectName(g, s)) \in Nat /\ Len(ObjectName(g, s)) >= 1
    <2>1. Len(SanitizeFileName(s)) \in Nat
      BY Sanitized, LenProperties DEF Texts
    <2> QED BY <2>1, ObjectNamed
  <1>2. g \in Letters /\ h \in Letters
    BY LettersAssumption DEF LettersAssumption
  <1>3. UnescapeDataString(ObjectName(g, s))[1] = UnescapeToken(Bare(g))
    BY <1>1, ObjectNamed DEF UnescapeDataString
  <1>4. UnescapeToken(Bare(g)) = Bare(g) /\ (Bare(g) = Bare(h) => g = h)
    BY <1>2, BareIsToken
  <1>5. ObjectName(h, t)[1] = Bare(h)
    BY ObjectNamed
  <1> QED BY <1>3, <1>4, <1>5, Fetched DEF LinkFindsNoOther
-----------------------------------------------------------------------------
(* The rows of the page.                                                   *)

\* The link of each row opens its file, whatever names without escapes there are.
THEOREM RowLinksFind == Spec => []LinksFind
  <1>1. LinksFind
    BY LinksFindHolds, NamesAssumption DEF LinksFind, Finds, NamesAssumption
  <1> QED BY <1>1, PTL

\* The link of a row opens no other upload's file, whatever the names.
THEOREM RowLinksFindNoOther == Spec => []LinksFindNoOther
  <1>1. LinksFindNoOther
    BY LinksFindNoOtherHolds, NamesAssumption
       DEF LinksFindNoOther, FindsOnly, NamesAssumption
  <1> QED BY <1>1, PTL

\* The name that a row proposes for its download is the object's.
THEOREM RowNamesKept == Spec => []NamesKept
  <1>1. NamesKept
    BY NamesKeptHolds, NamesAssumption DEF NamesKept, Kept, NamesAssumption
  <1> QED BY <1>1, PTL
=============================================================================
