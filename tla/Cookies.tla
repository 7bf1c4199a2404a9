------------------------------ MODULE Cookies -------------------------------
(***************************************************************************)
(* One cookie name of packages/http between Response.cookie, the browser   *)
(* and Request.cookie or signedCookie: cookies.ts. A text is a sequence of *)
(* characters, of which those of Escape do not survive a header as they    *)
(* are; a signature is a character of its own.                             *)
(***************************************************************************)
EXTENDS Naturals, SequencesExt

CONSTANTS Char,       \* the characters of texts
          Text, Secret,
          Hmac(_, _), \* the signature of a text under a secret
          MaxSigned   \* bound

Quote == "DQUOTE"   \* the double quote, by its name in the grammar of headers

\* What encodeURIComponent makes of a character, and decodeURIComponent of an escape.
Escape(c) == CASE c = ";" -> "%3B" [] c = Quote -> "%22" [] c = "%" -> "%25" [] OTHER -> c
Unescape(c) == CASE c = "%3B" -> ";" [] c = "%22" -> Quote [] c = "%25" -> "%" [] OTHER -> c

VARIABLES cookieSecret,  \* KernelOptions.cookieSecret
          jar,           \* the host's own cookie and one of its parent domain: <<text>> or <<>>
          set,           \* what the host set last: [value, secret], or {}
          signatures     \* [value, secret] the host ever signed

cookieVars == <<cookieSecret, jar, set, signatures>>

CookiesInit ==
    /\ cookieSecret = CHOOSE secret \in Secret : TRUE
    /\ jar = [own |-> <<>>, parent |-> <<>>] /\ set = {} /\ signatures = {}

Encode(s) == [i \in DOMAIN s |-> Escape(s[i])]

\* safeDecode: a malformed escape leaves the text as it is.
Decode(s) == IF "%" \in ToSet(s) THEN s ELSE [i \in DOMAIN s |-> Unescape(s[i])]

Sign(value, secret) == value \o <<".", Hmac(value, secret)>>

\* unsignCookie: the last dot divides; nothing in front of it is no value.
Unsign(s, secret) ==
    {SubSeq(s, 1, dot - 1) : dot \in {i \in 2..Len(s) :
        /\ s[i] = "." /\ \A j \in (i + 1)..Len(s) : s[j] # "."
        /\ i + 1 = Len(s) /\ s[i + 1] = Hmac(SubSeq(s, 1, i - 1), secret)}}

Unquoted(s) ==
    IF s # <<>> /\ s[1] = Quote /\ Last(s) = Quote THEN SubSeq(s, 2, Len(s) - 1) ELSE s

\* A character is no escape.
ASSUME CookiesAssumption ==
    /\ Secret # {} /\ MaxSigned \in Nat
    /\ Text \subseteq Seq(Char) /\ Char \cap {"%3B", "%22", "%25"} = {}

\* Nor is a signature, which is base64 without a dot; and no two are the same.
ASSUME SignaturesDiffer == \A s \in Text, k \in Secret :
    /\ Hmac(s, k) \notin {"%3B", "%22", "%25", ";", Quote, "%", "."}
    /\ \A t \in Text, l \in Secret : Hmac(s, k) = Hmac(t, l) => s = t /\ k = l

\* Nobody who makes up a text hits upon the signature of a part of it.
ASSUME NobodyGuesses == \A s \in Text, k \in Secret : \A t \in {s, Decode(Unquoted(s))} :
    \A n \in 0..Len(t) : Hmac(SubSeq(t, 1, n), k) \notin ToSet(t)

\* Seeded defect: a later cookie of the name replaces an earlier one.
ParseLast(header) == {Decode(Unquoted(Last(header))) : i \in DOMAIN header}

\* parseCookieHeader: the first cookie of the name counts.
Parse(header) == {Decode(Unquoted(header[1])) : i \in DOMAIN header}

\* Request.cookie. The browser sends the host's own cookie first.
Cookie == Parse(jar.own \o jar.parent)
SignedCookie == UNION {Unsign(s, cookieSecret) : s \in Cookie}

\* serializeCookie throws for a SameSite=None that is not Secure, for a Max-Age that is not
\* finite, and for a bad name; a Max-Age is rounded down, and one of 0 is the end of it.
Serializes(sameSite, secure, maxAge) == (sameSite = "none" => secure) /\ maxAge # "NaN"
Expires(maxAge) == maxAge \in {"0", "0.5"}

\* Response.cookie, and the browser's jar when the answer is there.
SetCookie(value, signed, sameSite, secure, maxAge) ==
    /\ Serializes(sameSite, secure, maxAge)
    /\ LET text == IF signed THEN Sign(value, cookieSecret) ELSE value
       IN  jar' = [jar EXCEPT !.own = IF Expires(maxAge) THEN <<>> ELSE <<Encode(text)>>]
    /\ set' = IF Expires(maxAge) THEN {}
              ELSE {[value |-> value, signed |-> signed, secret |-> cookieSecret]}
    /\ signatures' = IF signed THEN signatures \cup {<<value, cookieSecret>>} ELSE signatures
    /\ Cardinality(signatures') <= MaxSigned
    /\ UNCHANGED cookieSecret

\* clearCookie.
ClearCookie ==
    /\ jar' = [jar EXCEPT !.own = <<>>] /\ set' = {}
    /\ UNCHANGED <<cookieSecret, signatures>>

\* Another host of the parent domain sets a cookie of the name: any text, or one it saw.
SiblingSets(text) ==
    /\ jar' = [jar EXCEPT !.parent = <<text>>]
    /\ UNCHANGED <<cookieSecret, set, signatures>>

\* The server is deployed with another secret.
ChangeSecret(secret) ==
    /\ cookieSecret' = secret
    /\ UNCHANGED <<jar, set, signatures>>

CookiesNext ==
    \/ \E value \in Text, signed, secure \in BOOLEAN, sameSite \in {"lax", "none"},
          maxAge \in {"unset", "0", "0.5", "NaN"} :
              SetCookie(value, signed, sameSite, secure, maxAge)
    \/ ClearCookie
    \/ \E text \in {s \in Text : ";" \notin ToSet(s)} \cup ToSet(jar.own)
                      \cup {Encode(Sign(c[1], c[2])) : c \in signatures} : SiblingSets(text)
    \/ \E secret \in Secret : ChangeSecret(secret)

CookiesSpec == CookiesInit /\ [][CookiesNext]_cookieVars
-----------------------------------------------------------------------------
\* What the host set is what it reads, whatever another host put beside it and whatever
\* characters are in it; signed, it is read as long as the secret is the same (but for the
\* empty value). And signedCookie never returns what was not signed with today's secret.
CookiesReadBack ==
    /\ \A c \in set :
          /\ ~c.signed => Cookie = {c.value}
          /\ c.signed => SignedCookie = IF c.secret = cookieSecret /\ c.value # <<>>
                                        THEN {c.value} ELSE {}
    /\ \A v \in SignedCookie : <<v, cookieSecret>> \in signatures
=============================================================================
