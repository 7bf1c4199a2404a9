------------------------------- MODULE Config -------------------------------
(***************************************************************************)
(* .env and the files of config/ in packages/core: what boot() reads them  *)
(* into. Texts are sequences of characters; "nl" ends a line, "export"     *)
(* counts as one, and the space, quotes and backslash go by their names.   *)
(* Config file k reads variable k with env(). Boot may fail on a variable  *)
(* nobody set, and be called again.                                        *)
(***************************************************************************)
EXTENDS Naturals, SequencesExt

CONSTANTS Key, Value,
          Real,       \* Key -> {value in the environment of the process} or {}
          Default,    \* Key -> {fallback of env()} or {}
          MaxLines  \* bound

Letter == Key \cup {"a", "n"}
Quotes == {"DQUOTE", "SQUOTE"}
Mark == Quotes \cup {"BACKSLASH", "SPACE", "nl", "export", "#", "="}
Char == Letter \cup Mark \cup UNION {ToSet(value) : value \in Value}

ASSUME ConfigAssumption == Value \subseteq Seq(Char) /\ Letter \cap Mark = {}

VARIABLES dotenv,    \* the text of .env
          wrote,     \* Key -> {the value last written to it}, or {}
          environ,   \* Key -> {process.env}, or {}
          store,     \* Config.store: Key -> {value} or {}
          loaded,    \* Config.loaded
          loading,   \* files load() still has to import
          threw,     \* files that threw when they were imported
          lines    \* written so far

configVars == <<dotenv, wrote, environ, store, loaded, loading, threw, lines>>

Unset == [k \in Key |-> {}]

ConfigInit ==
    /\ dotenv = <<>> /\ wrote = Unset /\ environ = Real /\ lines = 0
    /\ store = Unset /\ loaded = FALSE /\ loading = {} /\ threw = {}
-----------------------------------------------------------------------------
First(s, c) == Min({i \in DOMAIN s : s[i] = c} \cup {Len(s) + 1})
Upto(s, i) == SubSeq(s, 1, i - 1)
From(s, i) == SubSeq(s, i, Len(s))

Inked(s) == {i \in DOMAIN s : s[i] # "SPACE"}
LeftTrim(s) == IF Inked(s) = {} THEN <<>> ELSE From(s, Min(Inked(s)))
Trim(s) == IF Inked(s) = {} THEN <<>> ELSE SubSeq(s, Min(Inked(s)), Max(Inked(s)))

\* lines[i], and what follows it.
Line(s) == Upto(s, First(s, "nl"))
Below(s) == From(s, First(s, "nl") + 1)

\* Seeded defect: \n stays an n.
UnescapeLetters(c) == c
\* \r and \t are left out.
Unescape(c) == IF c = "n" THEN "nl" ELSE c

\* A round of readQuoted: a backslash at the end of a line is one.
ReadOn(read, quote) ==
    LET s == read.rest
        escapes == quote = "DQUOTE" /\ s[1] = "BACKSLASH" /\ Len(s) > 1 /\ s[2] # "nl"
    IN  IF s = <<>> \/ s[1] = quote THEN read
        ELSE [value |-> Append(read.value, IF escapes THEN Unescape(s[2]) ELSE s[1]),
              rest |-> From(s, IF escapes THEN 3 ELSE 2)]

\* readQuoted: up to the closing quote, over line ends, or to the end of the file. What is
\* read of s after so many rounds.
Reading(s, quote) ==
    LET read[n \in 0..Len(s)] ==
            IF n = 0 THEN [value |-> <<>>, rest |-> s] ELSE ReadOn(read[n - 1], quote)
    IN  read
ReadQuoted(s, quote) == Reading(s, quote)[Len(s)]

\* An unquoted value ends at a comment that follows a space.
Unquoted(line) ==
    LET hash == {i \in 1..Len(line) - 1 : line[i] = "SPACE" /\ line[i + 1] = "#"}
    IN  Trim(IF hash = {} THEN line ELSE Upto(line, Min(hash)))

WithoutExport(s) ==
    LET start == LeftTrim(s)
    IN  IF Len(start) > 1 /\ start[1] = "export" /\ start[2] = "SPACE"
        THEN LeftTrim(Tail(start)) ELSE start

\* A round of parseDotenv: a line, and those that a quoted value goes on to.
ParseLine(at) ==
    LET s == WithoutExport(at.rest)
        key == Trim(Upto(Line(s), First(Line(s), "=")))
        after == LeftTrim(From(s, First(s, "=") + 1))
        read == IF after # <<>> /\ after[1] \in Quotes THEN ReadQuoted(Tail(after), after[1])
                ELSE [value |-> Unquoted(Line(after)), rest |-> s]
    IN  IF Line(s) = <<>> \/ s[1] = "#" \/ "=" \notin ToSet(Line(s))
           \/ key = <<>> \/ ~(ToSet(key) \subseteq Letter)
        THEN [at EXCEPT !.rest = Below(s)]
        ELSE [rest |-> Below(read.rest),
              result |-> [k \in Key |-> IF <<k>> = key THEN {read.value} ELSE at.result[k]]]

\* parseDotenv; the last line of a key counts.
Parsing(s) ==
    LET at[n \in 0..Len(s)] ==
            IF n = 0 THEN [rest |-> s, result |-> Unset] ELSE ParseLine(at[n - 1])
    IN  at
ParseDotenv(s) == Parsing(s)[Len(s)].result
-----------------------------------------------------------------------------
\* Somebody adds an entry to .env, in any way that can hold the value.
Escape(c, quote) ==
    IF quote = "DQUOTE" /\ c \in {"DQUOTE", "BACKSLASH"} THEN <<"BACKSLASH", c>>
    ELSE IF quote = "DQUOTE" /\ c = "nl" THEN <<"BACKSLASH", "n">> ELSE <<c>>
\* The last characters, so many of them.
Escaping(value, quote) ==
    LET last[n \in 0..Len(value)] ==
            IF n = 0 THEN <<>> ELSE Escape(value[Len(value) + 1 - n], quote) \o last[n - 1]
    IN  last
Escaped(value, quote) == Escaping(value, quote)[Len(value)]
Quote(value, quote) == <<quote>> \o Escaped(value, quote) \o <<quote>>
Plain(value) ==
    value # <<>> /\ Unquoted(value) = value /\ value[1] \notin Quotes /\ "nl" \notin ToSet(value)
Writings(value) ==
    {Quote(value, quote) : quote \in {q \in Quotes : q = "SQUOTE" => q \notin ToSet(value)}}
    \cup {plain \in {value} : Plain(plain)}
Before == {<<>>, <<"SPACE", "export", "SPACE">>}
Comment == {<<>>, <<"SPACE", "#", "a">>}

Entry(k, written, before, comment) ==
    before \o (<<k, "=">> \o (written \o (comment \o <<"nl">>)))

AddLine(k, value, written, before, comment) ==
    /\ loading = {} /\ lines < MaxLines
    /\ dotenv' = dotenv \o Entry(k, written, before, comment)
    /\ wrote' = [wrote EXCEPT ![k] = {value}]
    /\ lines' = lines + 1
    /\ UNCHANGED <<environ, store, loaded, loading, threw>>

\* env: the fallback is for a variable that is not set at all.
Env(k) == IF environ[k] # {} THEN environ[k] ELSE Default[k]

\* boot() begins with loadDotenv, which overwrites nothing, and load().
BootBegins ==
    /\ loading = {} /\ ~loaded
    /\ environ' = [k \in Key |-> IF environ[k] # {} THEN environ[k] ELSE ParseDotenv(dotenv)[k]]
    /\ loading' = Key
    /\ UNCHANGED <<dotenv, wrote, store, loaded, threw, lines>>

\* load awaits the import of one file after another and keeps what each exports. A file is
\* evaluated when it is imported for the first time.
Import(k) ==
    /\ k \in loading \ threw
    /\ \/ store[k] # {} /\ UNCHANGED store
       \/ store[k] = {} /\ Env(k) # {} /\ store' = [store EXCEPT ![k] = Env(k)]
    /\ loading' = loading \ {k}
    /\ loaded' = (loading' = {})
    /\ UNCHANGED <<dotenv, wrote, environ, threw, lines>>

\* Or it throws, what it threw the first time, with the other files not imported.
ImportFails(k) ==
    /\ k \in loading
    /\ k \in threw \/ (store[k] = {} /\ Env(k) = {})
    /\ threw' = threw \cup {k} /\ loading' = {}
    /\ UNCHANGED <<dotenv, wrote, environ, store, loaded, lines>>

ConfigNext ==
    \/ \E k \in Key, value \in Value : \E written \in Writings(value),
          before \in Before, comment \in Comment : AddLine(k, value, written, before, comment)
    \/ BootBegins
    \/ \E k \in Key : Import(k) \/ ImportFails(k)

ConfigSpec == ConfigInit /\ [][ConfigNext]_configVars
-----------------------------------------------------------------------------
\* A variable gets the value that was last written to .env when it was first read, whatever
\* quotes, escapes, comments and line ends are in it, and never in place of one that was
\* set; when boot() goes on, all of config/ is loaded with those values. (A comment behind
\* an empty value without quotes becomes the value, so nobody writes one here.)
ConfigAsWritten ==
    [][/\ \A k \in Key : environ'[k] # environ[k] => environ[k] = {} /\ environ'[k] = wrote[k]
       /\ \A k \in Key : loading = {} /\ loading' # {} /\ wrote[k] # {} => environ'[k] # {}
       /\ loaded' => \A k \in Key : store'[k] = Env(k)]_configVars
=============================================================================
