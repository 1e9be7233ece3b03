---------------------------- MODULE ReplyScanner ----------------------------
(***************************************************************************)
(* AgentLoop._scan_json_objects (core/agent_loop.py): one pass over the    *)
(* reply of a model that cuts the JSON objects of its tool calls out of    *)
(* the prose around them.  A text is a sequence of tokens: brackets of     *)
(* either shape are braces to the scanner, a tag is one token, and "x" is  *)
(* any other character.                                                    *)
(***************************************************************************)
EXTENDS Integers, Sequences

CONSTANTS
  Prose,    \* tokens that prose may hold
  MaxProse  \* bound: tokens of prose before the call

VARIABLES
  text,    \* the reply
  i,       \* the next token
  depth,   \* open braces
  start,   \* where the outermost open brace is
  inTool,  \* in_tool_block: a tag came and its object has not closed
  inStr,   \* in_str
  esc,     \* esc: the token after a backslash
  skip,    \* xml_end: everything before it is XML
  objs,    \* the objects found: where each starts and ends
  incomplete

vars == <<text, i, depth, start, inTool, inStr, esc, skip, objs, incomplete>>

Call == <<"<tool_call>", "{", "quote", "x", "quote", "}", "x">>

\* Replies of some prose and one well-formed call.
Init ==
  /\ \E n \in 0..MaxProse : \E prose \in [1..n -> Prose] : text = prose \o Call
  /\ i = 1
  /\ depth = 0 /\ start = 0
  /\ inTool = FALSE /\ inStr = FALSE /\ esc = FALSE
  /\ skip = 1
  /\ objs = {}
  /\ incomplete = FALSE

Read(token) == skip <= i /\ i <= Len(text) /\ text[i] = token /\ i' = i + 1

InXML ==
  /\ i < skip
  /\ i' = i + 1
  /\ UNCHANGED <<text, depth, start, inTool, inStr, esc, skip, objs, incomplete>>

\* Inside a string only a backslash and the closing quote count.
StringToken ==
  /\ inStr
  /\ \E token \in {text[i]} : Read(token) /\ IF esc THEN esc' = FALSE /\ UNCHANGED inStr
                                             ELSE /\ esc' = (token = "backslash")
                                                  /\ inStr' = (token # "quote")
  /\ UNCHANGED <<text, depth, start, inTool, skip, objs, incomplete>>

\* <invoke ...> outside any object hides all up to its end.
OpenXML ==
  /\ ~inStr
  /\ depth = 0
  /\ Read("<invoke")
  /\ LET ends == {k \in i..Len(text) : text[k] = "</invoke>"} IN
     skip' = IF ends = {} THEN Len(text) + 1 ELSE 1 + CHOOSE k \in ends : \A l \in ends : k <= l
  /\ UNCHANGED <<text, depth, start, inTool, inStr, esc, objs, incomplete>>

\* A tag drops what was open, unless that belongs to a tagged object.
ToolTag ==
  /\ ~inStr
  /\ Read("<tool_call>")
  /\ IF depth = 0 \/ ~inTool
       THEN /\ incomplete' = (incomplete \/ depth > 0)
            /\ depth' = 0 /\ start' = 0
            /\ inTool' = TRUE
       ELSE UNCHANGED <<incomplete, depth, start, inTool>>
  /\ UNCHANGED <<text, inStr, esc, skip, objs>>

OpenQuote ==
  /\ ~inStr
  /\ Read("quote")
  /\ inStr' = (depth > 0)
  /\ UNCHANGED <<text, depth, start, inTool, esc, skip, objs, incomplete>>

OpenBrace ==
  /\ ~inStr
  /\ Read("{")
  /\ start' = IF depth = 0 THEN i ELSE start
  /\ depth' = depth + 1
  /\ UNCHANGED <<text, inTool, inStr, esc, skip, objs, incomplete>>

CloseBrace ==
  /\ ~inStr
  /\ Read("}")
  /\ depth' = IF depth > 0 THEN depth - 1 ELSE 0
  /\ IF depth = 1 /\ start > 0
       THEN objs' = objs \union {<<start, i>>} /\ start' = 0 /\ inTool' = FALSE
       ELSE UNCHANGED <<objs, start, inTool>>
  /\ UNCHANGED <<text, inStr, esc, skip, incomplete>>

Other ==
  /\ ~inStr
  /\ \/ \E token \in {"x", "backslash", "</invoke>"} : Read(token)
     \/ depth > 0 /\ Read("<invoke")
  /\ UNCHANGED <<text, depth, start, inTool, inStr, esc, skip, objs, incomplete>>

Scanned == i = Len(text) + 1

\* What is still open at the end makes the reply incomplete.
Return ==
  /\ Scanned
  /\ incomplete' = (incomplete \/ depth > 0)
  /\ UNCHANGED <<text, i, depth, start, inTool, inStr, esc, skip, objs>>

Next ==
  \/ InXML \/ StringToken \/ OpenXML \/ ToolTag \/ OpenQuote
  \/ OpenBrace \/ CloseBrace \/ Other \/ Return

Spec == Init /\ [][Next]_vars

-----------------------------------------------------------------------------
\* The docstring of the scanner: prose is not read as JSON strings, and a brace
\* of the prose that is never closed does not swallow the call that follows:
\* whatever the prose before it, a well-formed tagged call is extracted.
CallExtracted ==
  Scanned => LET first == Len(text) - Len(Call) + 1 IN <<first + 1, first + 5>> \in objs
=============================================================================
