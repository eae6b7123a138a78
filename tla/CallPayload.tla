----------------------------- MODULE CallPayload -----------------------------
(***************************************************************************)
(* What becomes of a call between the command line of the client and the   *)
(* binary of the server: requirements, parameter count and text of the     *)
(* payload (main.c, rpc_client.c, rpc_helpers.c), their parsing, and the   *)
(* comparison with rpc.conf (rpc_server.c).                                *)
(*                                                                         *)
(* A text is a sequence of characters, as far as the code looks into it:   *)
(* delimiters, digits, and what names and parameters differ in.  A path to *)
(* a local file and a file hash are texts of one character.                *)
(***************************************************************************)
EXTENDS Integers, Sequences, SequencesExt

CONSTANTS
    ByteRange, \* how many numbers a uint8_t holds: 256
    ShellChars \* characters that mean something to the shell

Bar == "|"
Space == " "
Comma == ","
Path == <<"path">>
Hash == <<"hash">>

\* The local copy of a parameter file: its name holds that of the procedure.
FilePath(name) == <<"file">> \o name

\* The blank between words is not one of those characters, nor is there one in a hash
\* or in what the server puts around the name of the procedure.
ASSUME PayloadAssumption ==
    /\ ByteRange \in Nat \ {0}
    /\ ShellChars \subseteq STRING \ {Space, "hash", "file"}

Whole(part) == IF part = <<>> THEN <<>> ELSE <<part>>

\* strtok: the parts between delimiters; empty ones vanish.
Tokens(text, delimiter) ==
    LET scan[i \in 0 .. Len(text)] ==
          IF i = 0 THEN [all |-> <<>>, part |-> <<>>]
          ELSE LET parts == scan[i - 1]
               IN  IF text[i] # delimiter THEN [parts EXCEPT !.part = Append(@, text[i])]
                   ELSE [all |-> parts.all \o Whole(parts.part), part |-> <<>>]
        end == scan[Len(text)]
    IN  end.all \o Whole(end.part)

-----------------------------------------------------------------------------
(* Numbers                                                                  *)

Numerals == <<"0", "1", "2", "3", "4", "5", "6", "7", "8", "9">>

\* sprintf "%u" of a byte.
Digits(n) ==
    (IF n >= 100 THEN <<Numerals[((n \div 100) % 10) + 1]>> ELSE <<>>) \o
    (IF n >= 10 THEN <<Numerals[((n \div 10) % 10) + 1]>> ELSE <<>>) \o
    <<Numerals[(n % 10) + 1]>>

\* atoi of digits.
Number(text) ==
    LET Shift(n, char) == 10 * n + (CHOOSE d \in 0 .. 9 : Numerals[d + 1] = char)
    IN  FoldLeft(Shift, 0, text)

-----------------------------------------------------------------------------
(* Requirements: eight numbers of four bits in 32                           *)

Index == 0 .. 7
NoRequirements == [k \in Index |-> 0]

\* A list of requirements is recognised by its seven commas and its length.
IsRequirements(arg) ==
    /\ Len(arg) = 15
    /\ Len(SelectSeq(arg, LAMBDA char : char = Comma)) = 7

\* _str_to_int_arr on the array of main, whose elements nobody has set:
\* `garbage' is what they hold.
Values(args, garbage) ==
    IF IsRequirements(Last(args))
    THEN LET entries == Tokens(Last(args), Comma)
         IN  [i \in Index |-> IF i < Len(entries) THEN Number(entries[i + 1]) ELSE garbage]
    ELSE NoRequirements

\* The 32 bits as eight digits, digit 0 the lowest: shifted by four, and the next
\* value put into the place that is free.
ShiftIn(bits, value) == [k \in Index |-> IF k = 0 THEN value ELSE bits[k - 1]]

\* The values go in one after the other, two in every turn of the loop; a value out
\* of range makes all of them 0, and the call is sent nevertheless.
rpc_client_prepare_requirements(values) ==
    LET Turn(bits, i) == ShiftIn(ShiftIn(bits, values[i]), values[i + 1])
    IN  IF \A i \in Index : values[i] \in 0 .. 15
        THEN Turn(Turn(Turn(Turn(NoRequirements, 0), 2), 4), 6)
        ELSE NoRequirements

\* Both ends of the loop that swaps the results start at 0: nothing is swapped.
Swapped(result) == result

\* Four bits at a time, from the lowest.
_rpc_server_parse_requirements(bits) == Swapped([i \in Index |-> bits[i]])

-----------------------------------------------------------------------------
(* The payload of a call                                                    *)

\* The parameters of a command: the list of requirements is not one of them.
Params(args) == IF IsRequirements(Last(args)) THEN Front(args) ELSE args

\* A first parameter that is a path goes into the store, and the call gets the hash.
_rpc_client_replace_if_path(params) ==
    IF params[1] = Path THEN <<Hash>> \o Tail(params) ELSE params

_rpc_flatten_params(params, delim) ==
    FlattenSeq([i \in DOMAIN params |-> <<delim>> \o params[i]])

\* A text that is found again between delimiters.
Carried(text, delim) == text # <<>> /\ \A k \in DOMAIN text : text[k] # delim

\* Mutant: the parameter count has room for every number.
WideCount(n) == n

\* write_uint8 keeps one byte.
CountByte(n) == n % ByteRange

_rpc_client_prepare_call_payload(name, params, requirements) ==
    [requirements |-> requirements,
     count |-> CountByte(Len(params)),
     text |-> name \o _rpc_flatten_params(_rpc_client_replace_if_path(params), Bar)]

\* Mutant: the name is among the parameters.
PartsWithName(parts) == parts

\* The first part is the name.
PartsAfterName(parts) == Tail(parts)

\* The procedure as the server sees it.  There may be fewer parameters than the
\* count says, or more; the latter are written behind the array.
_rpc_server_parse_call(payload) ==
    LET parts == Tokens(payload.text, Bar)
    IN  [name |-> Head(parts), paramc |-> payload.count, params |-> PartsAfterName(parts)]

-----------------------------------------------------------------------------
(* The command line of the binary                                           *)

\* The words that popen's shell makes of a command line, the binary's name first.
\* A character that means something to the shell leaves open what it runs: <<>>.
Words(line) ==
    IF \E k \in DOMAIN line : line[k] \in ShellChars THEN <<>> ELSE Tokens(line, Space)

\* Mutant: all parameters in one.
CommandInOne(name, params) == Words(name \o <<Space>> \o FlattenSeq(params))

\* What runs for a call: the name and the parameters, each behind a blank.
Command(name, params) == Words(name \o _rpc_flatten_params(params, Space))

-----------------------------------------------------------------------------
(* rpc.conf: a sequence of lines                                            *)

\* strncmp with the length of what the line says: a prefix fits.
LineVerdict(line, rp) ==
    IF ~IsPrefix(line.name, rp.name) THEN 0
    ELSE IF IsPrefix(Digits(line.paramc), Digits(rp.paramc)) THEN 2 ELSE 1

\* Mutant: the scan does not stop at the line that fits.
LastVerdict(conf, rp) == IF conf = <<>> THEN 0 ELSE LineVerdict(Last(conf), rp)

\* The scan stops at a line that fits; without one, the verdict on the last line
\* counts, its name alone included.
_rpc_server_offering(conf, rp) ==
    IF \E i \in DOMAIN conf : LineVerdict(conf[i], rp) = 2 THEN 2
    ELSE IF conf = <<>> THEN 0 ELSE LineVerdict(Last(conf), rp)

=============================================================================
