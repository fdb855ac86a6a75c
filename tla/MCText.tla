------------------------------ MODULE MCText ------------------------------
(***************************************************************************)
(* The functions of labs 1, 2 and 4 that work on one text, one table or    *)
(* one image: the input is built up item by item, and every function is    *)
(* checked on every input.  A behaviour is about one of them, its part.    *)
(* The keyboard of lab 4 is a part of its own: it turns the keys that the  *)
(* user presses and releases into characters.                              *)
(***************************************************************************)
EXTENDS CaesarText

VARIABLES
  part,
  held, caps, bytes, modifiers, last_escape, typed, last, power         \* Keyboard

keyVars == <<held, caps, bytes, modifiers, last_escape, typed, last, power>>

MCIntMin == -64
MCKeys == INT_MIN..(-INT_MIN - 1)

String == INSTANCE LibString WITH mem <- text, Bytes <- {0, 65, 97, 200}, MaxMem <- 5

Number == INSTANCE LibNumber WITH
            s <- text, W <- 6, Chars <- {32, 45, 48, 54, 57, 66, 102, 120},
            MaxLen <- 4, Bases <- {0, 2, 8, 10, 16}

\* Formats with one conversion, all of whose parts vary, and with two.
Strings == {<< >>, <<"a", "b", "c">>}
None == -1              \* no width, no precision
One == INSTANCE Printf WITH
         pieces <- text, IntBits <- 5, LongBits <- 11, NUMBUFSIZ <- 32,
         Words <- {0, 9, 1025, 2047}, MaxPieces <- 1, Sizes <- {0, 1, 3, 8},
         FlagSets <- {{}, {"-"}, {"0"}, {"+", "0"}, {" ", "-"}, {"#", "0"}, {"'"}, {"0", "-"}},
         Widths <- {None, 1, 6}, Precisions <- {None, 0, 4},
         Conversions <- {"d", "u", "x", "X", "p", "s", "c", "%", "C"}
Two == INSTANCE Printf WITH
         pieces <- text, IntBits <- 5, LongBits <- 11, NUMBUFSIZ <- 32,
         Words <- {3, 31}, MaxPieces <- 2, Sizes <- {0, 1, 3, 8},
         FlagSets <- {{}, {"-"}, {"0", "+"}}, Widths <- {None, 4}, Precisions <- {None},
         Conversions <- {"d", "s", "C"}

Symbols == INSTANCE Symtab WITH sym <- text, MaxAddr <- 5, MaxSyms <- 4, MaxSize <- 2, Last <- 2

Image == INSTANCE ProgramImage WITH
           ph <- text, SECTORSIZE <- 2, PAGESIZE <- 4, Mem <- 8,
           MaxHeaders <- 2, MaxOff <- 1, MaxSize <- 3

Token == INSTANCE CmdToken WITH
           line <- text, Chars <- {" ", "dq", "bq", "(", "a", ">"}, MaxLine <- 5, TOKENSIZE <- 3

Keyb == INSTANCE Keyboard WITH
          mode <- power, KeySet <- {"a", "c", "q", "up", "shift", "rctrl", "caps"},
          MaxBytes <- 4, MaxHeld <- 2

TextInit ==
  /\ Init /\ Keyb!Init
  /\ part \in {"caesar", "string", "number", "printf", "printf two", "symbols", "image", "token", "keyboard"}

TextNext ==
  /\ \/ part = "caesar" /\ Next
     \/ part = "string" /\ String!Next
     \/ part = "number" /\ Number!Next
     \/ part = "printf" /\ One!Next
     \/ part = "printf two" /\ Two!Next
     \/ part = "symbols" /\ Symbols!Next
     \/ part = "image" /\ Image!Next
     \/ part = "token" /\ Token!Next
     \/ part = "keyboard" /\ UNCHANGED text
  /\ IF part = "keyboard" THEN Keyb!Next ELSE UNCHANGED keyVars
  /\ UNCHANGED part

\* the kernel polls the keyboard
TextSpec ==
  /\ TextInit /\ [][TextNext]_<<text, part, keyVars>>
  /\ WF_keyVars(part = "keyboard" /\ Keyb!check_keyboard)

-----------------------------------------------------------------------------
(* Properties: those of the modules, each on the inputs of its part.       *)

\* caesar.c: decode undoes encode, and every character moves by the key in the
\* loop of its class, see CaesarText.
CipherExact == part = "caesar" => RoundTrip /\ InLoops

\* lib.cc: the memory and string functions are those of the C library.  Moves and
\* copies keep the old bytes inside the destination, comparisons are lexicographic,
\* and searches find the first occurrence.
StringsExact ==
  part = "string" =>
    String!MovesOld /\ String!CopiesStrings /\ String!ComparesLex /\ String!FindsFirst

\* lib.cc, strtol, strtoul and from_chars: the values of the C library, but for
\* the three kinds of strings that Odd names.
ParsesExact == part = "number" => Number!ParsesExact

\* lib.cc, printer::vprintf, vsnprintf: conversions in order, with their arguments
\* and colors, and a terminated prefix of them inside the buffer.
FieldsExact == /\ part = "printf" => One!FieldsExact /\ One!Bounded
               /\ part = "printf two" => Two!FieldsExact

\* k-hardware.cc, lookup_symbol: the binary search finds the symbol of an address.
FindsSymbol == part = "symbols" => Symbols!FindsSymbol

\* boot.cc, boot, and kernel.cc, process_setup: every segment of the image is in
\* memory, and nothing else is written for a process.
ImagesLoad == part = "image" => Image!BootLoads /\ Image!ProcessLoads

\* cmdparse.c, parse_gettoken: the token that begins at a place of the line.
FindsToken == part = "token" => Token!FindsToken

\* k-hardware.cc, keyboard_readc, check_keyboard: what is read is what was typed,
\* with the modifiers that are held, and Control-C and q turn the machine off.
ReadsTyped ==
  /\ [](part = "keyboard" => Keyb!ReadsTyped /\ Keyb!ModifiersKnown)
  /\ part = "keyboard" => Keyb!QuitWorks
=============================================================================
