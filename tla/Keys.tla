---------------------------------- MODULE Keys ----------------------------------
(***************************************************************************)
(* The key tables at the two ends of the wire.  A key travels as its USB   *)
(* keyboard usage: the desktop client turns winit's key into a usage       *)
(* (client/src/main.rs) and each host turns the usage into its system's    *)
(* code (host-macos/src/host.rs, host-linux/src/inject.rs,                 *)
(* host-windows/src/main.rs).  A key of the client, of Linux and of        *)
(* Windows is written here by one name, a code of macOS by its number.     *)
(***************************************************************************)
EXTENDS Integers, Sequences, Functions

\* The table that gives the usages from u on the entries of s.
Row(u, s) == [v \in u .. u + Len(s) - 1 |-> s[v - u + 1]]

\* The rows of a table together: no two of them give the same.
Table(rows) == [u \in UNION {DOMAIN r : r \in rows} |-> (CHOOSE r \in rows : u \in DOMAIN r)[u]]

Letters == <<"A", "B", "C", "D", "E", "F", "G", "H", "I", "J", "K", "L", "M", "N",
             "O", "P", "Q", "R", "S", "T", "U", "V", "W", "X", "Y", "Z">>
FKeys == <<"F1", "F2", "F3", "F4", "F5", "F6", "F7", "F8", "F9", "F10", "F11", "F12">>

\* The usage of every key the client knows, here from usage to key: the source
\* has one arm per key.
hid_names == Table({
  Row(4, Letters), Row(30, <<"1", "2", "3", "4", "5", "6", "7", "8", "9", "0">>),
  Row(40, <<"Enter", "Escape", "Backspace", "Tab", "Space">>),
  Row(45, <<"Minus", "Equal", "BracketLeft", "BracketRight", "Backslash">>),
  Row(51, <<"Semicolon", "Quote", "Backquote", "Comma", "Period", "Slash", "CapsLock">>),
  Row(79, <<"Right", "Left", "Down", "Up">>),
  Row(75, <<"PageUp">>), Row(78, <<"PageDown">>), Row(74, <<"Home">>), Row(77, <<"End">>),
  Row(73, <<"Insert">>), Row(76, <<"Delete">>),
  Row(58, FKeys),
  Row(224, <<"LeftCtrl", "LeftShift", "LeftAlt", "LeftMeta",
             "RightCtrl", "RightShift", "RightAlt", "RightMeta">>)})
key_to_hid == AntiFunction(hid_names)

hid_to_linux_key == Table({
  Row(4, Letters), Row(30, <<"1", "2", "3", "4", "5", "6", "7", "8", "9", "0">>),
  Row(40, <<"Enter", "Escape", "Backspace", "Tab", "Space", "Minus", "Equal",
            "BracketLeft", "BracketRight", "Backslash">>),
  Row(51, <<"Semicolon", "Quote", "Backquote", "Comma", "Period", "Slash", "CapsLock">>),
  Row(58, FKeys),
  Row(73, <<"Insert", "Home", "PageUp", "Delete", "End", "PageDown">>),
  Row(79, <<"Right", "Left", "Down", "Up">>),
  Row(224, <<"LeftCtrl", "LeftShift", "LeftAlt", "LeftMeta",
             "RightCtrl", "RightShift", "RightAlt", "RightMeta">>)})

\* Letters and digits are found by arithmetic on the usage; the punctuation
\* keys have the numbers of a US keyboard.
hid_to_windows_vk == Table({
  [u \in 4 .. 29 |-> Letters[u - 4 + 1]],
  [u \in 30 .. 38 |-> <<"1", "2", "3", "4", "5", "6", "7", "8", "9">>[u - 30 + 1]],
  Row(39, <<"0">>),
  Row(40, <<"Enter", "Escape", "Backspace", "Tab", "Space", "Minus", "Equal",
            "BracketLeft", "BracketRight", "Backslash">>),
  Row(51, <<"Semicolon", "Quote", "Backquote", "Comma", "Period", "Slash", "CapsLock">>),
  Row(79, <<"Right", "Left", "Down", "Up">>),
  Row(75, <<"PageUp">>), Row(78, <<"PageDown">>), Row(74, <<"Home">>), Row(77, <<"End">>),
  Row(73, <<"Insert">>), Row(76, <<"Delete">>),
  Row(58, FKeys),
  Row(224, <<"LeftCtrl", "LeftShift", "LeftAlt", "LeftMeta",
             "RightCtrl", "RightShift", "RightAlt", "RightMeta">>)})

hid_to_macos == Table({
  Row(4, <<0, 11, 8, 2, 14, 3, 5, 4, 34, 38, 40, 37, 46, 45, 31, 35, 12, 15, 1, 17,
           32, 9, 13, 7, 16, 6>>),
  Row(30, <<18, 19, 20, 21, 23, 22, 26, 28, 25, 29>>),
  Row(40, <<36, 53, 51, 48, 49, 27, 24, 33, 30, 42>>),
  Row(51, <<41, 39, 50, 43, 47, 44, 57>>),
  Row(79, <<124, 123, 125, 126>>),
  Row(75, <<116>>), Row(78, <<121>>), Row(74, <<115>>), Row(77, <<119>>), Row(73, <<114>>), Row(76, <<117>>),
  Row(58, <<122, 120, 99, 118, 96, 97, 98, 100, 101, 109, 103, 111>>),
  Row(224, <<59, 56, 58, 55, 62, 60, 61, 54>>)})

\* The characters Linux can type, each as the key and whether Shift is held;
\* a character that is no letter or digit is written by its name.
ascii_to_key ==
  LET Plain(s, keys) == [c \in Range(s) |-> <<keys[CHOOSE i \in DOMAIN s : s[i] = c], FALSE>>]
      Shifted(s, keys) == [c \in Range(s) |-> <<keys[CHOOSE i \in DOMAIN s : s[i] = c], TRUE>>]
      letters == [i \in 1 .. 26 |-> hid_to_linux_key[4 + i - 1]]
      digits == [i \in 1 .. 9 |-> hid_to_linux_key[30 + i - 1]]
  IN Table({
     Plain(<<"a", "b", "c", "d", "e", "f", "g", "h", "i", "j", "k", "l", "m", "n",
             "o", "p", "q", "r", "s", "t", "u", "v", "w", "x", "y", "z">>, letters),
     Shifted(Letters, letters),
     Plain(<<"1", "2", "3", "4", "5", "6", "7", "8", "9">>, digits),
     Plain(<<"0", "space", "newline", "tab">>, <<"0", "Space", "Enter", "Tab">>),
     Plain(<<"hyphen", "equals", "lbracket", "rbracket", "backslash", "semicolon",
             "apostrophe", "backquote", "comma", "dot", "slash">>,
           <<"Minus", "Equal", "BracketLeft", "BracketRight", "Backslash", "Semicolon",
             "Quote", "Backquote", "Comma", "Period", "Slash">>),
     Shifted(<<"bang", "at", "hash", "dollar", "percent", "caret", "ampersand", "star",
               "lparen", "rparen">>,
             <<"1", "2", "3", "4", "5", "6", "7", "8", "9", "0">>),
     Shifted(<<"underscore", "plus", "lbrace", "rbrace", "bar", "colon", "dquote",
               "tilde", "less", "greater", "question">>,
             <<"Minus", "Equal", "BracketLeft", "BracketRight", "Backslash", "Semicolon",
               "Quote", "Backquote", "Comma", "Period", "Slash">>)})

\* A key pressed at the client is pressed at the host: every usage the client
\* sends is one each host knows, Linux and Windows press the key of that name,
\* macOS presses a key no other usage stands for.
KeysAgree ==
  /\ \A k \in DOMAIN key_to_hid :
       /\ hid_to_linux_key[key_to_hid[k]] = k
       /\ hid_to_windows_vk[key_to_hid[k]] = k
       /\ key_to_hid[k] \in DOMAIN hid_to_macos
  /\ IsInjective(hid_to_macos)

\* No two characters Linux types come out of the same keys, and these are keys
\* it also presses.
CharsApart ==
  /\ IsInjective(ascii_to_key)
  /\ \A c \in DOMAIN ascii_to_key : ascii_to_key[c][1] \in Range(hid_to_linux_key)

KeysTrue == KeysAgree /\ CharsApart
=============================================================================
