------------------------------ MODULE MCServices ------------------------------
(***************************************************************************)
(* Components that share no state, checked in one run: the initial state   *)
(* chooses the component that runs, and the others stand still.            *)
(***************************************************************************)
EXTENDS ProcessTables, Mutex, SleepQueue, KeyRing, Console, Trie, Ext4Reader, BootMapping

VARIABLE part   \* the component that runs

\* Regions inside of a page, over a page border, and around another region.
SmallRegions == {<<4, 2>>, <<3, 4>>}

\* Text for the panel, text with wrong escape sequences, and text with colours.
SmallTexts == {{<<"x">>, <<"nl">>, <<"tab">>, <<"del">>},
               {<<"x">>, <<"ESC">>, <<"[">>, <<"m">>, <<"1">>},
               {<<"x">>, <<"ESC", "[">>, <<"0">>, <<"1">>, <<";">>, <<"m">>}}

\* Keys with common prefixes, keys that are a prefix of others, three to a level.
ShortKeys == {<<a>> : a \in 1..3} \cup ((1..3) \X (1..3)) \cup {<<1, 2, 1>>, <<1, 2, 3>>, <<2, 1, 1>>}

\* A disk with two groups of four inodes: / (2) in two blocks with a hole
\* between them, /b (3), the file /a (5) with a hole and an indirect block,
\* and /b/ab (8).  /b/a is / again.
DirEntry(inode, name, rec_len) == [inode |-> inode, name |-> name, rec_len |-> rec_len]

DiskLayout ==
    [n \in {2, 3, 5, 8} |-> CASE n = 2 -> <<30, 0, 31, 0, 0, 0>>
                              [] n = 3 -> <<32, 0, 0, 0, 0, 0>>
                              [] n = 5 -> <<40, 0, 43, 50, 51, 0>>
                              [] n = 8 -> <<41, 42, 0, 0, 0, 0>>]

DirectoryBlocks ==
    [b \in 30..32 |->
        CASE b = 30 -> <<DirEntry(0, <<"a">>, 1), DirEntry(3, <<"b">>, 1)>>
          [] b = 31 -> <<DirEntry(5, <<"a">>, 1), DirEntry(0, <<>>, 0), DirEntry(8, <<"a", "b">>, 1)>>
          [] b = 32 -> <<DirEntry(8, <<"a", "b">>, 1), DirEntry(2, <<"a">>, 1)>>]

IndirectBlocks == [b \in {50} |-> <<60, 0, 75>>]
GroupTables == <<10, 20>>
ThreeZeros == <<0, 0, 0>>

Parts == {"tables", "mutex", "sleep", "ring", "log", "printf", "trie", "disk", "boot"}

ServicesInit ==
    /\ part \in Parts
    /\ Init /\ SleepInit /\ RingInit /\ ConsoleInit /\ TrieInit /\ Ext4Init /\ BootInit
    /\ MutexInit

Step(name, next) == part = name /\ next /\ UNCHANGED part

ServicesNext ==
    \/ /\ Step("tables", Next)
       /\ UNCHANGED <<mutexVars, sleepVars, ringVars, consoleVars, trieVars, ext4Vars, bootVars>>
    \/ /\ Step("mutex", MutexNext)
       /\ UNCHANGED <<vars, sleepVars, ringVars, consoleVars, trieVars, ext4Vars, bootVars>>
    \/ /\ Step("sleep", SleepNext)
       /\ UNCHANGED <<vars, mutexVars, ringVars, consoleVars, trieVars, ext4Vars, bootVars>>
    \/ /\ Step("ring", RingNext)
       /\ UNCHANGED <<vars, mutexVars, sleepVars, consoleVars, trieVars, ext4Vars, bootVars>>
    \/ /\ Step("log", LogNext)
       /\ UNCHANGED <<vars, mutexVars, sleepVars, ringVars, trieVars, ext4Vars, bootVars>>
    \/ /\ Step("printf", PrintfNext)
       /\ UNCHANGED <<vars, mutexVars, sleepVars, ringVars, trieVars, ext4Vars, bootVars>>
    \/ /\ Step("trie", TrieNext)
       /\ UNCHANGED <<vars, mutexVars, sleepVars, ringVars, consoleVars, ext4Vars, bootVars>>
    \/ /\ Step("disk", Ext4Next)
       /\ UNCHANGED <<vars, mutexVars, sleepVars, ringVars, consoleVars, trieVars, bootVars>>
    \/ /\ Step("boot", BootNext)
       /\ UNCHANGED <<vars, mutexVars, sleepVars, ringVars, consoleVars, trieVars, ext4Vars>>

servicesVars == <<part, vars, mutexVars, sleepVars, ringVars, consoleVars, trieVars, ext4Vars, bootVars>>

ServicesSpec == ServicesInit /\ [][ServicesNext]_servicesVars
=============================================================================
