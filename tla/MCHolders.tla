------------------------------ MODULE MCHolders ------------------------------
EXTENDS HolderJournalCache
\* The third holder is the pool, which earns nothing.
Minted == <<2, 1, 1>>
\* A purchase, a sale of more than one lot, two sellers and one buyer at once.
Changes == {<<1, 0, -1>>, <<-2, 0, 2>>, <<-1, 2, -1>>}
TwoHours == <<1, 2, 3>>
==============================================================================
