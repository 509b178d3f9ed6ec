SPECIFICATION LeaseSpec
CONSTANTS Items={w1,w2,w3} NoItem=none
INVARIANT OneItemLocked
