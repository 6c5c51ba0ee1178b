------------------------------ MODULE MCFriends ------------------------------
EXTENDS Friends
=============================================================================
