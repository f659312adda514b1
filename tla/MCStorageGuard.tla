---------------------------- MODULE MCStorageGuard ----------------------------
EXTENDS StorageGuard
===============================================================================
